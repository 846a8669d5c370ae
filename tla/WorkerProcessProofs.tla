-------------------------- MODULE WorkerProcessProofs --------------------------
(* Theorems about WorkerProcess, for any number of descendants, on any      *)
(* platform, with every fault and a Ctrl+C anywhere but inside the          *)
(* termination itself.                                                      *)
EXTENDS WorkerProcess, TLAPS

(* _terminate is not interrupted; MCWorkerProcessInterrupt shows why this   *)
(* cannot be dropped.                                                       *)
Uninterrupted == InterruptAt \cap Terminating = {}

TreeReported == "tree" \in complaints

(* Whoever is left is being killed, or the failure to do so is known.       *)
Contained == Alive \subseteq doomed \/ TreeReported

-------------------------------------------------------------------------------
(* Where the call is, and what that says of the worker.                     *)

Early == {"dir", "file", "spools", "spawn"}

Stages ==
  /\ phase \in Early => leader = "none"
  /\ phase \in Early \cup {"attach", "talk"} => ~terminated
  /\ phase \in Terminating \cup {"drain", "result"} => terminated
  /\ terminated => leader # "none" /\ why # "none"
  /\ ~terminated => why = "none"
  /\ phase \in {"attach", "talk"} => leader # "none"
  /\ phase = "drain" => why = "TIMEOUT"
  /\ phase = "capture" => leader # "none" /\ why \in {"none", "TIMEOUT"}
  /\ phase = "result" => why \notin {"TIMEOUT", "unwind"}
  /\ leader = "none" => code = "none" /\ ~go

(* The gate: nothing is forked before the frame, and on Windows the frame   *)
(* is not sent before the job holds the worker.                             *)
Gated ==
  /\ ~go => leader # "working" /\ live = {} /\ answer = Empty
  /\ phase = "talk" => platform = "posix" \/ job
  /\ ~terminated /\ platform # "posix" /\ ~job => ~go

(* What the termination has achieved so far.                                *)
Terminated ==
  /\ phase = "leader" => ~go \/ TreeReported
  /\ phase \in {"group", "reap", "settle", "kill", "reaped"} => Contained
  /\ terminated /\ phase \notin Terminating => Contained
  /\ ~terminated /\ phase \in Closing => leader = "none"

(* How much of the frame the parent has found.                              *)
Reading ==
  /\ seen <= answer
  /\ phase \in Early => seen = Empty /\ ~misread
  /\ why = "returned" /\ mode = "stdout" /\ ~misread => seen = answer
  /\ mode = "file" /\ misread => verdict = "ERROR" /\ phase \in Closing \cup {"leave"}

(* How the worker ended, and what is made of it.                            *)
Judged ==
  /\ ~terminated => warned = {} /\ doomed = {} /\ code # "signal"
  /\ Ended => code # "none"
  /\ why = "returned" => leader = "reaped" /\ code # "signal" /\ Leader \notin doomed
  /\ phase = "capture" /\ ~terminated => leader = "reaped"
  /\ verdict \in {"own", "CRASH", "ERROR"} => why = "returned"
  /\ verdict = "own" => answer = Whole
  /\ verdict = "CRASH" => /\ code = "failed"
                          /\ \/ answer = Empty
                             \/ mode = "stdout" /\ (answer = Scrap \/ misread)
  /\ phase \in Closing \cup {"leave"} => verdict # "none" \/ unwinding
  /\ terminated /\ why = "unwind" => verdict # "none" \/ unwinding
  /\ phase \in Closing \cup {"leave"} /\ why = "returned" /\ answer = Whole
       => verdict = "own" \/ misread \/ unwinding
  /\ phase = "returned" => ~unwinding

(* What the session holds on its way out.                                   *)
Released ==
  /\ phase \in Ending \cup {"cleanup"} => ~spools
  /\ phase \in Ending => (dir => "transport" \in complaints)

IInv == TypeOK /\ Stages /\ Gated /\ Terminated /\ Reading /\ Judged /\ Released

-------------------------------------------------------------------------------
LEMMA AliveType ==
  ASSUME TypeOK
  PROVE  Alive \subseteq Process
BY DEF TypeOK, Alive, Process

-------------------------------------------------------------------------------
(* One step of anybody keeps each part.                                     *)

LEMMA TypeStep ==
  ASSUME Uninterrupted, TypeOK, Stages, Next
  PROVE  TypeOK'
<1> USE ParameterAssumption
    DEF Empty, Scrap, Torn, Whole,
        Uninterrupted, TypeOK, Stages, Verdict, Phase, Terminating, Closing, held, read,
        owned, said, worker, signals, World, Goto, Terminate, KillingOnly,
        Complains, Decide
<1>1. CASE PassesGate
  BY <1>1 DEF PassesGate
<1>2. CASE Forks
  BY <1>2 DEF Forks
<1>3. CASE Writes
  BY <1>3 DEF Writes
<1>4. CASE Exits
  BY <1>4 DEF Exits
<1>5. CASE IsKilled
  BY <1>5 DEF IsKilled
<1>6. CASE DescendantEnds
  BY <1>6 DEF DescendantEnds
<1>7. CASE MakeDir
  <2>1. dir' \in BOOLEAN
    BY <1>7, Zenon DEF MakeDir
  <2> QED
    BY <1>7, <2>1 DEF MakeDir
<1>8. CASE MakeFile
  BY <1>8 DEF MakeFile
<1>9. CASE MakeSpools
  BY <1>9 DEF MakeSpools
<1>10. CASE Spawn
  BY <1>10 DEF Spawn
<1>11. CASE Attach
  BY <1>11 DEF Attach
<1>12. CASE AttachFails
  <2>1. terminated' \in BOOLEAN /\ job' \in BOOLEAN
    BY <1>12, Zenon DEF AttachFails
  <2>2. phase' \in Phase
    BY <1>12 DEF AttachFails
  <2> QED
    BY <1>12, <2>1, <2>2 DEF AttachFails
<1>13. CASE SendsGo
  BY <1>13 DEF SendsGo
<1>14. CASE Returned
  <2>1. terminated' \in BOOLEAN /\ job' \in BOOLEAN
    BY <1>14, Zenon DEF Returned
  <2>2. phase' \in Phase
    BY <1>14 DEF Returned
  <2> QED
    BY <1>14, <2>1, <2>2 DEF Returned
<1>15. CASE TimesOut
  <2>1. terminated' \in BOOLEAN /\ job' \in BOOLEAN
    BY <1>15, Zenon DEF TimesOut
  <2>2. phase' \in Phase
    BY <1>15 DEF TimesOut
  <2> QED
    BY <1>15, <2>1, <2>2 DEF TimesOut
<1>16. CASE CommunicationFails
  <2>1. terminated' \in BOOLEAN /\ job' \in BOOLEAN
    BY <1>16, Zenon DEF CommunicationFails
  <2>2. phase' \in Phase
    BY <1>16 DEF CommunicationFails
  <2> QED
    BY <1>16, <2>1, <2>2 DEF CommunicationFails
<1>17. CASE Sigterm
  <2>1. warned' \subseteq Process /\ doomed' \subseteq Process
    BY <1>17, AliveType DEF Sigterm
  <2>2. phase' \in Phase /\ complaints' \subseteq {"tree", "transport"}
    BY <1>17 DEF Sigterm
  <2> QED
    BY <1>17, <2>1, <2>2 DEF Sigterm
<1>18. CASE Grace
  BY <1>18 DEF Grace, Reaped
<1>19. CASE Sigkill
  <2>1. warned' \subseteq Process /\ doomed' \subseteq Process
    BY <1>19, AliveType DEF Sigkill
  <2>2. phase' \in Phase /\ complaints' \subseteq {"tree", "transport"}
    BY <1>19 DEF Sigkill
  <2> QED
    BY <1>19, <2>1, <2>2 DEF Sigkill
<1>20. CASE GroupGone
  BY <1>20 DEF GroupGone
<1>21. CASE GroupStays
  BY <1>21 DEF GroupStays
<1>22. CASE WaitFails
  BY <1>22 DEF WaitFails, Resume
<1>23. CASE Reap
  BY <1>23 DEF Reap, Reaped, Resume
<1>24. CASE TerminateJob
  <2>1. warned' \subseteq Process /\ doomed' \subseteq Process
    BY <1>24, AliveType DEF TerminateJob
  <2>2. phase' \in Phase /\ complaints' \subseteq {"tree", "transport"}
    BY <1>24 DEF TerminateJob
  <2> QED
    BY <1>24, <2>1, <2>2 DEF TerminateJob
<1>25. CASE TerminateLeader
  <2>1. warned' \subseteq Process /\ doomed' \subseteq Process
    BY <1>25, AliveType DEF TerminateLeader
  <2>2. phase' \in Phase /\ complaints' \subseteq {"tree", "transport"}
    BY <1>25 DEF TerminateLeader
  <2> QED
    BY <1>25, <2>1, <2>2 DEF TerminateLeader
<1>26. CASE Settle
  BY <1>26 DEF Settle, Resume
<1>27. CASE Kill
  <2>1. warned' \subseteq Process /\ doomed' \subseteq Process
    BY <1>27, AliveType DEF Kill
  <2>2. phase' \in Phase /\ complaints' \subseteq {"tree", "transport"}
    BY <1>27 DEF Kill
  <2> QED
    BY <1>27, <2>1, <2>2 DEF Kill
<1>28. CASE SettleAgain
  BY <1>28 DEF SettleAgain, Resume
<1>29. CASE Drain
  BY <1>29 DEF Drain, Reaped
<1>30. CASE Conclude
  BY <1>30 DEF Conclude, Classified, Received, Missing
<1>31. CASE ReadFails
  BY <1>31 DEF ReadFails
<1>32. CASE Leave
  <2>1. terminated' \in BOOLEAN /\ job' \in BOOLEAN
    BY <1>32, Zenon DEF Leave
  <2>2. phase' \in Phase
    BY <1>32 DEF Leave
  <2> QED
    BY <1>32, <2>1, <2>2 DEF Leave, Spawned
<1>33. CASE CloseSpools
  <2>1. spools' \in BOOLEAN
    BY <1>33, Zenon DEF CloseSpools
  <2> QED
    BY <1>33, <2>1 DEF CloseSpools
<1>34. CASE Cleanup
  <2>1. dir' \in BOOLEAN
    BY <1>34, Zenon DEF Cleanup
  <2>2. phase' \in Phase /\ complaints' \subseteq {"tree", "transport"}
    BY <1>34 DEF Cleanup
  <2> QED
    BY <1>34, <2>1, <2>2 DEF Cleanup
<1>35. CASE Interrupt
  BY <1>35 DEF Interrupt, Reaped
<1>36. CASE Capture
  <2>1. terminated' \in BOOLEAN /\ job' \in BOOLEAN /\ misread' \in BOOLEAN
    BY <1>36, Zenon DEF Capture, Captures
  <2>2. seen' \in Empty..Whole
    BY <1>36 DEF Capture, Captures
  <2>3. phase' \in Phase /\ why' \in {"none", "returned", "TIMEOUT",
           "isolation_unavailable", "worker_communication", "unwind"}
        /\ verdict' \in Verdict
    BY <1>36 DEF Capture
  <2>4. UNCHANGED <<platform, dir, mode, spools, unwinding, complaints, worker, go,
                   signals>>
    BY <1>36 DEF Capture
  <2> QED
    BY <2>1, <2>2, <2>3, <2>4
<1> QED
  BY ONLY Next, <1>1, <1>2, <1>3, <1>4, <1>5, <1>6, <1>7, <1>8, <1>9, <1>10, <1>11,
    <1>12, <1>13, <1>14, <1>15, <1>16, <1>17, <1>18, <1>19, <1>20,
    <1>21, <1>22, <1>23, <1>24, <1>25, <1>26, <1>27, <1>28, <1>29,
    <1>30, <1>31, <1>32, <1>33, <1>34, <1>35, <1>36
  DEF Next, Parent, Environment

LEMMA StagesStep ==
  ASSUME Uninterrupted, TypeOK, Stages, Gated, Next
  PROVE  Stages'
<1> USE ParameterAssumption
    DEF Empty, Scrap, Torn, Whole,
        Uninterrupted, TypeOK, Stages, Gated, Early, Terminating, Closing, Ended, held,
        read, owned, said, worker, signals, World, Goto, Terminate, KillingOnly,
        Complains, Decide
<1>1. CASE PassesGate
  BY <1>1 DEF PassesGate
<1>2. CASE Forks
  BY <1>2 DEF Forks
<1>3. CASE Writes
  BY <1>3 DEF Writes
<1>4. CASE Exits
  BY <1>4 DEF Exits
<1>5. CASE IsKilled
  BY <1>5 DEF IsKilled
<1>6. CASE DescendantEnds
  BY <1>6 DEF DescendantEnds
<1>7. CASE MakeDir
  BY <1>7 DEF MakeDir
<1>8. CASE MakeFile
  BY <1>8 DEF MakeFile
<1>9. CASE MakeSpools
  BY <1>9 DEF MakeSpools
<1>10. CASE Spawn
  BY <1>10 DEF Spawn
<1>11. CASE Attach
  BY <1>11 DEF Attach
<1>12. CASE AttachFails
  BY <1>12 DEF AttachFails
<1>13. CASE SendsGo
  BY <1>13 DEF SendsGo
<1>14. CASE Returned
  BY <1>14 DEF Returned
<1>15. CASE TimesOut
  BY <1>15 DEF TimesOut
<1>16. CASE CommunicationFails
  BY <1>16 DEF CommunicationFails
<1>17. CASE Sigterm
  BY <1>17 DEF Sigterm
<1>18. CASE Grace
  BY <1>18 DEF Grace, Reaped
<1>19. CASE Sigkill
  BY <1>19 DEF Sigkill
<1>20. CASE GroupGone
  BY <1>20 DEF GroupGone
<1>21. CASE GroupStays
  BY <1>21 DEF GroupStays
<1>22. CASE WaitFails
  BY <1>22 DEF WaitFails, Resume
<1>23. CASE Reap
  BY <1>23 DEF Reap, Reaped, Resume
<1>24. CASE TerminateJob
  BY <1>24 DEF TerminateJob
<1>25. CASE TerminateLeader
  BY <1>25 DEF TerminateLeader
<1>26. CASE Settle
  BY <1>26 DEF Settle, Resume
<1>27. CASE Kill
  BY <1>27 DEF Kill
<1>28. CASE SettleAgain
  BY <1>28 DEF SettleAgain, Resume
<1>29. CASE Drain
  BY <1>29 DEF Drain, Reaped
<1>30. CASE Conclude
  BY <1>30 DEF Conclude, Classified, Received, Missing
<1>31. CASE ReadFails
  BY <1>31 DEF ReadFails
<1>32. CASE Leave
  BY <1>32 DEF Leave, Spawned
<1>33. CASE CloseSpools
  BY <1>33 DEF CloseSpools
<1>34. CASE Cleanup
  BY <1>34 DEF Cleanup
<1>35. CASE Interrupt
  BY <1>35 DEF Interrupt, Reaped
<1>36. CASE Capture
  BY <1>36 DEF Capture, Captures
<1> QED
  BY ONLY Next, <1>1, <1>2, <1>3, <1>4, <1>5, <1>6, <1>7, <1>8, <1>9, <1>10, <1>11,
    <1>12, <1>13, <1>14, <1>15, <1>16, <1>17, <1>18, <1>19, <1>20,
    <1>21, <1>22, <1>23, <1>24, <1>25, <1>26, <1>27, <1>28, <1>29,
    <1>30, <1>31, <1>32, <1>33, <1>34, <1>35, <1>36
  DEF Next, Parent, Environment

LEMMA GatedStep ==
  ASSUME Uninterrupted, TypeOK, Stages, Gated, Next
  PROVE  Gated'
<1> USE ParameterAssumption
    DEF Empty, Scrap, Torn, Whole,
        Uninterrupted, TypeOK, Stages, Gated, Early, Terminating, Closing, Alive, held,
        read, owned, said, worker, signals, World, Goto, Terminate, KillingOnly,
        Complains, Decide
<1>1. CASE PassesGate
  BY <1>1 DEF PassesGate
<1>2. CASE Forks
  BY <1>2 DEF Forks
<1>3. CASE Writes
  BY <1>3 DEF Writes
<1>4. CASE Exits
  BY <1>4 DEF Exits
<1>5. CASE IsKilled
  BY <1>5 DEF IsKilled
<1>6. CASE DescendantEnds
  BY <1>6 DEF DescendantEnds
<1>7. CASE MakeDir
  BY <1>7 DEF MakeDir
<1>8. CASE MakeFile
  BY <1>8 DEF MakeFile
<1>9. CASE MakeSpools
  BY <1>9 DEF MakeSpools
<1>10. CASE Spawn
  BY <1>10 DEF Spawn
<1>11. CASE Attach
  BY <1>11 DEF Attach
<1>12. CASE AttachFails
  BY <1>12 DEF AttachFails
<1>13. CASE SendsGo
  BY <1>13 DEF SendsGo
<1>14. CASE Returned
  BY <1>14 DEF Returned
<1>15. CASE TimesOut
  BY <1>15 DEF TimesOut
<1>16. CASE CommunicationFails
  BY <1>16 DEF CommunicationFails
<1>17. CASE Sigterm
  BY <1>17 DEF Sigterm
<1>18. CASE Grace
  BY <1>18 DEF Grace, Reaped
<1>19. CASE Sigkill
  BY <1>19 DEF Sigkill
<1>20. CASE GroupGone
  BY <1>20 DEF GroupGone
<1>21. CASE GroupStays
  BY <1>21 DEF GroupStays
<1>22. CASE WaitFails
  BY <1>22 DEF WaitFails, Resume
<1>23. CASE Reap
  BY <1>23 DEF Reap, Reaped, Resume
<1>24. CASE TerminateJob
  BY <1>24 DEF TerminateJob
<1>25. CASE TerminateLeader
  BY <1>25 DEF TerminateLeader
<1>26. CASE Settle
  BY <1>26 DEF Settle, Resume
<1>27. CASE Kill
  BY <1>27 DEF Kill
<1>28. CASE SettleAgain
  BY <1>28 DEF SettleAgain, Resume
<1>29. CASE Drain
  BY <1>29 DEF Drain, Reaped
<1>30. CASE Conclude
  BY <1>30 DEF Conclude, Classified, Received, Missing
<1>31. CASE ReadFails
  BY <1>31 DEF ReadFails
<1>32. CASE Leave
  BY <1>32 DEF Leave, Spawned
<1>33. CASE CloseSpools
  BY <1>33 DEF CloseSpools
<1>34. CASE Cleanup
  BY <1>34 DEF Cleanup
<1>35. CASE Interrupt
  BY <1>35 DEF Interrupt, Reaped
<1>36. CASE Capture
  BY <1>36 DEF Capture, Captures
<1> QED
  BY ONLY Next, <1>1, <1>2, <1>3, <1>4, <1>5, <1>6, <1>7, <1>8, <1>9, <1>10, <1>11,
    <1>12, <1>13, <1>14, <1>15, <1>16, <1>17, <1>18, <1>19, <1>20,
    <1>21, <1>22, <1>23, <1>24, <1>25, <1>26, <1>27, <1>28, <1>29,
    <1>30, <1>31, <1>32, <1>33, <1>34, <1>35, <1>36
  DEF Next, Parent, Environment

LEMMA TerminatedStep ==
  ASSUME Uninterrupted, TypeOK, Stages, Gated, Terminated, Next
  PROVE  Terminated'
<1> USE ParameterAssumption
    DEF Empty, Scrap, Torn, Whole,
        Uninterrupted, TypeOK, Stages, Gated, Terminated, Early, Terminating, Closing,
        Contained, TreeReported, Alive, GroupExists, Ended, held, read, owned,
        said, worker, signals, World, Goto, Terminate, KillingOnly,
        Complains, Decide
<1>1. CASE PassesGate
  BY <1>1 DEF PassesGate
<1>2. CASE Forks
  BY <1>2 DEF Forks
<1>3. CASE Writes
  BY <1>3 DEF Writes
<1>4. CASE Exits
  BY <1>4 DEF Exits
<1>5. CASE IsKilled
  BY <1>5 DEF IsKilled
<1>6. CASE DescendantEnds
  BY <1>6 DEF DescendantEnds
<1>7. CASE MakeDir
  BY <1>7 DEF MakeDir
<1>8. CASE MakeFile
  BY <1>8 DEF MakeFile
<1>9. CASE MakeSpools
  BY <1>9 DEF MakeSpools
<1>10. CASE Spawn
  BY <1>10 DEF Spawn
<1>11. CASE Attach
  BY <1>11 DEF Attach
<1>12. CASE AttachFails
  BY <1>12 DEF AttachFails
<1>13. CASE SendsGo
  BY <1>13 DEF SendsGo
<1>14. CASE Returned
  BY <1>14 DEF Returned
<1>15. CASE TimesOut
  BY <1>15 DEF TimesOut
<1>16. CASE CommunicationFails
  BY <1>16 DEF CommunicationFails
<1>17. CASE Sigterm
  BY <1>17 DEF Sigterm
<1>18. CASE Grace
  BY <1>18 DEF Grace, Reaped
<1>19. CASE Sigkill
  BY <1>19 DEF Sigkill
<1>20. CASE GroupGone
  BY <1>20 DEF GroupGone
<1>21. CASE GroupStays
  BY <1>21 DEF GroupStays
<1>22. CASE WaitFails
  BY <1>22 DEF WaitFails, Resume
<1>23. CASE Reap
  BY <1>23 DEF Reap, Reaped, Resume
<1>24. CASE TerminateJob
  BY <1>24 DEF TerminateJob
<1>25. CASE TerminateLeader
  BY <1>25 DEF TerminateLeader
<1>26. CASE Settle
  BY <1>26 DEF Settle, Resume
<1>27. CASE Kill
  BY <1>27 DEF Kill
<1>28. CASE SettleAgain
  BY <1>28 DEF SettleAgain, Resume
<1>29. CASE Drain
  BY <1>29 DEF Drain, Reaped
<1>30. CASE Conclude
  BY <1>30 DEF Conclude, Classified, Received, Missing
<1>31. CASE ReadFails
  BY <1>31 DEF ReadFails
<1>32. CASE Leave
  BY <1>32 DEF Leave, Spawned
<1>33. CASE CloseSpools
  BY <1>33 DEF CloseSpools
<1>34. CASE Cleanup
  BY <1>34 DEF Cleanup
<1>35. CASE Interrupt
  BY <1>35 DEF Interrupt, Reaped
<1>36. CASE Capture
  BY <1>36 DEF Capture, Captures
<1> QED
  BY ONLY Next, <1>1, <1>2, <1>3, <1>4, <1>5, <1>6, <1>7, <1>8, <1>9, <1>10, <1>11,
    <1>12, <1>13, <1>14, <1>15, <1>16, <1>17, <1>18, <1>19, <1>20,
    <1>21, <1>22, <1>23, <1>24, <1>25, <1>26, <1>27, <1>28, <1>29,
    <1>30, <1>31, <1>32, <1>33, <1>34, <1>35, <1>36
  DEF Next, Parent, Environment

LEMMA ReadingStep ==
  ASSUME Uninterrupted, TypeOK, Stages, Gated, Reading, Judged, Next
  PROVE  Reading'
<1> USE ParameterAssumption
    DEF Empty, Scrap, Torn, Whole,
        Uninterrupted, TypeOK, Stages, Gated, Reading, Judged, Early, Terminating,
        Closing, Alive, Ended, Verdict, held, read, owned, said, worker, signals, World, Goto,
        Terminate, KillingOnly, Complains, Decide
<1>1. CASE PassesGate
  BY <1>1 DEF PassesGate
<1>2. CASE Forks
  BY <1>2 DEF Forks
<1>3. CASE Writes
  BY <1>3 DEF Writes
<1>4. CASE Exits
  BY <1>4 DEF Exits
<1>5. CASE IsKilled
  BY <1>5 DEF IsKilled
<1>6. CASE DescendantEnds
  BY <1>6 DEF DescendantEnds
<1>7. CASE MakeDir
  BY <1>7 DEF MakeDir
<1>8. CASE MakeFile
  BY <1>8 DEF MakeFile
<1>9. CASE MakeSpools
  BY <1>9 DEF MakeSpools
<1>10. CASE Spawn
  BY <1>10 DEF Spawn
<1>11. CASE Attach
  BY <1>11 DEF Attach
<1>12. CASE AttachFails
  BY <1>12 DEF AttachFails
<1>13. CASE SendsGo
  BY <1>13 DEF SendsGo
<1>14. CASE Returned
  BY <1>14 DEF Returned
<1>15. CASE TimesOut
  BY <1>15 DEF TimesOut
<1>16. CASE CommunicationFails
  BY <1>16 DEF CommunicationFails
<1>17. CASE Sigterm
  BY <1>17 DEF Sigterm
<1>18. CASE Grace
  BY <1>18 DEF Grace, Reaped
<1>19. CASE Sigkill
  BY <1>19 DEF Sigkill
<1>20. CASE GroupGone
  BY <1>20 DEF GroupGone
<1>21. CASE GroupStays
  BY <1>21 DEF GroupStays
<1>22. CASE WaitFails
  BY <1>22 DEF WaitFails, Resume
<1>23. CASE Reap
  BY <1>23 DEF Reap, Reaped, Resume
<1>24. CASE TerminateJob
  BY <1>24 DEF TerminateJob
<1>25. CASE TerminateLeader
  BY <1>25 DEF TerminateLeader
<1>26. CASE Settle
  BY <1>26 DEF Settle, Resume
<1>27. CASE Kill
  BY <1>27 DEF Kill
<1>28. CASE SettleAgain
  BY <1>28 DEF SettleAgain, Resume
<1>29. CASE Drain
  BY <1>29 DEF Drain, Reaped
<1>30. CASE Conclude
  BY <1>30 DEF Conclude, Classified, Received, Missing
<1>31. CASE ReadFails
  BY <1>31 DEF ReadFails
<1>32. CASE Leave
  BY <1>32 DEF Leave, Spawned
<1>33. CASE CloseSpools
  BY <1>33 DEF CloseSpools
<1>34. CASE Cleanup
  BY <1>34 DEF Cleanup
<1>35. CASE Interrupt
  BY <1>35 DEF Interrupt, Reaped
<1>36. CASE Capture
  BY <1>36 DEF Capture, Captures
<1> QED
  BY ONLY Next, <1>1, <1>2, <1>3, <1>4, <1>5, <1>6, <1>7, <1>8, <1>9, <1>10, <1>11,
    <1>12, <1>13, <1>14, <1>15, <1>16, <1>17, <1>18, <1>19, <1>20,
    <1>21, <1>22, <1>23, <1>24, <1>25, <1>26, <1>27, <1>28, <1>29,
    <1>30, <1>31, <1>32, <1>33, <1>34, <1>35, <1>36
  DEF Next, Parent, Environment

LEMMA JudgedStep ==
  ASSUME Uninterrupted, TypeOK, Stages, Gated, Reading, Judged, Next
  PROVE  Judged'
<1> USE ParameterAssumption
    DEF Empty, Scrap, Torn, Whole,
        Uninterrupted, TypeOK, Stages, Gated, Reading, Judged, Early, Terminating,
        Closing, Alive, Ended, Verdict, held, read, owned, said, worker, signals, World, Goto,
        Terminate, KillingOnly, Complains, Decide
<1>1. CASE PassesGate
  BY <1>1 DEF PassesGate
<1>2. CASE Forks
  BY <1>2 DEF Forks
<1>3. CASE Writes
  BY <1>3 DEF Writes
<1>4. CASE Exits
  BY <1>4 DEF Exits
<1>5. CASE IsKilled
  BY <1>5 DEF IsKilled
<1>6. CASE DescendantEnds
  BY <1>6 DEF DescendantEnds
<1>7. CASE MakeDir
  BY <1>7 DEF MakeDir
<1>8. CASE MakeFile
  BY <1>8 DEF MakeFile
<1>9. CASE MakeSpools
  BY <1>9 DEF MakeSpools
<1>10. CASE Spawn
  BY <1>10 DEF Spawn
<1>11. CASE Attach
  BY <1>11 DEF Attach
<1>12. CASE AttachFails
  BY <1>12 DEF AttachFails
<1>13. CASE SendsGo
  BY <1>13 DEF SendsGo
<1>14. CASE Returned
  BY <1>14 DEF Returned
<1>15. CASE TimesOut
  BY <1>15 DEF TimesOut
<1>16. CASE CommunicationFails
  BY <1>16 DEF CommunicationFails
<1>17. CASE Sigterm
  BY <1>17 DEF Sigterm
<1>18. CASE Grace
  BY <1>18 DEF Grace, Reaped
<1>19. CASE Sigkill
  BY <1>19 DEF Sigkill
<1>20. CASE GroupGone
  BY <1>20 DEF GroupGone
<1>21. CASE GroupStays
  BY <1>21 DEF GroupStays
<1>22. CASE WaitFails
  BY <1>22 DEF WaitFails, Resume
<1>23. CASE Reap
  BY <1>23 DEF Reap, Reaped, Resume
<1>24. CASE TerminateJob
  BY <1>24 DEF TerminateJob
<1>25. CASE TerminateLeader
  BY <1>25 DEF TerminateLeader
<1>26. CASE Settle
  BY <1>26 DEF Settle, Resume
<1>27. CASE Kill
  BY <1>27 DEF Kill
<1>28. CASE SettleAgain
  BY <1>28 DEF SettleAgain, Resume
<1>29. CASE Drain
  BY <1>29 DEF Drain, Reaped
<1>30. CASE Conclude
  BY <1>30 DEF Conclude, Classified, Received, Missing
<1>31. CASE ReadFails
  BY <1>31 DEF ReadFails
<1>32. CASE Leave
  BY <1>32 DEF Leave, Spawned
<1>33. CASE CloseSpools
  BY <1>33 DEF CloseSpools
<1>34. CASE Cleanup
  BY <1>34 DEF Cleanup
<1>35. CASE Interrupt
  BY <1>35 DEF Interrupt, Reaped
<1>36. CASE Capture
  BY <1>36 DEF Capture, Captures
<1> QED
  BY ONLY Next, <1>1, <1>2, <1>3, <1>4, <1>5, <1>6, <1>7, <1>8, <1>9, <1>10, <1>11,
    <1>12, <1>13, <1>14, <1>15, <1>16, <1>17, <1>18, <1>19, <1>20,
    <1>21, <1>22, <1>23, <1>24, <1>25, <1>26, <1>27, <1>28, <1>29,
    <1>30, <1>31, <1>32, <1>33, <1>34, <1>35, <1>36
  DEF Next, Parent, Environment

LEMMA ReleasedStep ==
  ASSUME Uninterrupted, TypeOK, Stages, Released, Next
  PROVE  Released'
<1> USE ParameterAssumption
    DEF Empty, Scrap, Torn, Whole,
        Uninterrupted, TypeOK, Stages, Released, Terminating, Closing, Ending, held,
        read, owned, said, worker, signals, World, Goto, Terminate, KillingOnly,
        Complains, Decide
<1>1. CASE PassesGate
  BY <1>1 DEF PassesGate
<1>2. CASE Forks
  BY <1>2 DEF Forks
<1>3. CASE Writes
  BY <1>3 DEF Writes
<1>4. CASE Exits
  BY <1>4 DEF Exits
<1>5. CASE IsKilled
  BY <1>5 DEF IsKilled
<1>6. CASE DescendantEnds
  BY <1>6 DEF DescendantEnds
<1>7. CASE MakeDir
  BY <1>7 DEF MakeDir
<1>8. CASE MakeFile
  BY <1>8 DEF MakeFile
<1>9. CASE MakeSpools
  BY <1>9 DEF MakeSpools
<1>10. CASE Spawn
  BY <1>10 DEF Spawn
<1>11. CASE Attach
  BY <1>11 DEF Attach
<1>12. CASE AttachFails
  BY <1>12 DEF AttachFails
<1>13. CASE SendsGo
  BY <1>13 DEF SendsGo
<1>14. CASE Returned
  BY <1>14 DEF Returned
<1>15. CASE TimesOut
  BY <1>15 DEF TimesOut
<1>16. CASE CommunicationFails
  BY <1>16 DEF CommunicationFails
<1>17. CASE Sigterm
  BY <1>17 DEF Sigterm
<1>18. CASE Grace
  BY <1>18 DEF Grace, Reaped
<1>19. CASE Sigkill
  BY <1>19 DEF Sigkill
<1>20. CASE GroupGone
  BY <1>20 DEF GroupGone
<1>21. CASE GroupStays
  BY <1>21 DEF GroupStays
<1>22. CASE WaitFails
  BY <1>22 DEF WaitFails, Resume
<1>23. CASE Reap
  BY <1>23 DEF Reap, Reaped, Resume
<1>24. CASE TerminateJob
  BY <1>24 DEF TerminateJob
<1>25. CASE TerminateLeader
  BY <1>25 DEF TerminateLeader
<1>26. CASE Settle
  BY <1>26 DEF Settle, Resume
<1>27. CASE Kill
  BY <1>27 DEF Kill
<1>28. CASE SettleAgain
  BY <1>28 DEF SettleAgain, Resume
<1>29. CASE Drain
  BY <1>29 DEF Drain, Reaped
<1>30. CASE Conclude
  BY <1>30 DEF Conclude, Classified, Received, Missing
<1>31. CASE ReadFails
  BY <1>31 DEF ReadFails
<1>32. CASE Leave
  BY <1>32 DEF Leave, Spawned
<1>33. CASE CloseSpools
  BY <1>33 DEF CloseSpools
<1>34. CASE Cleanup
  BY <1>34 DEF Cleanup
<1>35. CASE Interrupt
  BY <1>35 DEF Interrupt, Reaped
<1>36. CASE Capture
  BY <1>36 DEF Capture, Captures
<1> QED
  BY ONLY Next, <1>1, <1>2, <1>3, <1>4, <1>5, <1>6, <1>7, <1>8, <1>9, <1>10, <1>11,
    <1>12, <1>13, <1>14, <1>15, <1>16, <1>17, <1>18, <1>19, <1>20,
    <1>21, <1>22, <1>23, <1>24, <1>25, <1>26, <1>27, <1>28, <1>29,
    <1>30, <1>31, <1>32, <1>33, <1>34, <1>35, <1>36
  DEF Next, Parent, Environment

LEMMA Initially == Init => IInv
<1> SUFFICES ASSUME Init PROVE IInv
  OBVIOUS
<1> USE ParameterAssumption DEF Init, Empty, Scrap, Torn, Whole
<1>1. dir \in BOOLEAN /\ spools \in BOOLEAN /\ misread \in BOOLEAN
      /\ job \in BOOLEAN /\ terminated \in BOOLEAN
      /\ unwinding \in BOOLEAN /\ go \in BOOLEAN
  BY Zenon
<1>2. TypeOK
  BY <1>1 DEF TypeOK, Phase, Verdict, Process
<1>3. Stages /\ Gated /\ Terminated
  BY DEF Stages, Gated, Terminated, Early, Terminating, Closing, Ending, Ended
<1>4. Reading /\ Judged /\ Released
  BY DEF Reading, Judged, Released, Early, Terminating, Closing, Ending, Ended
<1> QED
  BY <1>2, <1>3, <1>4 DEF IInv

LEMMA Stutters ==
  ASSUME IInv, UNCHANGED vars
  PROVE  IInv'
BY DEF vars, held, read, owned, said, worker, signals, IInv, TypeOK, Stages, Gated,
       Terminated, Reading, Judged, Released, Contained, TreeReported, Alive, Ended

THEOREM Invariance ==
  ASSUME Uninterrupted
  PROVE  Spec => []IInv
<1>1. IInv /\ Next => IInv'
  BY TypeStep, StagesStep, GatedStep, TerminatedStep, ReadingStep,
     JudgedStep, ReleasedStep
  DEF IInv
<1> QED
  BY <1>1, Initially, Stutters, PTL DEF Spec

-------------------------------------------------------------------------------
(* The theorems.                                                            *)

(* The variables keep their types through every failure, timeout and        *)
(* interrupt of a call.                                                     *)
THEOREM TypeCorrect ==
  ASSUME Uninterrupted
  PROVE  Spec => []TypeOK
<1>1. IInv => TypeOK
  BY DEF IInv
<1> QED
  BY <1>1, Invariance, PTL

(* However the call ends, whoever is left of the worker's tree has been     *)
(* killed or the failure to do so is reported: run_check_process with any   *)
(* number of descendants that fork, ignore SIGTERM and outlive their leader.*)
THEOREM NothingRuns ==
  ASSUME Uninterrupted
  PROVE  Spec => []NothingLeftRunning
<1>1. IInv => NothingLeftRunning
  <2> SUFFICES ASSUME IInv, phase \in Ending
               PROVE  Contained
    BY DEF NothingLeftRunning, Contained, TreeReported
  <2>1. CASE terminated
    BY <2>1 DEF IInv, Terminated, Ending, Terminating
  <2>2. CASE ~terminated
    <3>1. leader = "none" /\ ~go
      BY <2>2 DEF IInv, Terminated, Stages, Ending, Closing
    <3> QED
      BY <3>1 DEF IInv, Gated, Alive, Contained
  <2> QED
    BY <2>1, <2>2
<1> QED
  BY <1>1, Invariance, PTL

(* However the call ends, its spools are closed and its session directory   *)
(* is removed or reported.                                                  *)
THEOREM NothingStays ==
  ASSUME Uninterrupted
  PROVE  Spec => []NothingLeftBehind
<1>1. IInv => NothingLeftBehind
  BY DEF IInv, Released, NothingLeftBehind
<1> QED
  BY <1>1, Invariance, PTL

(* The verdict says what happened, whatever races with the deadline: a      *)
(* worker killed by its own supervisor is never reported to have crashed,   *)
(* a torn answer is never believed.                                         *)
THEOREM VerdictsEarned ==
  ASSUME Uninterrupted
  PROVE  Spec => []VerdictIsEarned
<1>1. IInv => VerdictIsEarned
  BY DEF IInv, Judged, VerdictIsEarned, Closing
<1> QED
  BY <1>1, Invariance, PTL

================================================================================
