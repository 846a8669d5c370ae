----------------------------- MODULE MCSelfCheck -----------------------------
(* Three registries: a local check, a capability, a check that needs both   *)
(* and one that needs the latter, the shapes of the real one; and, as in    *)
(* test_supervisor.py, one with a check listed before its prerequisite, two *)
(* checks that wait for each other and an explicit skip, and one with the   *)
(* same check twice.                                                        *)
EXTENDS SelfCheck

MCRegistries == {<<"meta", "capability", "render", "upload">>,
                 <<"late", "early", "left", "right">>,
                 <<"twice", "other", "twice">>}

MCPrereq == [meta |-> {}, capability |-> {}, render |-> {"meta", "capability"},
             upload |-> {"render"},
             late |-> {"early"}, early |-> {}, left |-> {"right"}, right |-> {"left"},
             twice |-> {}, other |-> {"twice"}]

MCSynthetic == {"registry", "infrastructure", "report_write"}

MCRequired == {"meta", "upload", "early"} \cup MCSynthetic

MCAllButReserving == Phase \ {"reserving"}

================================================================================
