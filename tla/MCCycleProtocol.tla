---------------------------- MODULE MCCycleProtocol ----------------------------
(* Three inputs: one from a sequence that holds its last sample, one from a *)
(* sequence that ends and one from a sequence that starts again.            *)
EXTENDS CycleProtocol

MCLength == <<1, 2, 2>>

MCEnds == <<"hold", "error", "loop">>

MCSizes == {0, 1, Unlimited}

================================================================================
