------------------------------ MODULE MCMacroStep ------------------------------
(***************************************************************************)
(* Instances of MacroStep over the tree                                    *)
(*                                                                         *)
(*     Root { C { D { A  pseudo P }  pseudo R }  B  pseudo Q }             *)
(*                                                                         *)
(* and the machines obtained by choosing each transition list from a few.  *)
(***************************************************************************)
EXTENDS MacroStep

MCState == {"Root", "C", "D", "A", "P", "R", "B", "Q"}

MCParent == [s \in MCState \ {"Root"} |-> CASE s \in {"A", "P"} -> "D"
                                            [] s \in {"D", "R"} -> "C"
                                            [] OTHER            -> "Root"]

MCValue == {0, 1}

Same == [v \in MCValue |-> v]
Flip == [v \in MCValue |-> 1 - v]
To(x) == [v \in MCValue |-> x]

(* A transition that always may; guarded; evented; writing.                *)
T(to) == [to |-> to, event |-> None, guard |-> MCValue, effect |-> Same]
If(v, t) == [t EXCEPT !.guard = {v}]
On(e, t) == [t EXCEPT !.event = e]
Do(f, t) == [t EXCEPT !.effect = f]

(* Running A flips the value; the plain before block of D sets it, leaving *)
(* C clears it.                                                            *)
Blocks ==
  [enter  |-> [s \in MCState |-> Same],
   during |-> [s \in MCState |-> IF s = "A" THEN Flip ELSE Same],
   exit   |-> [s \in MCState |-> IF s = "C" THEN To(0) ELSE Same],
   before |-> [s \in MCState |-> IF s = "D" THEN To(1) ELSE Same],
   after  |-> [s \in MCState |-> Same]]

(* The machines whose lists are taken from the given choices.              *)
Machines(choice) ==
  {[init |-> [s \in MCState |-> CASE s = "Root" -> ri [] s = "C" -> ci [] s = "D" -> di
                                  [] OTHER -> <<>>],
    out  |-> [s \in MCState |-> CASE s = "A" -> a [] s = "P" -> p [] s = "D" -> d [] s = "R" -> r
                                  [] s = "C" -> c [] s = "B" -> b [] s = "Q" -> q
                                  [] OTHER -> <<T(Exit)>>],
    enter |-> Blocks.enter, during |-> Blocks.during, exit |-> Blocks.exit,
    before |-> Blocks.before, after |-> Blocks.after] :
    ri \in choice.RootInit, ci \in choice.CInit, di \in choice.DInit, a \in choice.A,
    p \in choice.P, d \in choice.D, r \in choice.R, c \in choice.C, b \in choice.B,
    q \in choice.Q}

(* Ways control can be routed through pseudo states and exits.              *)
RoutingMachines ==
  Machines([RootInit |-> {<<T("Q")>>},
            CInit |-> {<<T("D")>>, <<T("R")>>},
            DInit |-> {<<T("P")>>},
            A |-> {<<T("P")>>, <<T(Exit)>>},
            P |-> {<<T("A")>>, <<T(Exit), T("A")>>},
            D |-> {<<>>, <<T(Exit)>>, <<T("R")>>},
            R |-> {<<T("D"), T(Exit)>>, <<T(Exit)>>},
            C |-> {<<T("Q"), T("C")>>, <<T(Exit)>>},
            B |-> {<<T("C")>>},
            Q |-> {<<T("C"), T("B")>>}])

(* Guards that depend on what the path has written, and events.            *)
GuardMachines ==
  Machines([RootInit |-> {<<If(1, T("C")), T("B")>>},
            CInit |-> {<<On("Go", T("D")), T("R")>>},
            DInit |-> {<<Do(Flip, If(0, T("P"))), If(1, T("A"))>>},
            A |-> {<<On("Go", T(Exit))>>, <<On("Go", Do(Flip, T("P"))), If(0, T(Exit))>>},
            P |-> {<<If(0, T("A")), On("Go", T(Exit))>>, <<Do(Flip, If(0, T("P"))), If(1, T(Exit))>>},
            D |-> {<<If(0, T("R")), If(1, T("D"))>>, <<On("Go", T(Exit))>>},
            R |-> {<<Do(Flip, If(0, T("D"))), T(Exit)>>, <<If(1, T("R")), T(Exit)>>},
            C |-> {<<On("Go", T("B")), T("C")>>, <<If(0, T("Q")), T(Exit)>>},
            B |-> {<<On("Go", T("C")), If(1, Do(Flip, T("Q")))>>},
            Q |-> {<<If(1, T("C")), If(0, T(Exit)), Do(Flip, T("Q"))>>}])

(* A pseudo state tried first, from which the only way out leads, through  *)
(* the exits, back to the initial transition that chose it.                *)
ReturningMachines ==
  Machines([RootInit |-> {<<T("C")>>}, CInit |-> {<<T("D")>>}, DInit |-> {<<T("P"), T("A")>>},
            A |-> {<<T("P")>>}, P |-> {<<T(Exit)>>}, D |-> {<<T(Exit)>>},
            R |-> {<<>>}, C |-> {<<T("C")>>}, B |-> {<<>>}, Q |-> {<<>>}])

MCMachines == RoutingMachines \cup GuardMachines \cup ReturningMachines

(* A pseudo state that prefers another one that prefers it back, although  *)
(* each has a way to a stoppable leaf.                                     *)
PoliteMachines ==
  Machines([RootInit |-> {<<T("C")>>}, CInit |-> {<<T("D")>>}, DInit |-> {<<T("P")>>},
            A |-> {<<T("P")>>}, P |-> {<<T(Exit), T("A")>>}, D |-> {<<T("R")>>},
            R |-> {<<T("D"), T(Exit)>>}, C |-> {<<T("B")>>}, B |-> {<<>>}, Q |-> {<<>>}])

================================================================================
