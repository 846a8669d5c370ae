------------------------- MODULE MCValidationSearch -------------------------
(* Model checking instance of ValidationSearch: every graph over a few     *)
(* contexts.  The loop never expands the source, so only one of its        *)
(* successors, the start, is given, and nothing asks for the successors of *)
(* a context that is not a relay.  The other contexts are alike, so the    *)
(* start is the source itself or one chosen First.                         *)
EXTENDS ValidationSearch

CONSTANTS Source, First

Others == Context \ {Source}

Node == ({"stable", "ended", "too_deep"} \X {<<>>}) \cup ({"relay"} \X SuccessorList)

MCInit ==
  /\ source = Source
  /\ limit \in Limits
  /\ start \in {Source, First}
  /\ \E node \in [Others -> Node] :
       /\ kind = [c \in Context |-> IF c = Source THEN "relay" ELSE node[c][1]]
       /\ graph = [c \in Context |-> IF c = Source THEN <<start>> ELSE node[c][2]]
  /\ Begin

MCFairSpec == MCInit /\ [][Next]_vars /\ WF_vars(Next)

=============================================================================
