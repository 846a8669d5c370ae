------------------------------ MODULE MCHistory ------------------------------
(* R { I; O { A; C { D; E }; pseudo Q } } with every way to enter O and C.    *)
EXTENDS HistoryLowering

MCParent == [I |-> "R", O |-> "R", A |-> "O", C |-> "O", D |-> "C", E |-> "C", Q |-> "O"]

MCBelow == [R |-> {"I", "O", "A", "C", "D", "E", "Q"}, I |-> {},
            O |-> {"A", "C", "D", "E", "Q"}, A |-> {}, C |-> {"D", "E"}, D |-> {}, E |-> {},
            Q |-> {}]

MCIds == [R |-> 1, I |-> 2, O |-> 3, A |-> 4, C |-> 5, D |-> 6, E |-> 7, Q |-> 8]

To(s) == [to |-> s, needs |-> {}, effect |-> FALSE, history |-> "none"]
If(s) == [To(s) EXCEPT !.needs = {"guard"}]
On(s) == [To(s) EXCEPT !.needs = {"event"}]
With(s) == [To(s) EXCEPT !.effect = TRUE]
Hist(s, k) == [To(s) EXCEPT !.history = k]

From(s, t, k) == [from |-> s, to |-> t, history |-> k]

(* Inside O and out of it.                                                    *)
Plumbing ==
  {From("A", "C", "none"), From("C", "A", "none"), From("D", "E", "none"),
   From("A", "Q", "none"), From("Q", "C", "none"), From("Q", "Exit", "none"),
   From("A", "Exit", "none"), From("E", "Exit", "none"), From("D", "Exit", "none"),
   From("C", "Exit", "none"), From("O", "I", "none"), From("I", "O", "none")}

Deep == {From("I", "O", "deep"), From("O", "O", "deep")}
Shallow == {From("I", "O", "shallow")}
Nested == {From("A", "C", "deep"), From("Q", "C", "shallow")}

Tops ==
  {[r |-> <<Hist("O", "shallow")>>, s |-> "A", d |-> "C"],
   [r |-> <<To("I")>>, s |-> "C", d |-> "E"]}

MCMachines ==
  {[initials |-> [R |-> t.r, O |-> o, C |-> c],
    edges |-> Plumbing \cup x,
    default |-> [O |-> [shallow |-> t.s, deep |-> t.d], C |-> [shallow |-> "E", deep |-> "D"]]] :
     t \in Tops,
     o \in {<<If("C"), To("C")>>, <<On("A"), With("C")>>,
            <<To("Q"), If("A")>>, <<Hist("C", "deep"), If("C")>>},
     c \in {<<To("D")>>, <<If("E"), On("D")>>},
     x \in {Deep, Shallow, Deep \cup Shallow \cup Nested}}

================================================================================
