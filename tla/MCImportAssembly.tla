--------------------------- MODULE MCImportAssembly ----------------------------
(***************************************************************************)
(* File systems of up to four files.  In the first family declarations are  *)
(* bound through two levels and shared by two imports; in the second the    *)
(* imports themselves go wrong; in the third events are mapped.             *)
(***************************************************************************)
EXTENDS ImportMeaning, TLC

Empty == <<>>   \* the function with no argument
x == <<"x">>
y == <<"y">>

Declared(role, type, init) == [role |-> role, type |-> type, init |-> init]

File(states, defs, writes, refs, imports) ==
  [broken |-> FALSE, states |-> states, defs |-> defs, writes |-> writes,
   refs |-> refs, imports |-> imports]

Statement(at, alias, file, names, rest, events) ==
  [at |-> at, alias |-> alias, file |-> file, vars |-> names, rest |-> rest,
   events |-> events]

Plain(at, alias, file) == Statement(at, alias, file, Empty, TRUE, Empty)

(* main binds y of two modules, or of one of them twice, to its x; the      *)
(* module lib binds its y to the x of leaf.                                 *)
Declarations == {Empty} \cup {x :> Declared(r, "int", 0) : r \in Role}
Leaf(r, type, init, writes) == File({<<>>}, x :> Declared(r, type, init), writes, {}, <<>>)
Lib(defs, writes) ==
  File({<<>>}, IF defs = Empty THEN Empty ELSE y :> defs[x], writes, {},
       <<Statement(<<>>, "K", "leaf", x :> y, FALSE, Empty)>>)

Bindings ==
  {"main" :> File({<<>>}, defs, {}, {},
                  <<Statement(<<>>, "A", "lib", y :> x, FALSE, Empty)>> \o second)
     @@ "lib" :> Lib(inner, w) @@ "leaf" :> Leaf(r, t, 0, IF w = {} THEN {} ELSE {x}) :
     defs \in Declarations, inner \in Declarations, r \in Role, t \in {"int", "float"},
     w \in {{}, {y}},
     second \in {<<>>,
                 <<Statement(<<>>, "B", "leaf", x :> x, FALSE, Empty)>>,
                 <<Statement(<<>>, "B", "lib", Empty, TRUE, Empty)>>}}

(* Two leaves bound to one variable, in either order.                       *)
Sharing ==
  {"main" :> File({<<>>}, defs, {}, {},
                  <<Statement(<<>>, "A", a, x :> x, FALSE, Empty),
                    Statement(<<>>, "B", "leaf", x :> x, FALSE, Empty)>>)
     @@ "leaf" :> Leaf(r, "int", 0, {}) @@ "other" :> Leaf(r2, t, i, {}) :
     defs \in Declarations, r \in Role, r2 \in Role, t \in {"int", "float"}, i \in {0, 1},
     a \in {"leaf", "other"}}

(* Imports of the module of main from each of the files, with aliases that  *)
(* may clash, files that may be missing or unreadable, and cycles.          *)
Targetless(at, alias, file) == Statement(at, alias, file, y :> y, FALSE, Empty)
Faults ==
  {"main" :> File({<<>>, <<"S">>, <<"T">>}, Empty, {}, {},
                  <<Plain(<<>>, a, f)>> \o <<Plain(<<>>, b, g), Plain(<<"S">>, "A", "leaf")>>)
     @@ "lib" :> File({<<>>, <<"S">>}, x :> Declared("control", "int", 0), {}, {},
                      <<Plain(<<>>, "K", h), last>>)
     @@ "leaf" :> [File({<<>>}, x :> Declared("param", "int", 0), w, {}, <<>>)
                     EXCEPT !.broken = e] :
     a \in {"A", "S"}, b \in {"A", "B"}, f \in {"lib", "leaf"}, g \in {"lib", "main", "none"},
     h \in {"main", "lib", "leaf"},
     last \in {Plain(<<"S">>, "L", "leaf"), Targetless(<<"S">>, "L", "leaf")},
     e \in BOOLEAN, w \in {{}, {x}}}

(* Events of the module leaf, mapped or not by lib and main.                *)
go == <<"go">>
Ref(at, abs, path) == [at |-> at, abs |-> abs, path |-> path]
To(abs, path) == [abs |-> abs, path |-> path]
Deeper(alias) == {Empty, go :> To(FALSE, go), go :> To(TRUE, <<"S", "e">>),
                  (<<alias>> \o go) :> To(FALSE, <<"e">>),
                  (<<alias, "I">> \o go) :> To(TRUE, <<"e">>)}
Refs0 == {{Ref(<<>>, TRUE, go)}, {Ref(<<"I">>, FALSE, go), Ref(<<>>, FALSE, go)},
          {Ref(<<"I">>, TRUE, go), Ref(<<>>, TRUE, go)}}
Missing == {Empty, go :> To(TRUE, <<"N", "e">>), go :> To(TRUE, <<"N", "M", "e">>),
            go :> To(TRUE, <<"S", "Z", "e">>), go :> To(TRUE, <<"A", "e">>),
            (go :> To(FALSE, <<"e">>)) @@ (<<"no">> :> To(FALSE, <<"e">>))}
Quiet == File({<<>>}, Empty, {}, {}, <<>>)

Events ==
  {"main" :> File({<<>>, <<"S">>, <<"T">>}, Empty, {}, {Ref(<<>>, TRUE, <<"e">>)},
                  <<Plain(<<"S">>, "Z", "quiet"), Statement(<<"T">>, "A", "lib", Empty, TRUE, upper)>>)
     @@ "lib" :> File({<<>>, <<"S">>}, Empty, {}, {},
                      <<Statement(<<>>, "K", "leaf", Empty, TRUE, lower)>>)
     @@ "leaf" :> File({<<>>, <<"I">>}, Empty, {}, refs, <<>>)
     @@ "quiet" :> Quiet :
     lower \in Deeper("none"), upper \in Deeper("K") \cup Missing, refs \in Refs0 \cup {{}}}

MCFileSystems == Bindings \cup Sharing \cup Faults \cup Events

================================================================================
