---------------------------- MODULE ImportMeaning -----------------------------
(***************************************************************************)
(* What a program with imports means, said without an order: a chain of     *)
(* import statements from the entry program names one instance of a module, *)
(* and what an instance declares follows from the instances below it.       *)
(***************************************************************************)
EXTENDS ImportAssembly

Modules == DOMAIN files

(* The file a chain of imports leads to, and the last import of the chain.  *)
FileOf(c) ==
  LET File[n \in 0..Len(c)] == IF n = 0 THEN Main ELSE Imports(File[n - 1])[c[n]].file
  IN  File[Len(c)]
Import(c) == Imports(FileOf(Front(c)))[Last(c)]
Prefix(c, n) == SubSeq(c, 1, n)

(* The chain returns to a file it has passed; the entry file counts if its  *)
(* path is known.                                                           *)
Cyclic(c) ==
  \E n \in (IF entry = None THEN 1 ELSE 0)..Len(c) - 1 : FileOf(Prefix(c, n)) = FileOf(c)

Readable(c) == FileOf(c) \in Modules /\ ~Cyclic(c) /\ ~files[FileOf(c)].broken

Below(c) == {Append(c, k) : k \in DOMAIN Imports(FileOf(c))}

(* All chains: they end at a file that cannot be read or was passed before. *)
Chain ==
  LET Long[n \in 0..Cardinality(Modules) + 1] ==
        IF n = 0 THEN {<<>>}
        ELSE UNION {Below(c) : c \in {d \in Long[n - 1] : d = <<>> \/ Readable(d)}}
  IN  UNION {Long[n] : n \in 0..Cardinality(Modules) + 1}

(* No other child of the state has the alias.                               *)
HasOwnAlias(c) ==
  LET item == Import(c)
      f == FileOf(Front(c))
  IN  /\ Append(item.at, item.alias) \notin files[f].states
      /\ \A k \in DOMAIN Imports(f) \ {Last(c)} :
           <<Imports(f)[k].at, Imports(f)[k].alias>> # <<item.at, item.alias>>

Located == \A c \in Chain \ {<<>>} : Readable(c) /\ HasOwnAlias(c)

(* The variables a module offers: its own, then what it gets from below.    *)
Scope ==
  LET Of[c \in Chain] ==
        LET own == files[FileOf(c)].defs
            got == UNION {{<<Target(Import(d), v), Of[d][v]>> : v \in DOMAIN Of[d]} :
                            d \in Below(c)}
        IN  [n \in DOMAIN own \cup {g[1] : g \in got} |->
               IF n \in DOMAIN own THEN own[n] ELSE (CHOOSE g \in got : g[1] = n)[2]]
  IN  [c \in Chain |-> Of[c]]

(* The imports of c that bind n, with the declaration they bind.            *)
Claims(scope, c, n) ==
  UNION {{<<d, scope[d][v]>> : v \in {w \in DOMAIN scope[d] : Target(Import(d), w) = n}} :
           d \in Below(c)}

(* Every declaration bound to n agrees with the host's, or with the others. *)
Agree(scope, c, n) ==
  LET claims == Claims(scope, c, n)
      own == files[FileOf(c)].defs
  IN  IF n \in DOMAIN own
        THEN \A x \in claims : own[n].role \in Targets[x[2].role] /\ own[n].type = x[2].type
        ELSE \A x, y \in claims : x[2] = y[2] /\ (x[2].role = "input" => x = y)

(* The variables an instance and those below it assign, in its own names;   *)
(* what is not declared is not renamed.                                     *)
Assigned ==
  LET Of[c \in Chain] ==
        files[FileOf(c)].writes
          \cup UNION {{IF v \in DOMAIN Scope[d] THEN Target(Import(d), v) ELSE v : v \in Of[d]} :
                         d \in Below(c)}
  IN  [c \in Chain |-> Of[c]]

(* The states of an instance.                                               *)
States ==
  LET Of[c \in Chain] ==
        files[FileOf(c)].states
          \cup UNION {{Instance(Import(d)) \o s : s \in Of[d]} : d \in Below(c)}
  IN  [c \in Chain |-> Of[c]]

(* A mapped event belongs to a state of the program that imports, or to one *)
(* an import written earlier in another branch of it brings.                *)
HasEventTargets(c) ==
  LET item == Import(c)
      earlier == {d \in Below(Front(c)) :
                    Last(d) < Last(c) /\ ~IsPrefix(Import(d).at, item.at)}
      places == files[FileOf(Front(c))].states
                  \cup UNION {{Instance(Import(d)) \o s : s \in States[d]} : d \in earlier}
  IN  /\ \A p \in DOMAIN item.events : Front(EventTarget(item, p)) \in places
      /\ \A p, q \in DOMAIN item.events : EventTarget(item, p) = EventTarget(item, q) => p = q

Sound ==
  /\ Located
  /\ LET scope == Scope
     IN  /\ \A c \in Chain \ {<<>>} :
              /\ ~Misnamed(Import(c), DOMAIN scope[c])
              /\ \A v \in Assigned[c] \cap DOMAIN scope[c] : scope[c][v].role \notin Readonly
              /\ HasEventTargets(c)
         /\ \A c \in Chain : \A n \in DOMAIN scope[c] : Agree(scope, c, n)

(* Where the program reached by n imports of c has the instance c.          *)
Place(c) ==
  LET From[n \in 0..Len(c)] ==
        IF n = Len(c) THEN <<>> ELSE Instance(Import(Prefix(c, n + 1))) \o From[n + 1]
  IN  [n \in 0..Len(c) |-> From[n]]

(* The event p of the instance c, as an event of the entry program: at each *)
(* import it is mapped or it belongs to the instance.                       *)
Meaning(c, p) ==
  LET Up[n \in 0..Len(c)] ==
        IF n = Len(c) THEN p
        ELSE LET item == Import(Prefix(c, n + 1))
             IN  IF Up[n + 1] \in DOMAIN item.events THEN EventTarget(item, Up[n + 1])
                 ELSE Instance(item) \o Up[n + 1]
  IN  [n \in 0..Len(c) |-> Up[n]]

Refs == stack[1].refs

-------------------------------------------------------------------------------
(* The assembly accepts exactly the sound programs, whatever the order of   *)
(* their imports: no diamond is taken for a cycle, no cycle is followed, no *)
(* role or initial value depends on what was bound first; and it declares   *)
(* what the program means.                                                  *)
AcceptsWhatIsSound ==
  /\ mode = "done" => (reported = {} <=> Sound)
  /\ mode \in {"raised", "crashed"} => ~Sound
  /\ mode = "done" /\ reported = {} => stack[1].defs = Scope[<<>>]

(* In collect mode an import commits its states, events and variables or    *)
(* none of them: it is dropped for everything reported about it or below it *)
(* but for its own events.                                                  *)
NothingHalfImported ==
  mode = "done" =>
    LET Faulty(d) == \E r \in reported : IsPrefix(d, r.at) /\ (r.at = d => r.kind # "event")
        good == {c \in Chain \ {<<>>} : \A n \in 1..Len(c) : ~Faulty(Prefix(c, n))}
    IN  /\ stack[1].kept = good
        /\ {s.module : s \in UNION {stack[1].sources[v] : v \in DOMAIN stack[1].sources}}
             = {c \in good \cup {<<>>} : DOMAIN files[FileOf(c)].defs # {}}
        /\ {g.path : g \in stack[1].grafts} \cup files[Main].states
             = UNION {{Place(c)[0] \o s : s \in files[FileOf(c)].states} : c \in good \cup {<<>>}}
        /\ {r.module : r \in Refs} \subseteq good \cup {<<>>}

(* Every reference to an event means after the assembly what it means in    *)
(* its module.                                                              *)
EventsKeepTheirMeaning ==
  mode = "done" => \A r \in Refs : Absolute(r) = Meaning(r.module, Absolute(r.ref))[0]

(* An event written relative to its state until an import maps it, and that *)
(* every import further up maps, arrives where the mappings send it.        *)
MappedEventsArrive ==
  mode = "done" =>
    \A r \in Refs :
      LET up == Meaning(r.module, Absolute(r.ref))
          mapped == {n \in 1..Len(r.module) :
                       up[n] \in DOMAIN Import(Prefix(r.module, n)).events}
      IN  (\A n \in 1..Len(r.module) :
             n \in mapped \/ (~r.ref.abs /\ \A m \in n..Len(r.module) : m \notin mapped))
          => Absolute(r) = up[0]

================================================================================
