---------------------------- MODULE ImportAssembly ----------------------------
(***************************************************************************)
(* assemble_state_machine_imports: the imports of a program are replaced    *)
(* by the programs they name, depth first.  A frame of the stack is one     *)
(* _assemble_program in progress; when it has no import left it is checked, *)
(* renamed and merged into the frame below.  Paths and variable names are   *)
(* sequences of identifiers: <<alias>> \o name is the name alias_name.      *)
(* Left out: display names and documentation, the combo triggers, and how a *)
(* mapping selects the variables it renames.                                *)
(***************************************************************************)
EXTENDS Naturals, Sequences, FiniteSets, SequencesExt

CONSTANTS
  Main,         \* the file of the entry program
  None,         \* no path: the program was given with a directory
  FileSystems   \* what the files may contain

Role == {"param", "input", "control", "output"}
Readonly == {"param", "input"}

(* The entry program has been parsed, and what is parsed has imports in an  *)
(* order and variables with a role.                                         *)
ASSUME FilesAssumption ==
  \A fs \in FileSystems :
    /\ IsFiniteSet(DOMAIN fs) /\ None \notin DOMAIN fs
    /\ Main \in DOMAIN fs /\ ~fs[Main].broken
    /\ \A f \in DOMAIN fs :
         /\ fs[f].imports \in Seq(Range(fs[f].imports))
         /\ fs[f].defs = [v \in DOMAIN fs[f].defs |-> fs[f].defs[v]]
         /\ \A v \in DOMAIN fs[f].defs :
              LET d == fs[f].defs[v]
              IN  d.role \in Role /\ d = [role |-> d.role, type |-> d.type, init |-> d.init]

IsPath(p) == p \in Seq(Range(p))

(* States, and the parts of what refers to an event, are paths.             *)
ASSUME PathsAssumption ==
  \A fs \in FileSystems : \A f \in DOMAIN fs :
    /\ \A s \in fs[f].states : IsPath(s)
    /\ \A r \in fs[f].refs : r.abs \in BOOLEAN /\ IsPath(r.at) /\ IsPath(r.path)
    /\ \A k \in DOMAIN fs[f].imports : IsPath(fs[f].imports[k].at)

(* _IMPORT_ROLE_TARGETS: the roles a declaration may be bound to.           *)
Targets ==
  [param   |-> {"param"},
   input   |-> Role,
   control |-> {"control", "output"},
   output  |-> {"control", "output"}]

VARIABLES
  files,     \* the contents of each file that exists
  entry,     \* the bottom of import_stack: Main, or None
  collect,   \* whether the sink collects or raises
  stack,     \* the programs being assembled, innermost last
  reported,  \* sink.diagnostics
  mode       \* "assembling", "done", "raised", "crashed"

vars == <<files, entry, collect, stack, reported, mode>>
fixed == <<files, entry, collect>>

Imports(f) == files[f].imports

(* MUTANT: the explicit names are read when a binding is checked, so that   *)
(* what an earlier import bound counts as declared by the host.             *)
ExplicitOnceMerged(frame) == DOMAIN frame.defs

(* host_explicit_def_names                                                  *)
Explicit(frame) == DOMAIN files[frame.file].defs

Top == stack[Len(stack)]
Host == stack[Len(stack) - 1]
Current(frame) == Imports(frame.file)[frame.next]
Here(frame) == Append(frame.chain, frame.next)

(* A program as it is parsed, reached by the imports of chain.              *)
Opened(f, chain, before) ==
  [file    |-> f,
   chain   |-> chain,
   next    |-> 1,
   since   |-> before,
   defs    |-> files[f].defs,
   sources |-> [v \in DOMAIN files[f].defs |-> {[module |-> chain, name |-> v, decl |-> files[f].defs[v]]}],
   writes  |-> files[f].writes,
   refs    |-> {[module |-> chain, ref |-> r, at |-> r.at, abs |-> r.abs, path |-> r.path] :
                  r \in files[f].refs},
   grafts  |-> {},
   kept    |-> {}]

(* The states of a program: its own and those grafted onto it.              *)
Tree(frame) == files[frame.file].states \cup {g.path : g \in frame.grafts}

Init ==
  /\ files \in FileSystems
  /\ entry \in {Main, None}
  /\ collect \in BOOLEAN
  /\ stack = <<Opened(Main, <<>>, {})>>
  /\ reported = {}
  /\ mode = "assembling"

(* _emit_import_diag: a sink that does not collect raises.                  *)
Report(c, kind) ==
  /\ reported' = reported \cup {[at |-> c, kind |-> kind]}
  /\ mode' = IF collect THEN mode ELSE "raised"

-------------------------------------------------------------------------------
(* The loop over the imports of a program.                                  *)

(* occupied_names: the children of the state and the earlier aliases.       *)
AliasTaken(frame) ==
  LET item == Current(frame)
  IN  \/ Append(item.at, item.alias) \in files[frame.file].states
      \/ \E j \in 1..frame.next - 1 :
           /\ Imports(frame.file)[j].at = item.at
           /\ Imports(frame.file)[j].alias = item.alias

(* _find_cycle_index: the entry file counts only when its path is known.    *)
OnPath(f) == f = entry \/ \E n \in 2..Len(stack) : stack[n].file = f

Importing == mode = "assembling" /\ Top.next <= Len(Imports(Top.file))

Skip(kind) ==
  /\ stack' = [stack EXCEPT ![Len(stack)].next = @ + 1]
  /\ Report(Here(Top), kind)
  /\ UNCHANGED fixed

AliasConflict == Importing /\ AliasTaken(Top) /\ Skip("alias")

NotFound ==
  /\ Importing /\ ~AliasTaken(Top)
  /\ Current(Top).file \notin DOMAIN files
  /\ Skip("not found")

Locating ==
  /\ Importing /\ ~AliasTaken(Top)
  /\ Current(Top).file \in DOMAIN files

Circular == Locating /\ OnPath(Current(Top).file) /\ Skip("circular")

(* _load_imported_program: it cannot be read, decoded or parsed, or one of  *)
(* its declarations is invalid.                                             *)
Unreadable ==
  /\ Locating /\ ~OnPath(Current(Top).file)
  /\ files[Current(Top).file].broken
  /\ Skip("unreadable")

Load ==
  /\ Locating /\ ~OnPath(Current(Top).file)
  /\ ~files[Current(Top).file].broken
  /\ stack' = Append(stack, Opened(Current(Top).file, Here(Top), reported))
  /\ UNCHANGED <<fixed, reported, mode>>

-------------------------------------------------------------------------------
(* A program without imports left returns to the one that imports it.       *)

Returning ==
  /\ mode = "assembling"
  /\ Len(stack) > 1
  /\ Top.next > Len(Imports(Top.file))

Return(host) ==
  stack' = Append(SubSeq(stack, 1, Len(stack) - 2), [host EXCEPT !.next = @ + 1])

Drop(kind) == Return(Host) /\ Report(Top.chain, kind) /\ UNCHANGED fixed

(* _validate_imported_readonly_writes, against the roles of the module.     *)
WritesReadonly(frame) ==
  \E v \in frame.writes \cap DOMAIN frame.defs : frame.defs[v].role \in Readonly

RejectWrites == Returning /\ WritesReadonly(Top) /\ Drop("readonly")

(* Something was reported since the file was opened: nothing is merged.     *)
RejectNested ==
  /\ Returning /\ ~WritesReadonly(Top)
  /\ reported # Top.since
  /\ Return(Host)
  /\ UNCHANGED <<fixed, reported, mode>>

(* _apply_import_def_mappings: named variables, and a rest that gets the    *)
(* prefix of the alias.                                                     *)
Matched(item, v) == v \in DOMAIN item.vars \/ item.rest
Target(item, v) == IF v \in DOMAIN item.vars THEN item.vars[v] ELSE <<item.alias>> \o v

Misnamed(item, names) ==
  \/ \E v \in names : ~Matched(item, v)
  \/ \E v, w \in names : v # w /\ Target(item, v) = Target(item, w)

(* MUTANT: only what is wrong with the module itself keeps it out.          *)
CleanItself == Returning /\ ~WritesReadonly(Top)

Clean == Returning /\ ~WritesReadonly(Top) /\ reported = Top.since

RejectNames ==
  Clean /\ Misnamed(Current(Host), DOMAIN Top.defs) /\ Drop("variable")

(* MUTANT: a declaration of the host is taken as compatible with any other. *)
ConflictsIfShared(host, n, d) ==
  LET old == host.defs[n]
  IN  /\ n \notin Explicit(host)
      /\ \/ old.role # d.role
         \/ old.type # d.type
         \/ d.role = "input"
         \/ old.init # d.init

(* _merge_imported_definitions: may d be bound to the variable n of host?   *)
Conflicts(host, n, d) ==
  LET old == host.defs[n]
  IN  \/ old.role \notin Targets[d.role]
      \/ old.type # d.type
      \/ /\ n \notin Explicit(host)
         /\ old.role # d.role \/ d.role = "input" \/ old.init # d.init

Clash(host, module) ==
  \E v \in DOMAIN module.defs :
    LET n == Target(Current(host), v)
    IN  n \in DOMAIN host.defs /\ Conflicts(host, n, module.defs[v])

Named == Clean /\ ~Misnamed(Current(Host), DOMAIN Top.defs)

RejectBinding == Named /\ Clash(Host, Top) /\ Drop("binding")

(* The variables of module that become n.                                   *)
Preimage(item, module, n) == {v \in DOMAIN module.defs : Target(item, v) = n}

MergedDefs(item, host, module) ==
  [n \in DOMAIN host.defs \cup {Target(item, v) : v \in DOMAIN module.defs} |->
     IF n \in DOMAIN host.defs THEN host.defs[n]
     ELSE module.defs[CHOOSE v \in Preimage(item, module, n) : TRUE]]

(* MUTANT: the declarations of a variable new to the host are not kept.     *)
SourcesOfHost(item, host, module) ==
  [n \in DOMAIN host.defs |->
     host.sources[n] \cup UNION {module.sources[v] : v \in Preimage(item, module, n)}]

(* _source_declarations                                                     *)
MergedSources(item, host, module) ==
  [n \in DOMAIN host.defs \cup {Target(item, v) : v \in DOMAIN module.defs} |->
     (IF n \in DOMAIN host.defs THEN host.sources[n] ELSE {})
       \cup UNION {module.sources[v] : v \in Preimage(item, module, n)}]

-------------------------------------------------------------------------------
(* Events.                                                                  *)

Absolute(r) == IF r.abs THEN r.path ELSE r.at \o r.path

(* _resolve_import_event_target_path: an event of the host program.         *)
EventTarget(item, p) ==
  IF item.events[p].abs THEN item.events[p].path ELSE item.at \o item.events[p].path

Used(item, module) == {Absolute(r) : r \in module.refs} \cap DOMAIN item.events

(* _rewrite_transition_event_id                                             *)
Mapped(item, r) ==
  IF Absolute(r) \in DOMAIN item.events
    THEN [r EXCEPT !.abs = TRUE, !.path = EventTarget(item, Absolute(r))]
    ELSE IF r.abs THEN [r EXCEPT !.path = r.at \o r.path] ELSE r

(* MUTANT: no path is preserved: a mapped event gets the prefix of the      *)
(* instance as well.                                                        *)
NothingPreserved(item, module) == {}

Preserved(item, module) == {EventTarget(item, p) : p \in Used(item, module)}

(* _rewrite_absolute_paths_for_imported_root                                *)
Instance(item) == Append(item.at, item.alias)

Placed(item, module, r) ==
  [r EXCEPT !.at = Instance(item) \o @,
            !.path = IF r.abs /\ r.path \notin Preserved(item, module)
                       THEN Instance(item) \o @ ELSE @]

RewrittenRefs(item, module) ==
  {Placed(item, module, Mapped(item, r)) : r \in module.refs}

(* What _ensure_state_path_exists finds: the program's own states, and      *)
(* imported ones where the assembly of their parent is over.                *)
Visible(item, host) ==
  files[host.file].states
    \cup {g.path : g \in {h \in host.grafts : ~IsPrefix(h.owner, item.at)}}

Ambiguous(item) ==
  \E p, q \in DOMAIN item.events : p # q /\ EventTarget(item, p) = EventTarget(item, q)

Dangling(item, host) ==
  {p \in DOMAIN item.events : Front(EventTarget(item, p)) \notin Visible(item, host)}

(* The missing state is returned as None and its events, or its children,   *)
(* are read.                                                                *)
Crashes(item, host, module) ==
  \E p \in Dangling(item, host) :
    \/ p \in Used(item, module)
    \/ Front(Front(EventTarget(item, p))) \notin Visible(item, host)

-------------------------------------------------------------------------------
Grafted(item, module) ==
  {[owner |-> item.at, path |-> Instance(item) \o s] : s \in Tree(module)}

Extended(item, host, module) ==
  [host EXCEPT
     !.defs = MergedDefs(item, host, module),
     !.sources = MergedSources(item, host, module),
     !.writes = @ \cup {IF v \in DOMAIN module.defs THEN Target(item, v) ELSE v :
                          v \in module.writes},
     !.refs = @ \cup RewrittenRefs(item, module),
     !.grafts = @ \cup Grafted(item, module),
     !.kept = @ \cup module.kept \cup {module.chain}]

Binding == Named /\ ~Clash(Host, Top)

Merge ==
  /\ Binding
  /\ ~Ambiguous(Current(Host)) /\ Dangling(Current(Host), Host) = {}
  /\ Return(Extended(Current(Host), Host, Top))
  /\ UNCHANGED <<fixed, reported, mode>>

(* What is wrong with the events of an import does not stop it.             *)
MergeReporting ==
  /\ Binding
  /\ Ambiguous(Current(Host)) \/ Dangling(Current(Host), Host) # {}
  /\ ~Crashes(Current(Host), Host, Top)
  /\ Return(Extended(Current(Host), Host, Top))
  /\ Report(Top.chain, "event")
  /\ UNCHANGED fixed

Crash ==
  /\ Binding
  /\ Crashes(Current(Host), Host, Top)
  /\ reported' = reported \cup {[at |-> Top.chain, kind |-> "event"]}
  /\ mode' = IF collect THEN "crashed" ELSE "raised"
  /\ UNCHANGED <<fixed, stack>>

Finish ==
  /\ mode = "assembling"
  /\ Len(stack) = 1 /\ Top.next > Len(Imports(Top.file))
  /\ mode' = "done"
  /\ UNCHANGED <<fixed, stack, reported>>

(* The call has ended.                                                      *)
Over == mode # "assembling" /\ UNCHANGED vars

Next ==
  \/ AliasConflict \/ NotFound \/ Circular \/ Unreadable \/ Load
  \/ RejectWrites \/ RejectNested \/ RejectNames \/ RejectBinding
  \/ Merge \/ MergeReporting \/ Crash \/ Finish \/ Over

Spec == Init /\ [][Next]_vars

-------------------------------------------------------------------------------
(* Properties.                                                              *)

Kind == {"alias", "not found", "circular", "unreadable", "readonly", "variable",
         "binding", "event"}

(* The frames are programs that could be read, each below the next at the   *)
(* import it is reached by, and every variable has the declarations it came *)
(* from.                                                                    *)
TypeOK ==
  /\ entry \in {Main, None} /\ collect \in BOOLEAN
  /\ mode \in {"assembling", "done", "raised", "crashed"}
  /\ \A r \in reported : r.kind \in Kind
  /\ Len(stack) > 0
  /\ \A n \in 1..Len(stack) :
       /\ stack[n].file \in DOMAIN files /\ ~files[stack[n].file].broken
       /\ stack[n].next \in 1..Len(Imports(stack[n].file)) + 1
       /\ DOMAIN stack[n].sources = DOMAIN stack[n].defs
  /\ \A n \in 1..Len(stack) - 1 :
       /\ stack[n].next <= Len(Imports(stack[n].file))
       /\ stack[n + 1].file = Current(stack[n]).file
       /\ stack[n + 1].chain = Here(stack[n])

(* Whatever was imported in whatever order, a variable has one type for all *)
(* the declarations bound to it and a role each of them may be bound to,    *)
(* across all the modules in between; a declaration of the host is never    *)
(* replaced; and an input nobody declared serves one import alone.          *)
BindingsAreSound ==
  \A n \in 1..Len(stack) : \A v \in DOMAIN stack[n].defs :
    LET frame == stack[n]
    IN  /\ v \in Explicit(frame) => frame.defs[v] = files[frame.file].defs[v]
        /\ \A s \in frame.sources[v] :
             /\ frame.defs[v].type = s.decl.type
             /\ frame.defs[v].role \in Targets[s.decl.role]
        /\ v \notin Explicit(frame) /\ frame.defs[v].role = "input" =>
             \A s, t \in frame.sources[v] :
               s.module[Len(frame.chain) + 1] = t.module[Len(frame.chain) + 1]

================================================================================
