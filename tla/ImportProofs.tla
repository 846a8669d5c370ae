------------------------------ MODULE ImportProofs ------------------------------
(***************************************************************************)
(* The assembly of imports is typed and ends as ImportAssembly says, and   *)
(* does what ImportMeaning says, for every set of file systems: any number *)
(* of files, imports, levels, variables and events.                        *)
(*                                                                         *)
(* What every step of the assembly keeps comes first, with the theorems of *)
(* ImportAssembly.  Then the chains of imports and the recursive functions *)
(* over them and, for each property of ImportMeaning, what is known of     *)
(* every program that is being assembled, one lemma per kind of step, and  *)
(* the theorem.                                                            *)
(***************************************************************************)
EXTENDS ImportMeaning, SequenceTheorems, FiniteSetTheorems, WellFoundedInduction, TLAPS

(* A frame is a record with these fields, over a file that can be read.     *)
Framed(fs, fr) ==
  /\ fr = [file |-> fr.file, chain |-> fr.chain, next |-> fr.next, since |-> fr.since,
           defs |-> fr.defs, sources |-> fr.sources, writes |-> fr.writes,
           refs |-> fr.refs, grafts |-> fr.grafts, kept |-> fr.kept]
  /\ fr.file \in DOMAIN fs /\ ~fs[fr.file].broken
  /\ fr.next \in 1..Len(fs[fr.file].imports) + 1
  /\ fr.chain \in Seq(Nat)

(* A declaration was made in the module of chain or below it.               *)
Under(s, chain) ==
  /\ Len(chain) <= Len(s.module)
  /\ \A i \in 1..Len(chain) : s.module[i] = chain[i]

(* What is declared has roles and comes from here or from below.            *)
Declared(fs, fr) ==
  /\ DOMAIN fr.sources = DOMAIN fr.defs
  /\ DOMAIN fs[fr.file].defs \subseteq DOMAIN fr.defs
  /\ \A v \in DOMAIN fr.defs : fr.defs[v].role \in Role
  /\ \A v \in DOMAIN fr.defs : \A s \in fr.sources[v] :
       /\ s.decl.role \in Role
       /\ s.module \in Seq(Nat)
       /\ Under(s, fr.chain)

(* A declaration of the host stands.                                        *)
Kept(fs, fr) == \A v \in DOMAIN fs[fr.file].defs : fr.defs[v] = fs[fr.file].defs[v]

(* Each declaration may be bound to what it was bound to.                   *)
Compatible(fr) ==
  \A v \in DOMAIN fr.defs : \A s \in fr.sources[v] :
    /\ fr.defs[v].type = s.decl.type
    /\ fr.defs[v].role \in Targets[s.decl.role]

(* An input the host does not declare comes through one import.             *)
Unshared(fs, fr) ==
  \A v \in DOMAIN fr.defs :
    v \notin DOMAIN fs[fr.file].defs /\ fr.defs[v].role = "input" =>
      \A s, t \in fr.sources[v] :
        s.module[Len(fr.chain) + 1] = t.module[Len(fr.chain) + 1]

Sane(fs, fr) ==
  Framed(fs, fr) /\ Declared(fs, fr) /\ Kept(fs, fr) /\ Compatible(fr) /\ Unshared(fs, fr)

(* The frame up was opened for the import frame fr is at.                   *)
Linked(fs, fr, up) ==
  /\ fr.next \in 1..Len(fs[fr.file].imports)
  /\ up.file = fs[fr.file].imports[fr.next].file
  /\ up.chain = Append(fr.chain, fr.next)

(* The modes, the files and what is reported.                               *)
Outer ==
  /\ files \in FileSystems /\ entry \in {Main, None} /\ collect \in BOOLEAN
  /\ mode \in {"assembling", "done", "raised", "crashed"}
  /\ \A r \in reported : r.kind \in Kind

Frames(s) == {s[n] : n \in 1..Len(s)}

Stacked(fs, s) ==
  /\ s \in Seq(Frames(s))
  /\ Len(s) > 0
  /\ \A n \in 1..Len(s) : Sane(fs, s[n])
  /\ \A n \in 1..Len(s) - 1 : Linked(fs, s[n], s[n + 1])

IInv == Outer /\ Stacked(files, stack)

-------------------------------------------------------------------------------
(* Sequences.                                                               *)

(* Every sequence is one of its own elements.                               *)
LEMMA OfItsElements ==
  ASSUME NEW S, NEW s \in Seq(S)
  PROVE  s \in Seq(Frames(s)) /\ Len(s) \in Nat
  <1>1. Len(s) \in Nat /\ s \in [1..Len(s) -> S]
    BY LenProperties
  <1>2. s \in [1..Len(s) -> Frames(s)]
    BY <1>1 DEF Frames
  <1> QED
    BY <1>1, <1>2, SeqDef

(* A frame is pushed.                                                       *)
LEMMA Pushed ==
  ASSUME NEW s, s \in Seq(Frames(s)), NEW e
  PROVE  LET t == Append(s, e)
         IN  /\ t \in Seq(Frames(t))
             /\ Len(s) \in Nat /\ Len(t) = Len(s) + 1
             /\ \A n \in 1..Len(s) : t[n] = s[n]
             /\ t[Len(s) + 1] = e
  <1> DEFINE S == Frames(s) \cup {e}
  <1>1. s \in Seq(S) /\ e \in S
    BY SeqMonotonic
  <1> HIDE DEF S
  <1>2. /\ Append(s, e) \in Seq(S)
        /\ Len(Append(s, e)) = Len(s) + 1
        /\ \A n \in 1..Len(s) : Append(s, e)[n] = s[n]
        /\ Append(s, e)[Len(s) + 1] = e
    BY <1>1, AppendProperties
  <1> QED
    BY <1>1, <1>2, OfItsElements, LenProperties

(* The top is replaced.                                                     *)
LEMMA Replaced ==
  ASSUME NEW s, s \in Seq(Frames(s)), Len(s) > 0, NEW e
  PROVE  LET t == [s EXCEPT ![Len(s)] = e]
         IN  /\ t \in Seq(Frames(t))
             /\ Len(s) \in Nat /\ Len(t) = Len(s)
             /\ \A n \in 1..Len(s) - 1 : t[n] = s[n]
             /\ t[Len(s)] = e
  <1> DEFINE S == Frames(s) \cup {e}
  <1>1. s \in Seq(S) /\ e \in S
    BY SeqMonotonic
  <1> HIDE DEF S
  <1>2. Len(s) \in Nat /\ Len(s) \in 1..Len(s)
    BY <1>1, LenProperties
  <1> DEFINE t == [s EXCEPT ![Len(s)] = e]
  <1>3. /\ t \in Seq(S)
        /\ Len(t) = Len(s)
        /\ \A n \in 1..Len(s) : t[n] = IF n = Len(s) THEN e ELSE s[n]
    BY <1>1, <1>2, ExceptSeq
  <1> HIDE DEF t
  <1>4. t \in Seq(Frames(t))
    BY <1>3, OfItsElements
  <1>5. (\A n \in 1..Len(s) - 1 : t[n] = s[n]) /\ t[Len(s)] = e
    BY <1>2, <1>3
  <1> QED
    BY <1>2, <1>3, <1>4, <1>5 DEF t

(* The two innermost frames are replaced by one.                            *)
LEMMA Folded ==
  ASSUME NEW s, s \in Seq(Frames(s)), Len(s) > 1, NEW e
  PROVE  LET t == Append(SubSeq(s, 1, Len(s) - 2), e)
         IN  /\ t \in Seq(Frames(t))
             /\ Len(s) \in Nat /\ Len(t) = Len(s) - 1
             /\ \A n \in 1..Len(s) - 2 : t[n] = s[n]
             /\ t[Len(s) - 1] = e
  <1> DEFINE S == Frames(s)
             m == Len(s) - 2
             u == SubSeq(s, 1, m)
  <1>1. Len(s) \in Nat /\ m \in Nat /\ m + 1 = Len(s) - 1 /\ m - 1 + 1 = m
    BY LenProperties
  <1>2. \A i \in 1..m : s[i] \in S
    BY <1>1 DEF Frames
  <1>3. /\ u \in Seq(S)
        /\ Len(u) = m
        /\ \A i \in 1..m : u[i] = s[i]
    <2> HIDE DEF S, m
    <2>1. /\ u \in Seq(S)
          /\ Len(u) = IF 1 <= m THEN m - 1 + 1 ELSE 0
          /\ \A i \in 1..m - 1 + 1 : u[i] = s[1 + i - 1]
      BY <1>1, <1>2, SubSeqProperties
    <2>2. \A i \in 1..m : 1 + i - 1 = i
      BY <1>1
    <2> QED
      BY <1>1, <2>1, <2>2
  <1> HIDE DEF u
  <1>4. u \in Seq(Frames(u))
    BY <1>3, OfItsElements
  <1> DEFINE t == Append(u, e)
  <1>5. /\ t \in Seq(Frames(t))
        /\ Len(t) = Len(u) + 1
        /\ \A n \in 1..Len(u) : t[n] = u[n]
        /\ t[Len(u) + 1] = e
    BY <1>4, Pushed
  <1> HIDE DEF t
  <1>6. /\ Len(t) = Len(s) - 1
        /\ \A n \in 1..Len(s) - 2 : t[n] = s[n]
        /\ t[Len(s) - 1] = e
    BY <1>1, <1>3, <1>5
  <1> QED
    BY <1>1, <1>5, <1>6 DEF t, u

-------------------------------------------------------------------------------
(* Frames.                                                                  *)

(* What is known of a file.                                                 *)
LEMMA FileFacts ==
  ASSUME Outer, NEW f \in DOMAIN files
  PROVE  /\ files[f].imports \in Seq(Range(files[f].imports))
         /\ Len(files[f].imports) \in Nat
         /\ DOMAIN files[f].imports = 1..Len(files[f].imports)
         /\ \A v \in DOMAIN files[f].defs : files[f].defs[v].role \in Role
  <1>1. files \in FileSystems
    BY DEF Outer
  <1>2. /\ files[f].imports \in Seq(Range(files[f].imports))
        /\ \A v \in DOMAIN files[f].defs : files[f].defs[v].role \in Role
    BY <1>1, FilesAssumption
  <1> QED
    BY <1>2, LenProperties

(* A program as it is parsed.                                               *)
LEMMA OpenedSane ==
  ASSUME Outer, NEW f \in DOMAIN files, ~files[f].broken, NEW chain \in Seq(Nat), NEW before
  PROVE  Sane(files, Opened(f, chain, before))
  <1> DEFINE fr == Opened(f, chain, before)
  <1>1. /\ fr.file = f /\ fr.chain = chain /\ fr.next = 1 /\ fr.defs = files[f].defs
        /\ fr.sources = [v \in DOMAIN files[f].defs |->
                           {[module |-> chain, name |-> v, decl |-> files[f].defs[v]]}]
    BY DEF Opened
  <1>2. /\ Len(files[f].imports) \in Nat
        /\ \A v \in DOMAIN files[f].defs : files[f].defs[v].role \in Role
    BY FileFacts
  <1>3. Framed(files, fr)
    BY <1>2 DEF Framed, Opened
  <1> HIDE DEF fr
  <1>4. \A v \in DOMAIN fr.defs : \A s \in fr.sources[v] :
          s.module = chain /\ s.decl = files[f].defs[v]
    BY <1>1
  <1>5. Declared(files, fr)
    <2>1. Len(chain) \in Nat
      BY LenProperties
    <2>2. \A v \in DOMAIN fr.defs : \A s \in fr.sources[v] : Under(s, fr.chain)
      BY <1>1, <1>4, <2>1 DEF Under
    <2> QED
      BY <1>1, <1>2, <1>4, <2>2 DEF Declared
  <1>6. \A r \in Role : r \in Targets[r]
    BY DEF Role, Targets
  <1>7. Kept(files, fr) /\ Compatible(fr) /\ Unshared(files, fr)
    BY <1>1, <1>2, <1>4, <1>6 DEF Kept, Compatible, Unshared
  <1> QED
    BY <1>3, <1>5, <1>7 DEF Sane, fr

(* A program goes on to its next import.                                    *)
LEMMA AdvancedSane ==
  ASSUME NEW fs, NEW fr, Sane(fs, fr), fr.next \in 1..Len(fs[fr.file].imports)
  PROVE  LET on == [fr EXCEPT !.next = @ + 1]
         IN  Sane(fs, on) /\ on.file = fr.file /\ on.chain = fr.chain
  <1> DEFINE on == [fr EXCEPT !.next = @ + 1]
  <1>1. Framed(fs, fr)
    BY DEF Sane
  <1>2. /\ on = [file |-> fr.file, chain |-> fr.chain, next |-> fr.next + 1, since |-> fr.since,
                 defs |-> fr.defs, sources |-> fr.sources, writes |-> fr.writes,
                 refs |-> fr.refs, grafts |-> fr.grafts, kept |-> fr.kept]
    <2>1. fr = [file |-> fr.file, chain |-> fr.chain, next |-> fr.next, since |-> fr.since,
                defs |-> fr.defs, sources |-> fr.sources, writes |-> fr.writes,
                refs |-> fr.refs, grafts |-> fr.grafts, kept |-> fr.kept]
      BY ONLY <1>1, Zenon DEF Framed
    <2> QED
      BY ONLY <2>1 DEF on
  <1> HIDE DEF on
  <1>3. /\ on.file = fr.file /\ on.chain = fr.chain /\ on.defs = fr.defs
        /\ on.sources = fr.sources /\ on.next = fr.next + 1
    BY <1>2
  <1>4. Framed(fs, on)
    <2>1. on.next \in 1..Len(fs[fr.file].imports) + 1
      BY <1>1, <1>3 DEF Framed
    <2> QED
      BY <1>1, <1>2, <1>3, <2>1 DEF Framed
  <1>5. Declared(fs, on) /\ Kept(fs, on) /\ Compatible(on) /\ Unshared(fs, on)
    BY <1>3 DEF Sane, Declared, Kept, Compatible, Unshared
  <1> QED
    BY <1>3, <1>4, <1>5 DEF Sane, on

(* Roles a declaration may be bound to are closed under binding again.      *)
LEMMA TargetsCompose ==
  \A a, b, c \in Role : b \in Targets[a] /\ c \in Targets[b] => c \in Targets[a]
  BY DEF Role, Targets

(* The update of a frame, field by field.                                   *)
LEMMA UpdatedFrame ==
  ASSUME NEW h, h = [file |-> h.file, chain |-> h.chain, next |-> h.next, since |-> h.since, defs |-> h.defs,
            sources |-> h.sources, writes |-> h.writes, refs |-> h.refs, grafts |-> h.grafts, kept |-> h.kept]
  PROVE  \A a, b, c, d, e, g :
           [h EXCEPT !.defs = a, !.sources = b, !.writes = c, !.refs = d, !.grafts = e, !.kept = g]
           = [file |-> h.file, chain |-> h.chain, next |-> h.next, since |-> h.since, defs |-> a,
            sources |-> b, writes |-> c, refs |-> d, grafts |-> e, kept |-> g]
  <1> TAKE a, b, c, d, e, g
  <1> DEFINE h1 == [h EXCEPT !.defs = a]
  <1>1. h1 = [file |-> h.file, chain |-> h.chain, next |-> h.next, since |-> h.since, defs |-> a,
            sources |-> h.sources, writes |-> h.writes, refs |-> h.refs, grafts |-> h.grafts, kept |-> h.kept]
    OBVIOUS
  <1> HIDE DEF h1
  <1> DEFINE h2 == [h1 EXCEPT !.sources = b]
  <1>2. h2 = [file |-> h.file, chain |-> h.chain, next |-> h.next, since |-> h.since, defs |-> a,
            sources |-> b, writes |-> h.writes, refs |-> h.refs, grafts |-> h.grafts, kept |-> h.kept]
    BY <1>1
  <1> HIDE DEF h2
  <1> DEFINE h3 == [h2 EXCEPT !.writes = c]
  <1>3. h3 = [file |-> h.file, chain |-> h.chain, next |-> h.next, since |-> h.since, defs |-> a,
            sources |-> b, writes |-> c, refs |-> h.refs, grafts |-> h.grafts, kept |-> h.kept]
    BY <1>2
  <1> HIDE DEF h3
  <1> DEFINE h4 == [h3 EXCEPT !.refs = d]
  <1>4. h4 = [file |-> h.file, chain |-> h.chain, next |-> h.next, since |-> h.since, defs |-> a,
            sources |-> b, writes |-> c, refs |-> d, grafts |-> h.grafts, kept |-> h.kept]
    BY <1>3
  <1> HIDE DEF h4
  <1> DEFINE h5 == [h4 EXCEPT !.grafts = e]
  <1>5. h5 = [file |-> h.file, chain |-> h.chain, next |-> h.next, since |-> h.since, defs |-> a,
            sources |-> b, writes |-> c, refs |-> d, grafts |-> e, kept |-> h.kept]
    BY <1>4
  <1> HIDE DEF h5
  <1> DEFINE h6 == [h5 EXCEPT !.kept = g]
  <1>6. h6 = [file |-> h.file, chain |-> h.chain, next |-> h.next, since |-> h.since, defs |-> a,
            sources |-> b, writes |-> c, refs |-> d, grafts |-> e, kept |-> g]
    BY <1>5
  <1> HIDE DEF h6
  <1> QED
    BY <1>6 DEF h1, h2, h3, h4, h5, h6

(* A program takes over a program it imports.                               *)
LEMMA ExtendedSane ==
  ASSUME NEW h, NEW m, Sane(files, h), Sane(files, m), Linked(files, h, m),
         ~Misnamed(Current(h), DOMAIN m.defs), ~Clash(h, m)
  PROVE  LET ext == Extended(Current(h), h, m)
         IN  /\ Sane(files, ext)
             /\ ext.file = h.file /\ ext.chain = h.chain /\ ext.next = h.next
  <1> DEFINE item == Current(h)
             ext == Extended(item, h, m)
             T(v) == Target(item, v)
             Names == DOMAIN h.defs \cup {T(v) : v \in DOMAIN m.defs}
             P(n) == Preimage(item, m, n)
  <1>1. /\ Framed(files, h) /\ Declared(files, h) /\ Kept(files, h)
        /\ Compatible(h) /\ Unshared(files, h)
        /\ Declared(files, m) /\ Compatible(m)
    BY DEF Sane
  <1>2. ext = [file |-> h.file, chain |-> h.chain, next |-> h.next, since |-> h.since,
               defs |-> MergedDefs(item, h, m), sources |-> MergedSources(item, h, m),
               writes |-> ext.writes, refs |-> ext.refs, grafts |-> ext.grafts,
               kept |-> ext.kept]
    <2> DEFINE w == h.writes \cup {IF v \in DOMAIN m.defs THEN T(v) ELSE v : v \in m.writes}
               r == h.refs \cup RewrittenRefs(item, m)
               g == h.grafts \cup Grafted(item, m)
               k == h.kept \cup m.kept \cup {m.chain}
               all == [file |-> h.file, chain |-> h.chain, next |-> h.next, since |-> h.since,
                       defs |-> MergedDefs(item, h, m), sources |-> MergedSources(item, h, m),
                       writes |-> w, refs |-> r, grafts |-> g, kept |-> k]
    <2>1. ext = all
      <3>1. h = [file |-> h.file, chain |-> h.chain, next |-> h.next, since |-> h.since,
                 defs |-> h.defs, sources |-> h.sources, writes |-> h.writes,
                 refs |-> h.refs, grafts |-> h.grafts, kept |-> h.kept]
        BY <1>1 DEF Framed
      <3>2. ext = [h EXCEPT !.defs = MergedDefs(item, h, m), !.sources = MergedSources(item, h, m),
                            !.writes = w, !.refs = r, !.grafts = g, !.kept = k]
        BY Zenon DEF Extended
      <3> HIDE DEF w, r, g, k, ext, item
      <3>3. \A a, b, c, d, e, f :
              [h EXCEPT !.defs = a, !.sources = b, !.writes = c, !.refs = d, !.grafts = e, !.kept = f]
              = [file |-> h.file, chain |-> h.chain, next |-> h.next, since |-> h.since,
                 defs |-> a, sources |-> b, writes |-> c, refs |-> d, grafts |-> e, kept |-> f]
        BY ONLY <3>1, UpdatedFrame, Zenon
      <3> QED
        BY <3>2, <3>3, Zenon
    <2>2. all.writes = w /\ all.refs = r /\ all.grafts = g /\ all.kept = k
      OBVIOUS
    <2> QED
      BY <2>1, <2>2, Zenon
  <1> HIDE DEF ext
  <1>3. /\ ext.file = h.file /\ ext.chain = h.chain /\ ext.next = h.next
        /\ ext.defs = MergedDefs(item, h, m) /\ ext.sources = MergedSources(item, h, m)
    BY <1>2
  <1> HIDE DEF item
  <1>4. Framed(files, ext)
    BY <1>1, <1>2, <1>3 DEF Framed
  <1>5. /\ DOMAIN ext.defs = Names /\ DOMAIN ext.sources = Names
        /\ \A n \in DOMAIN h.defs : ext.defs[n] = h.defs[n]
    BY <1>3 DEF MergedDefs, MergedSources
  (* A name new to the host has one variable of the module behind it.       *)
  <1>6. ASSUME NEW n \in Names, n \notin DOMAIN h.defs
        PROVE  \E v \in DOMAIN m.defs :
                 /\ n = T(v)
                 /\ ext.defs[n] = m.defs[v]
                 /\ ext.sources[n] = m.sources[v]
    <2>1. PICK v \in DOMAIN m.defs : n = T(v)
      BY <1>6
    <2>2. \A w \in DOMAIN m.defs : T(w) = n => w = v
      BY <2>1 DEF Misnamed, item
    <2>3. P(n) = {v}
      BY <2>1, <2>2 DEF Preimage
    <2>4. ext.defs[n] = m.defs[CHOOSE w \in P(n) : TRUE]
      BY <1>3, <1>6 DEF MergedDefs
    <2>5. ext.sources[n] = UNION {m.sources[w] : w \in P(n)}
      BY <1>3, <1>6 DEF MergedSources
    <2>6. (CHOOSE w \in P(n) : TRUE) = v
      BY <2>3
    <2> QED
      BY <2>1, <2>3, <2>4, <2>5, <2>6
  (* The declarations of a name of the host: its own, and one variable's.   *)
  <1>7. ASSUME NEW n \in DOMAIN h.defs, NEW s \in ext.sources[n]
        PROVE  \/ s \in h.sources[n]
               \/ \E v \in DOMAIN m.defs : n = T(v) /\ s \in m.sources[v]
    <2>1. ext.sources[n] = h.sources[n] \cup UNION {m.sources[w] : w \in P(n)}
      BY <1>3, <1>7 DEF MergedSources
    <2> QED
      BY <1>7, <2>1 DEF Preimage
  (* What the module binds to a name of the host does not conflict.         *)
  <1>8. ASSUME NEW v \in DOMAIN m.defs, T(v) \in DOMAIN h.defs
        PROVE  /\ h.defs[T(v)].role \in Targets[m.defs[v].role]
               /\ h.defs[T(v)].type = m.defs[v].type
               /\ T(v) \in DOMAIN files[h.file].defs \/ h.defs[T(v)].role # "input"
    BY <1>8 DEF Clash, Conflicts, Explicit, item
  (* What comes from the module was declared under the current import.      *)
  <1>9. ASSUME NEW v \in DOMAIN m.defs, NEW s \in m.sources[v]
        PROVE  /\ s.decl.role \in Role /\ s.module \in Seq(Nat)
               /\ Under(s, h.chain)
               /\ s.module[Len(h.chain) + 1] = h.next
               /\ m.defs[v].type = s.decl.type
               /\ m.defs[v].role \in Targets[s.decl.role]
    <2>1. /\ s.decl.role \in Role /\ s.module \in Seq(Nat) /\ Under(s, m.chain)
          /\ m.defs[v].type = s.decl.type /\ m.defs[v].role \in Targets[s.decl.role]
      <3>1. s.decl.role \in Role /\ s.module \in Seq(Nat) /\ Under(s, m.chain)
        BY <1>1, Zenon DEF Declared
      <3>2. m.defs[v].type = s.decl.type /\ m.defs[v].role \in Targets[s.decl.role]
        BY <1>1, Zenon DEF Compatible
      <3> QED
        BY <3>1, <3>2
    <2>2. h.chain \in Seq(Nat) /\ h.next \in Nat /\ m.chain = Append(h.chain, h.next)
      BY <1>1 DEF Framed, Linked
    <2>3. /\ Len(m.chain) = Len(h.chain) + 1
          /\ \A i \in 1..Len(h.chain) : m.chain[i] = h.chain[i]
          /\ m.chain[Len(h.chain) + 1] = h.next
      BY <2>2, AppendProperties
    <2>4. Len(h.chain) \in Nat /\ Len(s.module) \in Nat
      BY <2>1, <2>2, LenProperties
    <2>5. Under(s, h.chain) /\ s.module[Len(h.chain) + 1] = h.next
      <3>1. Len(m.chain) <= Len(s.module) /\ \A i \in 1..Len(m.chain) : s.module[i] = m.chain[i]
        BY ONLY <2>1 DEF Under
      <3> DEFINE k == Len(h.chain)
      <3>2. k \in Nat /\ Len(m.chain) = k + 1 /\ Len(s.module) \in Nat /\ k + 1 \in 1..k + 1
        BY ONLY <2>3, <2>4
      <3>3. s.module[k + 1] = h.next
        BY ONLY <2>3, <3>1, <3>2
      <3>4. \A i \in 1..k : i \in 1..k + 1
        BY ONLY <3>2
      <3>5. \A i \in 1..k : s.module[i] = h.chain[i]
        BY ONLY <2>3, <3>1, <3>2, <3>4
      <3>6. k <= Len(s.module)
        BY ONLY <3>1, <3>2
      <3> QED
        BY ONLY <3>3, <3>5, <3>6 DEF Under
    <2> QED
      BY <2>1, <2>5
  <1>10. Declared(files, ext)
    <2>1. DOMAIN files[ext.file].defs \subseteq DOMAIN ext.defs
      BY <1>1, <1>3, <1>5 DEF Declared
    <2>2. \A n \in Names : ext.defs[n].role \in Role
      BY <1>1, <1>5, <1>6 DEF Declared
    <2>3. ASSUME NEW n \in Names, NEW s \in ext.sources[n]
          PROVE  s.decl.role \in Role /\ s.module \in Seq(Nat) /\ Under(s, ext.chain)
      <3>1. CASE n \in DOMAIN h.defs
        BY <1>1, <1>3, <1>7, <1>9, <2>3, <3>1 DEF Declared
      <3>2. CASE n \notin DOMAIN h.defs
        BY <1>3, <1>6, <1>9, <2>3, <3>2
      <3> QED
        BY <3>1, <3>2
    <2> QED
      BY <1>5, <2>1, <2>2, <2>3 DEF Declared
  <1>11. Kept(files, ext)
    BY <1>1, <1>3, <1>5 DEF Kept, Declared
  <1>12. Compatible(ext)
    <2>1. ASSUME NEW n \in Names, NEW s \in ext.sources[n]
          PROVE  ext.defs[n].type = s.decl.type /\ ext.defs[n].role \in Targets[s.decl.role]
      <3>1. CASE n \in DOMAIN h.defs /\ s \in h.sources[n]
        BY <1>1, <1>5, <3>1 DEF Compatible
      <3>2. CASE n \in DOMAIN h.defs /\ s \notin h.sources[n]
        <4>1. PICK v \in DOMAIN m.defs : n = T(v) /\ s \in m.sources[v]
          BY <1>7, <2>1, <3>2
        <4>2. h.defs[n].role \in Targets[m.defs[v].role] /\ h.defs[n].type = m.defs[v].type
          BY <1>8, <3>2, <4>1
        <4>3. /\ s.decl.role \in Role /\ m.defs[v].type = s.decl.type
              /\ m.defs[v].role \in Targets[s.decl.role]
          BY <1>9, <4>1
        <4>4. m.defs[v].role \in Role /\ h.defs[n].role \in Role
          BY <1>1, <3>2 DEF Declared
        <4>5. h.defs[n].role \in Targets[s.decl.role]
          BY <4>2, <4>3, <4>4, TargetsCompose
        <4> QED
          BY <1>5, <3>2, <4>2, <4>3, <4>5
      <3>3. CASE n \notin DOMAIN h.defs
        BY <1>6, <1>9, <2>1, <3>3
      <3> QED
        BY <3>1, <3>2, <3>3
    <2> QED
      BY <1>5, <2>1 DEF Compatible
  <1>13. Unshared(files, ext)
    <2> SUFFICES ASSUME NEW n \in Names, n \notin DOMAIN files[h.file].defs,
                        ext.defs[n].role = "input",
                        NEW s \in ext.sources[n], NEW t \in ext.sources[n]
                 PROVE  s.module[Len(h.chain) + 1] = t.module[Len(h.chain) + 1]
      BY <1>3, <1>5 DEF Unshared
    <2>1. CASE n \in DOMAIN h.defs
      <3>1. h.defs[n].role = "input"
        BY <1>5, <2>1
      <3>2. \A v \in DOMAIN m.defs : n # T(v)
        BY <1>8, <2>1, <3>1
      <3>3. s \in h.sources[n] /\ t \in h.sources[n]
        BY <1>7, <2>1, <3>2
      <3> QED
        BY <1>1, <2>1, <3>1, <3>3 DEF Unshared
    <2>2. CASE n \notin DOMAIN h.defs
      <3>1. PICK v \in DOMAIN m.defs : ext.sources[n] = m.sources[v]
        BY <1>6, <2>2
      <3> QED
        BY <1>9, <3>1
    <2> QED
      BY <2>1, <2>2
  <1> QED
    BY <1>3, <1>4, <1>10, <1>11, <1>12, <1>13 DEF Sane, ext, item

-------------------------------------------------------------------------------
(* The stack.                                                               *)

(* The frame that imports is linked to the innermost one.                   *)
LEMMA TopFacts ==
  ASSUME IInv
  PROVE  /\ Len(stack) \in Nat /\ Len(stack) > 0
         /\ Sane(files, Top)
         /\ Len(stack) > 1 => Sane(files, Host) /\ Linked(files, Host, Top)
  <1>1. stack \in Seq(Frames(stack)) /\ Len(stack) > 0
    BY DEF IInv, Stacked
  <1>2. Len(stack) \in Nat
    BY <1>1, LenProperties
  <1>3. /\ Len(stack) \in 1..Len(stack)
        /\ Len(stack) > 1 => /\ Len(stack) - 1 \in 1..Len(stack) - 1
                             /\ Len(stack) - 1 \in 1..Len(stack)
                             /\ Len(stack) - 1 + 1 = Len(stack)
    BY <1>1, <1>2
  <1>4. Len(stack) > 1 => Linked(files, stack[Len(stack) - 1], stack[Len(stack) - 1 + 1])
    BY <1>3 DEF IInv, Stacked
  <1> QED
    BY <1>1, <1>2, <1>3, <1>4 DEF IInv, Stacked, Top, Host

(* The innermost frame goes on.                                             *)
LEMMA SkipStacked ==
  ASSUME IInv, Importing,
         stack' = [stack EXCEPT ![Len(stack)].next = @ + 1]
  PROVE  Stacked(files, stack')
  <1> DEFINE on == [Top EXCEPT !.next = @ + 1]
             k == Len(stack)
             t == [stack EXCEPT ![k] = on]
  <1>1. /\ k \in Nat /\ k > 0 /\ Sane(files, Top)
        /\ stack \in Seq(Frames(stack))
        /\ \A n \in 1..k : Sane(files, stack[n])
        /\ \A n \in 1..k - 1 : Linked(files, stack[n], stack[n + 1])
    BY TopFacts DEF IInv, Stacked
  <1>2. Top.next \in 1..Len(Imports(Top.file)) + 1 /\ Top.next <= Len(Imports(Top.file))
    BY <1>1 DEF Sane, Framed, Imports, Importing
  <1>3. Top.next \in 1..Len(files[Top.file].imports)
    BY <1>2 DEF Imports
  <1>4. Sane(files, on) /\ on.file = Top.file /\ on.chain = Top.chain
    BY <1>1, <1>3, AdvancedSane
  <1>5. stack' = t
    BY DEF Top
  <1> HIDE DEF on
  <1>6. /\ t \in Seq(Frames(t)) /\ Len(t) = k
        /\ \A n \in 1..k - 1 : t[n] = stack[n]
        /\ t[k] = on
    BY <1>1, Replaced
  <1> HIDE DEF t
  <1>7. \A n \in 1..Len(t) : Sane(files, t[n])
    BY <1>1, <1>4, <1>6
  <1>8. \A n \in 1..Len(t) - 1 : Linked(files, t[n], t[n + 1])
    <2> TAKE n \in 1..Len(t) - 1
    <2>1. t[n] = stack[n] /\ Linked(files, stack[n], stack[n + 1])
      BY <1>1, <1>6
    <2>2. CASE n = k - 1
      <3>1. t[n + 1] = on /\ stack[n + 1] = Top
        BY <1>1, <1>6, <2>2 DEF Top
      <3> QED
        BY <1>4, <2>1, <3>1 DEF Linked
    <2>3. CASE n # k - 1
      BY <1>1, <1>6, <2>1, <2>3
    <2> QED
      BY <2>2, <2>3
  <1> QED
    BY <1>1, <1>5, <1>6, <1>7, <1>8 DEF Stacked

(* A file is opened.                                                        *)
LEMMA LoadStacked ==
  ASSUME IInv, Load
  PROVE  Stacked(files, stack')
  <1> DEFINE f == Current(Top).file
             new == Opened(f, Here(Top), reported)
             k == Len(stack)
             t == Append(stack, new)
  <1>1. /\ k \in Nat /\ k > 0 /\ Sane(files, Top)
        /\ stack \in Seq(Frames(stack))
        /\ \A n \in 1..k : Sane(files, stack[n])
        /\ \A n \in 1..k - 1 : Linked(files, stack[n], stack[n + 1])
    BY TopFacts DEF IInv, Stacked
  <1>2. /\ Top.next \in 1..Len(Imports(Top.file))
        /\ Top.chain \in Seq(Nat)
    BY <1>1 DEF Sane, Framed, Imports, Load, Locating, Importing
  <1>3. Here(Top) \in Seq(Nat)
    BY <1>2, AppendProperties DEF Here
  <1>4. f \in DOMAIN files /\ ~files[f].broken /\ stack' = t
    BY DEF Load, Locating
  <1>5. Sane(files, new)
    BY <1>3, <1>4, OpenedSane DEF IInv
  <1>6. Linked(files, Top, new)
    BY <1>2 DEF Linked, Opened, Current, Here, Imports
  <1> HIDE DEF new
  <1>7. /\ t \in Seq(Frames(t)) /\ Len(t) = k + 1
        /\ \A n \in 1..k : t[n] = stack[n]
        /\ t[k + 1] = new
    BY <1>1, Pushed
  <1> HIDE DEF t
  <1>8. \A n \in 1..Len(t) : Sane(files, t[n])
    BY <1>1, <1>5, <1>7
  <1>9. \A n \in 1..Len(t) - 1 : Linked(files, t[n], t[n + 1])
    <2> TAKE n \in 1..Len(t) - 1
    <2>1. CASE n = k
      BY <1>1, <1>6, <1>7, <2>1 DEF Top
    <2>2. CASE n # k
      BY <1>1, <1>7, <2>2
    <2> QED
      BY <2>1, <2>2
  <1> QED
    BY <1>1, <1>4, <1>7, <1>8, <1>9 DEF Stacked

(* The innermost program returns to a host that is at the same import.      *)
LEMMA ReturnStacked ==
  ASSUME IInv, Returning, NEW h, Sane(files, h),
         h.file = Host.file, h.chain = Host.chain, h.next = Host.next, Return(h)
  PROVE  Stacked(files, stack')
  <1> DEFINE on == [h EXCEPT !.next = @ + 1]
             k == Len(stack)
             t == Append(SubSeq(stack, 1, k - 2), on)
  <1>1. /\ k \in Nat /\ k > 1
        /\ stack \in Seq(Frames(stack))
        /\ \A n \in 1..k : Sane(files, stack[n])
        /\ \A n \in 1..k - 1 : Linked(files, stack[n], stack[n + 1])
        /\ Linked(files, Host, Top)
    BY TopFacts DEF IInv, Stacked, Returning
  <1>2. h.next \in 1..Len(files[h.file].imports)
    BY <1>1 DEF Linked
  <1>3. Sane(files, on) /\ on.file = Host.file /\ on.chain = Host.chain
    BY <1>2, AdvancedSane
  <1>4. stack' = t
    BY DEF Return
  <1> HIDE DEF on
  <1>5. /\ t \in Seq(Frames(t)) /\ Len(t) = k - 1
        /\ \A n \in 1..k - 2 : t[n] = stack[n]
        /\ t[k - 1] = on
    BY <1>1, Folded
  <1> HIDE DEF t
  <1>6. \A n \in 1..Len(t) : Sane(files, t[n])
    BY <1>1, <1>3, <1>5
  <1>7. \A n \in 1..Len(t) - 1 : Linked(files, t[n], t[n + 1])
    <2> TAKE n \in 1..Len(t) - 1
    <2>1. t[n] = stack[n] /\ Linked(files, stack[n], stack[n + 1])
      BY <1>1, <1>5
    <2>2. CASE n = k - 2
      <3>1. t[n + 1] = on /\ stack[n + 1] = Host
        BY <1>1, <1>5, <2>2 DEF Host
      <3> QED
        BY <1>3, <2>1, <3>1 DEF Linked
    <2>3. CASE n # k - 2
      BY <1>1, <1>5, <2>1, <2>3
    <2> QED
      BY <2>2, <2>3
  <1> QED
    BY <1>1, <1>4, <1>5, <1>6, <1>7 DEF Stacked

-------------------------------------------------------------------------------
(* The invariant.                                                           *)

LEMMA InitIInv == Init => IInv
  <1> SUFFICES ASSUME Init PROVE IInv
    OBVIOUS
  <1>1. Outer
    BY DEF Init, Outer
  <1>2. Main \in DOMAIN files /\ ~files[Main].broken
    BY <1>1, FilesAssumption DEF Outer
  <1>3. Sane(files, Opened(Main, <<>>, {}))
    BY <1>1, <1>2, OpenedSane, EmptySeq
  <1>4. Stacked(files, stack)
    <2> DEFINE fr == Opened(Main, <<>>, {})
    <2>1. stack = <<fr>>
      BY DEF Init
    <2> HIDE DEF fr
    <2>2. Len(stack) = 1 /\ stack[1] = fr /\ stack \in Seq({fr})
      BY <2>1
    <2>3. stack \in Seq(Frames(stack))
      BY <2>2, OfItsElements
    <2>4. \A n \in 1..Len(stack) : Sane(files, stack[n])
      BY <1>3, <2>2 DEF fr
    <2> QED
      BY <2>2, <2>3, <2>4 DEF Stacked
  <1> QED
    BY <1>1, <1>4 DEF IInv

LEMMA ReportOuter ==
  ASSUME Outer, NEW c, NEW kind \in Kind, Report(c, kind), mode = "assembling", UNCHANGED fixed
  PROVE  Outer'
  BY DEF Outer, Report, fixed

LEMMA NextIInv == IInv /\ [Next]_vars => IInv'
  <1> SUFFICES ASSUME IInv, [Next]_vars PROVE IInv'
    OBVIOUS
  <1> USE DEF IInv
  <1> DEFINE Skipped(kind) == Importing /\ Skip(kind)
             Dropped(kind) == Returning /\ Drop(kind)
  <1>1. files' = files /\ Stacked(files, stack') /\ Outer' => IInv'
    OBVIOUS
  <1>2. ASSUME NEW kind \in Kind, Skipped(kind) PROVE IInv'
    <2>1. files' = files /\ Outer'
      BY <1>2, ReportOuter DEF Skip, Importing, fixed
    <2>2. Stacked(files, stack')
      BY <1>2, SkipStacked DEF Skip
    <2> QED
      BY <1>1, <2>1, <2>2
  <1>3. Returning /\ Return(Host) => Stacked(files, stack')
    BY TopFacts, ReturnStacked DEF Returning
  <1>4. ASSUME NEW kind \in Kind, Dropped(kind) PROVE IInv'
    <2>1. files' = files /\ Outer'
      BY <1>4, ReportOuter DEF Drop, Returning, fixed
    <2> QED
      BY <1>1, <1>3, <1>4, <2>1 DEF Drop
  <1>5. ASSUME Binding, Return(Extended(Current(Host), Host, Top))
        PROVE  Stacked(files, stack')
    <2>1. /\ Returning /\ ~Misnamed(Current(Host), DOMAIN Top.defs) /\ ~Clash(Host, Top)
      BY <1>5 DEF Binding, Named, Clean
    <2>2. Sane(files, Host) /\ Sane(files, Top) /\ Linked(files, Host, Top)
      BY <2>1, TopFacts DEF Returning
    <2> DEFINE h == Extended(Current(Host), Host, Top)
    <2>3. Sane(files, h) /\ h.file = Host.file /\ h.chain = Host.chain /\ h.next = Host.next
      BY <2>1, <2>2, ExtendedSane
    <2> HIDE DEF h
    <2>4. Return(h)
      BY <1>5 DEF h
    <2> QED
      BY <2>1, <2>3, <2>4, ReturnStacked
  <1>6. CASE AliasConflict
    BY <1>2, <1>6 DEF AliasConflict, Kind
  <1>7. CASE NotFound
    BY <1>2, <1>7 DEF NotFound, Kind
  <1>8. CASE Circular
    BY <1>2, <1>8 DEF Circular, Locating, Kind
  <1>9. CASE Unreadable
    BY <1>2, <1>9 DEF Unreadable, Locating, Kind
  <1>10. CASE Load
    <2>1. files' = files /\ Outer'
      BY <1>10 DEF Load, Outer, fixed
    <2> QED
      BY <1>1, <1>10, <2>1, LoadStacked
  <1>11. CASE RejectWrites
    BY <1>4, <1>11 DEF RejectWrites, Kind
  <1>12. CASE RejectNested
    <2>1. files' = files /\ Outer'
      BY <1>12 DEF RejectNested, Outer, fixed
    <2> QED
      BY <1>1, <1>3, <1>12, <2>1 DEF RejectNested
  <1>13. CASE RejectNames
    BY <1>4, <1>13 DEF RejectNames, Clean, Kind
  <1>14. CASE RejectBinding
    BY <1>4, <1>14 DEF RejectBinding, Named, Clean, Kind
  <1>15. CASE Merge
    <2>1. files' = files /\ Outer'
      BY <1>15 DEF Merge, Outer, fixed
    <2> QED
      BY <1>1, <1>5, <1>15, <2>1 DEF Merge
  <1>16. CASE MergeReporting
    <2>1. files' = files /\ Outer'
      BY <1>16, ReportOuter DEF MergeReporting, Binding, Named, Clean, Returning, Kind, fixed
    <2> QED
      BY <1>1, <1>5, <1>16, <2>1 DEF MergeReporting
  <1>17. CASE Crash
    <2>1. /\ files' = files /\ entry' = entry /\ collect' = collect /\ stack' = stack
          /\ mode' \in {"crashed", "raised"}
      BY <1>17 DEF Crash, fixed
    <2>2. \A r \in reported' : r.kind \in Kind
      <3>1. \A r \in reported' : r \in reported \/ r.kind = "event"
        BY <1>17 DEF Crash
      <3> QED
        BY <3>1 DEF Outer, Kind
    <2>3. Outer'
      BY <2>1, <2>2 DEF Outer
    <2> QED
      BY <1>1, <2>1, <2>3
  <1>18. CASE Finish
    <2>1. files' = files /\ Outer' /\ stack' = stack
      BY <1>18 DEF Finish, Outer, fixed
    <2> QED
      BY <1>1, <2>1
  <1>19. CASE Over \/ UNCHANGED vars
    <2>1. /\ files' = files /\ entry' = entry /\ collect' = collect
          /\ stack' = stack /\ reported' = reported /\ mode' = mode
      BY <1>19 DEF Over, vars
    <2>2. Outer'
      BY <2>1 DEF Outer
    <2> QED
      BY <1>1, <2>1, <2>2
  <1> QED
    BY <1>6, <1>7, <1>8, <1>9, <1>10, <1>11, <1>12, <1>13, <1>14, <1>15, <1>16, <1>17, <1>18,
       <1>19 DEF Next

THEOREM Invariance == Spec => []IInv
  BY InitIInv, NextIInv, PTL DEF Spec

LEMMA IInvTypeOK == IInv => TypeOK
  <1> SUFFICES ASSUME IInv PROVE TypeOK
    OBVIOUS
  <1>1. ASSUME NEW n \in 1..Len(stack)
        PROVE  /\ stack[n].file \in DOMAIN files /\ ~files[stack[n].file].broken
               /\ stack[n].next \in 1..Len(Imports(stack[n].file)) + 1
               /\ DOMAIN stack[n].sources = DOMAIN stack[n].defs
    <2>1. Sane(files, stack[n])
      BY DEF IInv, Stacked
    <2> QED
      BY <2>1 DEF Sane, Framed, Declared, Imports
  <1>2. ASSUME NEW n \in 1..Len(stack) - 1
        PROVE  /\ stack[n].next <= Len(Imports(stack[n].file))
               /\ stack[n + 1].file = Current(stack[n]).file
               /\ stack[n + 1].chain = Here(stack[n])
    <2>1. Len(stack) \in Nat /\ Linked(files, stack[n], stack[n + 1])
      BY TopFacts DEF IInv, Stacked
    <2>2. n \in 1..Len(stack) /\ stack[n].next \in 1..Len(files[stack[n].file].imports)
      BY <2>1 DEF Linked
    <2>3. stack[n].next \in Nat /\ Len(files[stack[n].file].imports) \in Nat
      <3>1. stack[n].file \in DOMAIN files /\ files \in FileSystems
        BY <1>1, <2>2 DEF IInv, Outer
      <3> QED
        BY <2>2, <3>1, FilesAssumption
    <2> QED
      BY <2>1, <2>2, <2>3 DEF Linked, Imports, Current, Here
  <1>3. Outer /\ Len(stack) > 0
    BY DEF IInv, Stacked
  <1> QED
    BY <1>1, <1>2, <1>3 DEF TypeOK, Outer

(* The frames stay programs that could be read, linked by their imports,    *)
(* with the declarations behind every variable.                             *)
THEOREM TypeCorrect == Spec => []TypeOK
  BY Invariance, IInvTypeOK, PTL

LEMMA IInvBindings == IInv => BindingsAreSound
  <1> SUFFICES ASSUME IInv, NEW n \in 1..Len(stack), NEW v \in DOMAIN stack[n].defs
               PROVE  LET frame == stack[n]
                      IN  /\ v \in Explicit(frame) => frame.defs[v] = files[frame.file].defs[v]
                          /\ \A s \in frame.sources[v] :
                               /\ frame.defs[v].type = s.decl.type
                               /\ frame.defs[v].role \in Targets[s.decl.role]
                          /\ v \notin Explicit(frame) /\ frame.defs[v].role = "input" =>
                               \A s, t \in frame.sources[v] :
                                 s.module[Len(frame.chain) + 1] = t.module[Len(frame.chain) + 1]
    BY DEF BindingsAreSound
  <1>1. Sane(files, stack[n])
    BY DEF IInv, Stacked
  <1> QED
    BY <1>1 DEF Sane, Kept, Compatible, Unshared, Explicit

(* However deep and in whatever order modules are imported, what is bound   *)
(* to one variable agrees in type, may have its role, leaves a declaration  *)
(* of the host alone and does not share an input behind its back.           *)
THEOREM BindingsSound == Spec => []BindingsAreSound
  BY Invariance, IInvBindings, PTL

-------------------------------------------------------------------------------
(* Numbers and sequences.                                                   *)

(* A set of numbers that is not empty has a least one.                      *)
LEMMA LeastNumber ==
  ASSUME NEW T \in SUBSET Nat, T # {}
  PROVE  \E n \in T : \A m \in T : n <= m
  <1> DEFINE R == {p \in Nat \X Nat : p[1] < p[2]}
  <1>1. IsWellFoundedOn(R, Nat)
    BY NatLessThanWellFounded DEF OpToRel
  <1>2. PICK n \in T : \A m \in T : <<m, n>> \notin R
    BY <1>1, WFMin
  <1>3. \A m \in T : ~(m < n)
    BY <1>2
  <1> QED
    BY <1>2, <1>3

(* A set of numbers below a bound that is not empty has a greatest one.     *)
LEMMA GreatestNumber ==
  ASSUME NEW b \in Nat, NEW T \in SUBSET (0..b), T # {}
  PROVE  \E n \in T : \A m \in T : m <= n
  <1> DEFINE U == {b - m : m \in T}
  <1>1. U \in SUBSET Nat /\ U # {}
    <2>1. \A m \in T : m \in 0..b /\ b - m \in Nat
      OBVIOUS
    <2> QED
      BY <2>1
  <1>2. PICK u \in U : \A v \in U : u <= v
    BY <1>1, LeastNumber
  <1>3. PICK n \in T : u = b - n
    BY <1>2
  <1>4. \A m \in T : b - m \in U /\ m \in 0..b
    OBVIOUS
  <1>5. \A m \in T : b - n <= b - m
    BY <1>2, <1>3, <1>4
  <1>6. \A m \in T : m <= n
    BY <1>3, <1>4, <1>5
  <1> QED
    BY <1>3, <1>6

(* The first numbers of a chain.                                            *)
LEMMA PrefixFacts ==
  ASSUME NEW c \in Seq(Nat), NEW n \in 0..Len(c)
  PROVE  /\ Prefix(c, n) \in Seq(Nat) /\ Len(Prefix(c, n)) = n /\ n \in Nat
         /\ \A i \in 1..n : Prefix(c, n)[i] = c[i]
  <1>1. Len(c) \in Nat /\ \A i \in 1..Len(c) : c[i] \in Nat
    BY LenProperties, ElementOfSeq
  <1>2. \A i \in 1..n : c[i] \in Nat
    BY <1>1
  <1>3. n \in Int /\ n \in Nat /\ 1 \in Int
    BY <1>1
  <1>4. /\ SubSeq(c, 1, n) \in Seq(Nat)
        /\ Len(SubSeq(c, 1, n)) = IF 1 <= n THEN n - 1 + 1 ELSE 0
        /\ \A i \in 1..n - 1 + 1 : SubSeq(c, 1, n)[i] = c[1 + i - 1]
    BY <1>2, <1>3, SubSeqProperties
  <1>5. n - 1 + 1 = n /\ \A i \in 1..n : 1 + i - 1 = i
    BY <1>3
  <1> QED
    BY <1>3, <1>4, <1>5 DEF Prefix

(* A chain is given by its length and its numbers.                          *)
LEMMA SameChain ==
  ASSUME NEW c \in Seq(Nat), NEW d \in Seq(Nat), Len(c) = Len(d),
         \A i \in 1..Len(c) : c[i] = d[i]
  PROVE  c = d
  BY SeqEqual

LEMMA PrefixOfPrefix ==
  ASSUME NEW c \in Seq(Nat), NEW n \in 0..Len(c), NEW m \in 0..n
  PROVE  Prefix(Prefix(c, n), m) = Prefix(c, m)
  <1> DEFINE p == Prefix(c, n)
  <1>1. Len(c) \in Nat
    BY LenProperties
  <1>2. p \in Seq(Nat) /\ Len(p) = n /\ \A i \in 1..n : p[i] = c[i]
    BY PrefixFacts
  <1> HIDE DEF p
  <1>3. /\ Prefix(p, m) \in Seq(Nat) /\ Len(Prefix(p, m)) = m
        /\ \A i \in 1..m : Prefix(p, m)[i] = p[i]
    BY <1>2, PrefixFacts
  <1>4. m \in 0..Len(c)
    BY <1>1
  <1>5. /\ Prefix(c, m) \in Seq(Nat) /\ Len(Prefix(c, m)) = m
        /\ \A i \in 1..m : Prefix(c, m)[i] = c[i]
    BY <1>4, PrefixFacts
  <1>6. \A i \in 1..m : Prefix(p, m)[i] = Prefix(c, m)[i]
    <2> TAKE i \in 1..m
    <2>1. i \in 1..n
      BY <1>1
    <2> QED
      BY <1>2, <1>3, <1>5, <2>1
  <1>7. Prefix(p, m) = Prefix(c, m)
    BY <1>3, <1>5, <1>6, SameChain
  <1> QED
    BY <1>7 DEF p

LEMMA WholePrefix ==
  ASSUME NEW c \in Seq(Nat)
  PROVE  Prefix(c, Len(c)) = c /\ Prefix(c, 0) = <<>>
  <1>1. Len(c) \in Nat
    BY LenProperties
  <1>2. Len(c) \in 0..Len(c) /\ 0 \in 0..Len(c)
    BY <1>1
  <1>3. Prefix(c, Len(c)) = c
    BY <1>2, PrefixFacts, SameChain
  <1>4. Prefix(c, 0) = <<>>
    BY SubSeqEmpty DEF Prefix
  <1> QED
    BY <1>3, <1>4

(* One import more.                                                         *)
LEMMA LongerChain ==
  ASSUME NEW c \in Seq(Nat), NEW k \in Nat
  PROVE  /\ Append(c, k) \in Seq(Nat) /\ Append(c, k) # <<>>
         /\ Len(c) \in Nat /\ Len(Append(c, k)) = Len(c) + 1
         /\ \A i \in 1..Len(c) : Append(c, k)[i] = c[i]
         /\ Append(c, k)[Len(c) + 1] = k
         /\ Prefix(Append(c, k), Len(c)) = c
         /\ Front(Append(c, k)) = c /\ Last(Append(c, k)) = k
         /\ \A m \in 0..Len(c) : Prefix(Append(c, k), m) = Prefix(c, m)
  <1> DEFINE d == Append(c, k)
             n == Len(c)
  <1>1. /\ d \in Seq(Nat) /\ d # <<>> /\ Len(d) = n + 1
        /\ \A i \in 1..n : d[i] = c[i]
        /\ d[n + 1] = k
    BY AppendProperties
  <1>2. n \in Nat
    BY LenProperties
  <1> HIDE DEF d
  <1>3. n \in 0..Len(d) /\ n + 1 - 1 = n /\ Len(d) - 1 = n
    BY <1>1, <1>2
  <1>4. /\ Prefix(d, n) \in Seq(Nat) /\ Len(Prefix(d, n)) = n
        /\ \A i \in 1..n : Prefix(d, n)[i] = d[i]
    BY <1>1, <1>3, PrefixFacts
  <1>5. Prefix(d, n) = c
    BY <1>1, <1>4, SameChain
  <1>6. Front(d) = c
    BY <1>3, <1>5 DEF Front, Prefix
  <1>7. Last(d) = k
    BY <1>1 DEF Last
  <1>8. \A m \in 0..n : Prefix(d, m) = Prefix(c, m)
    BY <1>1, <1>3, <1>5, PrefixOfPrefix
  <1> HIDE DEF n
  <1>9. /\ d \in Seq(Nat) /\ d # <<>>
        /\ n \in Nat /\ Len(d) = n + 1
        /\ \A i \in 1..n : d[i] = c[i]
        /\ d[n + 1] = k
        /\ Prefix(d, n) = c
        /\ Front(d) = c /\ Last(d) = k
        /\ \A m \in 0..n : Prefix(d, m) = Prefix(c, m)
    BY <1>1, <1>2, <1>5, <1>6, <1>7, <1>8
  <1> QED
    BY <1>9 DEF d, n

(* A chain that is not empty is one import more than its front.             *)
LEMMA FrontFacts ==
  ASSUME NEW c \in Seq(Nat), Len(c) > 0
  PROVE  /\ Front(c) \in Seq(Nat) /\ Last(c) \in Nat
         /\ c = Append(Front(c), Last(c))
         /\ Front(c) = Prefix(c, Len(c) - 1)
         /\ Len(Front(c)) = Len(c) - 1
  <1> DEFINE n == Len(c) - 1
             p == Front(c)
  <1>1. Len(c) \in Nat /\ n \in 0..Len(c) /\ n \in Nat /\ Len(c) = n + 1 /\ Len(c) \in 1..Len(c)
    BY LenProperties
  <1>2. p = Prefix(c, n)
    BY DEF Front, Prefix
  <1>3. p \in Seq(Nat) /\ Len(p) = n /\ \A i \in 1..n : p[i] = c[i]
    BY <1>1, <1>2, PrefixFacts
  <1>4. Last(c) = c[Len(c)] /\ Last(c) \in Nat
    BY <1>1, ElementOfSeq DEF Last
  <1> HIDE DEF p, n
  <1> DEFINE d == Append(p, Last(c))
  <1>5. /\ d \in Seq(Nat) /\ Len(d) = n + 1 /\ \A i \in 1..n : d[i] = p[i]
        /\ d[n + 1] = Last(c)
    BY <1>3, <1>4, LongerChain
  <1> HIDE DEF d
  <1>6. \A i \in 1..Len(c) : c[i] = d[i]
    <2> TAKE i \in 1..Len(c)
    <2>1. CASE i = n + 1
      BY <1>1, <1>4, <1>5, <2>1
    <2>2. CASE i # n + 1
      <3>1. i \in 1..n
        BY <1>1, <2>2
      <3> QED
        BY <1>3, <1>5, <3>1
    <2> QED
      BY <2>1, <2>2
  <1>7. c = d
    BY <1>1, <1>5, <1>6, SameChain
  <1> QED
    BY <1>1, <1>2, <1>3, <1>4, <1>7 DEF d, p, n

(* Being a prefix, number by number.                                        *)
LEMMA PrefixMeans ==
  ASSUME NEW c \in Seq(Nat), NEW d \in Seq(Nat)
  PROVE  /\ IsPrefix(c, d) <=> Len(c) <= Len(d) /\ Prefix(d, Len(c)) = c
         /\ IsPrefix(c, d) <=> Len(c) <= Len(d) /\ \A i \in 1..Len(c) : c[i] = d[i]
  <1>1. Len(c) \in Nat /\ Len(d) \in Nat
    BY LenProperties
  <1>2. SubSeq(c, 1, Len(c)) = c
    BY SubSeqFull
  <1>3. IsPrefix(c, d) <=> Len(c) <= Len(d) /\ Prefix(d, Len(c)) = c
    BY <1>2, Zenon DEF IsPrefix, Prefix
  <1>4. ASSUME Len(c) <= Len(d)
        PROVE  Prefix(d, Len(c)) = c <=> \A i \in 1..Len(c) : c[i] = d[i]
    <2> DEFINE p == Prefix(d, Len(c))
    <2>1. Len(c) \in 0..Len(d)
      BY <1>1, <1>4
    <2>2. p \in Seq(Nat) /\ Len(p) = Len(c) /\ \A i \in 1..Len(c) : p[i] = d[i]
      BY <2>1, PrefixFacts
    <2> HIDE DEF p
    <2>3. (\A i \in 1..Len(c) : c[i] = d[i]) => p = c
      BY <2>2, SameChain
    <2>4. p = c => \A i \in 1..Len(c) : c[i] = d[i]
      BY <2>2
    <2> QED
      BY <2>3, <2>4 DEF p
  <1> QED
    BY <1>3, <1>4

-------------------------------------------------------------------------------
(* Recursive functions over chains.                                         *)

(* g[i] is the file the first i imports of c lead to, for i up to n.        *)
Walk(c, n, g) ==
  g = [i \in 0..n |-> IF i = 0 THEN Main ELSE Imports(g[i - 1])[c[i]].file]

LEMMA WalkExists ==
  ASSUME NEW c, NEW n \in Nat
  PROVE  \E g : Walk(c, n, g)
  <1> DEFINE T == {k \in Nat : ~ \E g : Walk(c, k, g)}
  <1>1. ASSUME T # {} PROVE FALSE
    <2>1. T \in SUBSET Nat
      OBVIOUS
    <2>2. PICK k \in T : \A l \in T : k <= l
      BY <1>1, <2>1, LeastNumber
    <2>3. CASE k = 0
      <3> DEFINE g == [i \in 0..0 |-> Main]
      <3>1. 0..0 = {0}
        OBVIOUS
      <3>2. Walk(c, 0, g)
        BY <3>1 DEF Walk
      <3> QED
        BY <2>2, <2>3, <3>2
    <2>4. CASE k # 0
      <3>1. k - 1 \in Nat /\ k - 1 \notin T
        BY <2>2, <2>4
      <3>2. PICK g : Walk(c, k - 1, g)
        BY <3>1
      <3> DEFINE h == [i \in 0..k |-> IF i = k THEN Imports(g[k - 1])[c[k]].file ELSE g[i]]
      <3>3. \A i \in 0..(k - 1) : g[i] = IF i = 0 THEN Main ELSE Imports(g[i - 1])[c[i]].file
        BY <3>2 DEF Walk
      <3>4. \A i \in 0..k : h[i] = IF i = 0 THEN Main ELSE Imports(h[i - 1])[c[i]].file
        <4> TAKE i \in 0..k
        <4>1. CASE i = k
          <5>1. k - 1 \in 0..k /\ k - 1 # k /\ k \in 0..k
            BY <3>1, <2>2
          <5>2. h[k - 1] = g[k - 1] /\ h[k] = Imports(g[k - 1])[c[k]].file
            BY <5>1
          <5> HIDE DEF h
          <5> QED
            BY <2>4, <4>1, <5>2
        <4>2. CASE i # k
          <5>1. i \in 0..(k - 1)
            BY <2>2, <4>2
          <5>2. h[i] = g[i]
            BY <4>2
          <5>3. i # 0 => i - 1 \in 0..k /\ i - 1 # k
            BY <2>2, <5>1
          <5>4. i # 0 => h[i - 1] = g[i - 1]
            BY <5>3
          <5> HIDE DEF h
          <5> QED
            BY <3>3, <5>1, <5>2, <5>4
        <4> QED
          BY <4>1, <4>2
      <3>5. h = [i \in 0..k |-> h[i]]
        OBVIOUS
      <3> HIDE DEF h
      <3>6. Walk(c, k, h)
        BY <3>4, <3>5 DEF Walk
      <3> QED
        BY <2>2, <3>6
    <2> QED
      BY <2>3, <2>4
  <1> QED
    BY <1>1

(* Where the chains agree, so do the files.                                 *)
LEMMA WalksAgree ==
  ASSUME NEW a, NEW b, NEW n \in Nat, NEW k \in Nat, n <= k, NEW g, NEW h,
         Walk(a, n, g), Walk(b, k, h), \A i \in 1..n : a[i] = b[i]
  PROVE  g[n] = h[n]
  <1> DEFINE T == {i \in 0..n : g[i] # h[i]}
  <1>1. /\ \A i \in 0..n : g[i] = IF i = 0 THEN Main ELSE Imports(g[i - 1])[a[i]].file
        /\ \A i \in 0..k : h[i] = IF i = 0 THEN Main ELSE Imports(h[i - 1])[b[i]].file
    BY DEF Walk
  <1>2. ASSUME T # {} PROVE FALSE
    <2>1. T \in SUBSET Nat
      OBVIOUS
    <2>2. PICK i \in T : \A l \in T : i <= l
      BY <1>2, <2>1, LeastNumber
    <2>3. i \in 0..k /\ i \in 0..n
      BY <2>2
    <2>4. CASE i = 0
      BY <1>1, <2>2, <2>3, <2>4
    <2>5. CASE i # 0
      <3>1. i - 1 \in 0..n /\ i - 1 \notin T /\ i \in 1..n
        BY <2>2, <2>3, <2>5
      <3>2. g[i - 1] = h[i - 1] /\ a[i] = b[i]
        BY <3>1
      <3>3. g[i] = Imports(g[i - 1])[a[i]].file /\ h[i] = Imports(h[i - 1])[b[i]].file
        BY <1>1, <2>3, <2>5
      <3> QED
        BY <2>2, <3>2, <3>3
    <2> QED
      BY <2>4, <2>5
  <1>3. n \in 0..n /\ n \notin T
    BY <1>2
  <1> QED
    BY <1>3

LEMMA FileOfWalks ==
  ASSUME NEW c, Len(c) \in Nat
  PROVE  \E g : Walk(c, Len(c), g) /\ FileOf(c) = g[Len(c)]
  <1> DEFINE g == CHOOSE f : f = [n \in 0..Len(c) |-> IF n = 0 THEN Main ELSE Imports(f[n - 1])[c[n]].file]
  <1>1. \E f : f = [n \in 0..Len(c) |-> IF n = 0 THEN Main ELSE Imports(f[n - 1])[c[n]].file]
    <2>1. PICK f : Walk(c, Len(c), f)
      BY WalkExists
    <2>2. f = [n \in 0..Len(c) |-> IF n = 0 THEN Main ELSE Imports(f[n - 1])[c[n]].file]
      BY <2>1, Zenon DEF Walk
    <2> QED
      BY <2>2, Zenon
  <1>2. g = [n \in 0..Len(c) |-> IF n = 0 THEN Main ELSE Imports(g[n - 1])[c[n]].file]
    BY <1>1, Zenon
  <1>3. FileOf(c) = g[Len(c)]
    BY Zenon DEF FileOf
  <1> HIDE DEF g
  <1> QED
    BY <1>2, <1>3 DEF Walk

(* The file of a chain is what its last import says.                        *)
LEMMA FileOfGrows ==
  ASSUME NEW c \in Seq(Nat), NEW k \in Nat
  PROVE  /\ FileOf(<<>>) = Main
         /\ FileOf(Append(c, k)) = Imports(FileOf(c))[k].file
         /\ Import(Append(c, k)) = Imports(FileOf(c))[k]
  <1> DEFINE d == Append(c, k)
             n == Len(c)
  <1>1. n \in Nat /\ Len(d) = n + 1 /\ d[n + 1] = k /\ \A i \in 1..n : d[i] = c[i]
    BY LongerChain
  <1>2. FileOf(<<>>) = Main
    <2>1. Len(<<>>) = 0
      BY EmptySeq
    <2>2. PICK g : Walk(<<>>, 0, g) /\ FileOf(<<>>) = g[0]
      BY <2>1, FileOfWalks
    <2>3. 0 \in 0..0
      OBVIOUS
    <2> QED
      BY <2>2, <2>3 DEF Walk
  <1>3. Front(d) = c /\ Last(d) = k
    BY LongerChain
  <1> HIDE DEF d, n
  <1>4. PICK g : Walk(c, n, g) /\ FileOf(c) = g[n]
    BY <1>1, FileOfWalks DEF n
  <1>5. PICK h : Walk(d, n + 1, h) /\ FileOf(d) = h[n + 1]
    BY <1>1, FileOfWalks
  <1>6. g[n] = h[n]
    <2>1. n + 1 \in Nat /\ n <= n + 1
      BY <1>1
    <2>2. \A i \in 1..n : c[i] = d[i]
      BY <1>1
    <2> QED
      BY ONLY <1>1, <2>1, <2>2, <1>4, <1>5, WalksAgree
  <1>7. h[n + 1] = Imports(h[n])[d[n + 1]].file
    <2> DEFINE m == n + 1
    <2>1. m \in 0..m /\ m # 0 /\ m - 1 = n
      BY <1>1
    <2>2. Walk(d, m, h)
      BY <1>5
    <2> HIDE DEF m
    <2>3. \A i \in 0..m : h[i] = IF i = 0 THEN Main ELSE Imports(h[i - 1])[d[i]].file
      BY ONLY <2>2 DEF Walk
    <2>4. h[m] = Imports(h[m - 1])[d[m]].file
      BY ONLY <2>1, <2>3
    <2> QED
      BY <2>1, <2>4 DEF m
  <1>8. FileOf(d) = Imports(FileOf(c))[k].file
    BY <1>1, <1>4, <1>5, <1>6, <1>7
  <1>9. Import(d) = Imports(FileOf(c))[k]
    BY <1>3 DEF Import
  <1> QED
    BY <1>2, <1>8, <1>9 DEF d

(* An event one level further up.                                           *)
Lifted(item, q) ==
  IF q \in DOMAIN item.events THEN EventTarget(item, q) ELSE Instance(item) \o q

(* g[i] is the event p of c at its first i imports, for i from m.           *)
Climb(c, p, m, g) ==
  g = [i \in m..Len(c) |-> IF i = Len(c) THEN p ELSE Lifted(Import(Prefix(c, i + 1)), g[i + 1])]

LEMMA ClimbExists ==
  ASSUME NEW c, Len(c) \in Nat, NEW p
  PROVE  \E g : Climb(c, p, 0, g)
  <1> DEFINE b == Len(c)
             Up(i, q) == Lifted(Import(Prefix(c, i + 1)), q)
             T == {k \in 0..b : ~ \E g : Climb(c, p, b - k, g)}
  <1>1. ASSUME T # {} PROVE FALSE
    <2>1. T \in SUBSET Nat
      OBVIOUS
    <2>2. PICK k \in T : \A l \in T : k <= l
      BY <1>1, <2>1, LeastNumber
    <2>3. CASE k = 0
      <3> DEFINE g == [i \in b..b |-> p]
      <3>1. b..b = {b} /\ b - 0 = b
        OBVIOUS
      <3>2. Climb(c, p, b, g)
        BY <3>1 DEF Climb
      <3> QED
        BY <2>2, <2>3, <3>1, <3>2
    <2>4. CASE k # 0
      <3> DEFINE m == b - k
      <3>1. k - 1 \in 0..b /\ k - 1 \notin T /\ b - (k - 1) = m + 1 /\ m \in 0..b - 1
        BY <2>2, <2>4
      <3>2. PICK g : Climb(c, p, m + 1, g)
        BY <3>1
      <3>3. \A i \in m + 1..b : g[i] = IF i = b THEN p ELSE Up(i, g[i + 1])
        BY <3>2 DEF Climb
      <3> HIDE DEF Up, b, m
      <3> DEFINE h == [i \in m..b |-> IF i = m THEN Up(m, g[m + 1]) ELSE g[i]]
      <3>4. b \in Nat /\ m \in Nat /\ m # b /\ m \in m..b /\ m + 1 \in m..b /\ m + 1 # m
        BY <3>1 DEF b
      <3>5. h[m] = Up(m, g[m + 1]) /\ h[m + 1] = g[m + 1]
        BY <3>4
      <3>6. \A i \in m + 1..b : h[i] = g[i] /\ (i # b => h[i + 1] = g[i + 1])
        <4> TAKE i \in m + 1..b
        <4>1. i \in m..b /\ i # m /\ (i # b => i + 1 \in m..b /\ i + 1 # m)
          BY <3>4
        <4> QED
          BY <4>1
      <3>7. h = [i \in m..b |-> h[i]]
        OBVIOUS
      <3> HIDE DEF h
      <3>8. \A i \in m..b : h[i] = IF i = b THEN p ELSE Up(i, h[i + 1])
        <4> TAKE i \in m..b
        <4>1. CASE i = m
          BY <3>4, <3>5, <4>1
        <4>2. CASE i # m
          <5>1. i \in m + 1..b
            BY <3>4, <4>2
          <5> QED
            BY <3>3, <3>6, <5>1
        <4> QED
          BY <4>1, <4>2
      <3>9. Climb(c, p, m, h)
        BY <3>7, <3>8 DEF Climb, Up, b
      <3> QED
        BY <2>2, <3>9 DEF m
    <2> QED
      BY <2>3, <2>4
  <1>2. b \in 0..b /\ b - b = 0 /\ b \notin T
    BY <1>1
  <1> QED
    BY <1>2

(* What an event means, one import at a time.                               *)
LEMMA MeaningFacts ==
  ASSUME NEW c, Len(c) \in Nat, NEW p
  PROVE  /\ Meaning(c, p)[Len(c)] = p
         /\ \A n \in 0..Len(c) - 1 :
              Meaning(c, p)[n] = Lifted(Import(Prefix(c, n + 1)), Meaning(c, p)[n + 1])
  <1> DEFINE Step(f) == [n \in 0..Len(c) |->
                           IF n = Len(c) THEN p
                           ELSE LET item == Import(Prefix(c, n + 1))
                                IN  IF f[n + 1] \in DOMAIN item.events
                                      THEN EventTarget(item, f[n + 1])
                                      ELSE Instance(item) \o f[n + 1]]
             g == CHOOSE f : f = Step(f)
  <1>1. \E f : f = Step(f)
    <2>1. PICK f : Climb(c, p, 0, f)
      BY ClimbExists
    <2>2. f = Step(f)
      BY <2>1, Zenon DEF Climb, Lifted
    <2> QED
      BY <2>2, Zenon
  <1>2. g = Step(g)
    BY <1>1, Zenon
  <1>3. Meaning(c, p) = [n \in 0..Len(c) |-> g[n]]
    BY Zenon DEF Meaning
  <1> HIDE DEF g
  <1>4. \A n \in 0..Len(c) : g[n] = IF n = Len(c) THEN p ELSE Lifted(Import(Prefix(c, n + 1)), g[n + 1])
    BY <1>2, Zenon DEF Lifted
  <1>5. \A n \in 0..Len(c) : Meaning(c, p)[n] = g[n]
    BY <1>3
  <1>6. Len(c) \in 0..Len(c) /\ \A n \in 0..Len(c) - 1 : n \in 0..Len(c) /\ n + 1 \in 0..Len(c) /\ n # Len(c)
    OBVIOUS
  <1> QED
    BY <1>4, <1>5, <1>6, Zenon

(* The files and the entry do not change, and nothing that follows from     *)
(* them does.                                                               *)
LEMMA SameMeaning ==
  ASSUME files' = files
  PROVE  /\ \A c : FileOf(c)' = FileOf(c)
         /\ \A c : Import(c)' = Import(c)
         /\ \A c, p : Meaning(c, p)' = Meaning(c, p)
  <1>1. \A c : FileOf(c)' = FileOf(c)
    BY SMT DEF FileOf, Imports
  <1>2. \A c : Import(c)' = Import(c)
    BY SMT DEF FileOf, Imports, Import
  <1>3. \A c, p : Meaning(c, p)' = Meaning(c, p)
    BY SMT DEF FileOf, Imports, Import, Meaning
  <1> QED
    BY <1>1, <1>2, <1>3

-------------------------------------------------------------------------------
(* What a step makes of the stack.                                          *)

(* The stack is cut or extended to m programs, the last of which is e.      *)
Shape(m, e) ==
  Len(stack') = m /\ (\A n \in 1..m - 1 : stack'[n] = stack[n]) /\ stack'[m] = e

GoesOn(fr) == [fr EXCEPT !.next = @ + 1]

LEMMA GoesOnFields ==
  ASSUME NEW fs, NEW fr, Framed(fs, fr)
  PROVE  LET on == GoesOn(fr)
         IN  /\ on.file = fr.file /\ on.chain = fr.chain /\ on.next = fr.next + 1
             /\ on.since = fr.since /\ on.defs = fr.defs /\ on.sources = fr.sources
             /\ on.writes = fr.writes /\ on.refs = fr.refs /\ on.grafts = fr.grafts
             /\ on.kept = fr.kept
  BY DEF Framed, GoesOn

LEMMA SkipShape ==
  ASSUME IInv, stack' = [stack EXCEPT ![Len(stack)].next = @ + 1]
  PROVE  Shape(Len(stack), GoesOn(Top))
  <1> DEFINE on == GoesOn(Top)
             t == [stack EXCEPT ![Len(stack)] = on]
  <1>1. stack \in Seq(Frames(stack)) /\ Len(stack) > 0
    BY DEF IInv, Stacked
  <1>2. stack' = t
    BY DEF GoesOn, Top
  <1> HIDE DEF on
  <1>3. Len(t) = Len(stack) /\ (\A n \in 1..Len(stack) - 1 : t[n] = stack[n]) /\ t[Len(stack)] = on
    BY <1>1, Replaced
  <1> QED
    BY <1>2, <1>3 DEF Shape, on

LEMMA LoadShape ==
  ASSUME IInv, NEW e, stack' = Append(stack, e)
  PROVE  Shape(Len(stack) + 1, e)
  <1> DEFINE t == Append(stack, e)
  <1>1. stack \in Seq(Frames(stack))
    BY DEF IInv, Stacked
  <1>2. /\ Len(stack) \in Nat /\ Len(t) = Len(stack) + 1
        /\ \A n \in 1..Len(stack) : t[n] = stack[n]
        /\ t[Len(stack) + 1] = e
    BY <1>1, Pushed
  <1>3. Len(stack) + 1 - 1 = Len(stack)
    BY <1>2
  <1> HIDE DEF t
  <1> QED
    BY <1>2, <1>3 DEF Shape, t

LEMMA ReturnShape ==
  ASSUME IInv, Len(stack) > 1, NEW h, Return(h)
  PROVE  Shape(Len(stack) - 1, GoesOn(h))
  <1> DEFINE on == GoesOn(h)
             t == Append(SubSeq(stack, 1, Len(stack) - 2), on)
  <1>1. stack \in Seq(Frames(stack))
    BY DEF IInv, Stacked
  <1>2. stack' = t
    BY DEF Return, GoesOn
  <1> HIDE DEF on
  <1>3. /\ Len(stack) \in Nat /\ Len(t) = Len(stack) - 1
        /\ \A n \in 1..Len(stack) - 2 : t[n] = stack[n]
        /\ t[Len(stack) - 1] = on
    BY <1>1, Folded
  <1>4. Len(stack) - 1 - 1 = Len(stack) - 2
    BY <1>3
  <1> HIDE DEF t
  <1> QED
    BY <1>2, <1>3, <1>4 DEF Shape, on

(* A program that takes over another, field by field.                       *)
LEMMA ExtendedFields ==
  ASSUME NEW h, Framed(files, h), NEW m, NEW item
  PROVE  LET ext == Extended(item, h, m)
         IN  /\ Framed(files, ext)
             /\ ext.file = h.file /\ ext.chain = h.chain /\ ext.next = h.next /\ ext.since = h.since
             /\ ext.defs = MergedDefs(item, h, m) /\ ext.sources = MergedSources(item, h, m)
             /\ ext.writes = h.writes \cup {IF v \in DOMAIN m.defs THEN Target(item, v) ELSE v :
                                              v \in m.writes}
             /\ ext.refs = h.refs \cup RewrittenRefs(item, m)
             /\ ext.grafts = h.grafts \cup Grafted(item, m)
             /\ ext.kept = h.kept \cup m.kept \cup {m.chain}
  <1> DEFINE ext == Extended(item, h, m)
             d == MergedDefs(item, h, m)
             s == MergedSources(item, h, m)
             w == h.writes \cup {IF v \in DOMAIN m.defs THEN Target(item, v) ELSE v : v \in m.writes}
             r == h.refs \cup RewrittenRefs(item, m)
             g == h.grafts \cup Grafted(item, m)
             k == h.kept \cup m.kept \cup {m.chain}
             all == [file |-> h.file, chain |-> h.chain, next |-> h.next, since |-> h.since,
                     defs |-> d, sources |-> s, writes |-> w, refs |-> r, grafts |-> g, kept |-> k]
  <1>1. h = [file |-> h.file, chain |-> h.chain, next |-> h.next, since |-> h.since,
             defs |-> h.defs, sources |-> h.sources, writes |-> h.writes,
             refs |-> h.refs, grafts |-> h.grafts, kept |-> h.kept]
    BY DEF Framed
  <1>2. ext = [h EXCEPT !.defs = d, !.sources = s, !.writes = w, !.refs = r, !.grafts = g, !.kept = k]
    BY Zenon DEF Extended
  <1> HIDE DEF d, s, w, r, g, k, ext
  <1>3. ext = all
    BY <1>1, <1>2, UpdatedFrame, Zenon
  <1>4. /\ ext.file = h.file /\ ext.chain = h.chain /\ ext.next = h.next /\ ext.since = h.since
        /\ ext.defs = d /\ ext.sources = s /\ ext.writes = w
        /\ ext.refs = r /\ ext.grafts = g /\ ext.kept = k
    BY <1>3
  <1>5. Framed(files, ext)
    BY <1>3, <1>4 DEF Framed
  <1> QED
    BY <1>4, <1>5 DEF ext, d, s, w, r, g, k

(* Every step is one of six kinds.                                          *)
Passes(kind) == Importing /\ Skip(kind)
Drops == Returning /\ (RejectNested \/ \E kind \in Kind \ {"event"} : Drop(kind))
Takes == Binding /\ (Merge \/ MergeReporting)
Stays == UNCHANGED <<fixed, stack, reported>> /\ (mode' = mode \/ (mode = "assembling" /\ mode' = "done"))

LEMMA StepKinds ==
  ASSUME [Next]_vars
  PROVE  \/ \E kind \in Kind \ {"event"} : Passes(kind)
         \/ Load \/ Drops \/ Takes \/ Crash \/ Stays
  <1>1. "alias" \in Kind \ {"event"} /\ "not found" \in Kind \ {"event"}
        /\ "circular" \in Kind \ {"event"} /\ "unreadable" \in Kind \ {"event"}
        /\ "readonly" \in Kind \ {"event"} /\ "variable" \in Kind \ {"event"}
        /\ "binding" \in Kind \ {"event"}
    BY DEF Kind
  <1>2. AliasConflict => Passes("alias")
    BY DEF AliasConflict, Passes
  <1>3. NotFound => Passes("not found")
    BY DEF NotFound, Passes
  <1>4. Circular => Passes("circular")
    BY DEF Circular, Locating, Passes
  <1>5. Unreadable => Passes("unreadable")
    BY DEF Unreadable, Locating, Passes
  <1>6. RejectWrites => Returning /\ Drop("readonly")
    BY DEF RejectWrites
  <1>7. RejectNested => Returning
    BY DEF RejectNested
  <1>8. RejectNames => Returning /\ Drop("variable")
    BY DEF RejectNames, Clean
  <1>9. RejectBinding => Returning /\ Drop("binding")
    BY DEF RejectBinding, Named, Clean
  <1>10. (Merge \/ MergeReporting) => Takes
    BY DEF Merge, MergeReporting, Takes
  <1>11. (Finish \/ Over \/ UNCHANGED vars) => Stays
    BY DEF Finish, Over, vars, Stays, fixed
  <1> QED
    BY <1>1, <1>2, <1>3, <1>4, <1>5, <1>6, <1>7, <1>8, <1>9, <1>10, <1>11 DEF Next, Drops

-------------------------------------------------------------------------------
(* Paths.                                                                   *)

LEMMA PathFacts ==
  ASSUME NEW p, IsPath(p), NEW q, IsPath(q)
  PROVE  /\ IsPath(p \o q)
         /\ \A x : IsPath(Append(p, x))
  <1>1. IsPath(p \o q)
    <2> DEFINE S == Range(p) \cup Range(q)
    <2>1. p \in Seq(S) /\ q \in Seq(S)
      BY SeqMonotonic DEF IsPath
    <2> HIDE DEF S
    <2>2. p \o q \in Seq(S)
      BY <2>1, ConcatProperties
    <2> QED
      BY <2>2, SeqOfRange DEF IsPath
  <1>2. ASSUME NEW x PROVE IsPath(Append(p, x))
    <2> DEFINE S == Range(p) \cup {x}
    <2>1. p \in Seq(S) /\ x \in S
      BY SeqMonotonic DEF IsPath
    <2> HIDE DEF S
    <2>2. Append(p, x) \in Seq(S)
      BY <2>1, AppendProperties
    <2> QED
      BY <2>2, SeqOfRange DEF IsPath
  <1> QED
    BY <1>1, <1>2

LEMMA PathsAssociate ==
  ASSUME NEW p, IsPath(p), NEW q, IsPath(q), NEW u, IsPath(u)
  PROVE  (p \o q) \o u = p \o (q \o u)
  <1> DEFINE S == Range(p) \cup Range(q) \cup Range(u)
  <1>1. p \in Seq(S) /\ q \in Seq(S) /\ u \in Seq(S)
    BY SeqMonotonic DEF IsPath
  <1> HIDE DEF S
  <1> QED
    BY <1>1, ConcatAssociative

-------------------------------------------------------------------------------
(* Where the programs of the stack stand.                                   *)

(* The n-th program is the one its chain leads to.                          *)
Reached(n, fr) == Len(fr.chain) = n - 1 /\ FileOf(fr.chain) = fr.file

Standing == \A n \in 1..Len(stack) : Reached(n, stack[n])

(* The next import of a program is what its chain and the number say.       *)
LEMMA CurrentImport ==
  ASSUME NEW fr, Framed(files, fr), FileOf(fr.chain) = fr.file
  PROVE  /\ Import(Here(fr)) = Current(fr)
         /\ FileOf(Here(fr)) = Current(fr).file
         /\ Here(fr) \in Seq(Nat) /\ Len(fr.chain) \in Nat /\ Len(Here(fr)) = Len(fr.chain) + 1
         /\ Prefix(Here(fr), Len(fr.chain)) = fr.chain
         /\ fr.next \in Nat /\ Here(fr)[Len(fr.chain) + 1] = fr.next
  <1>1. fr.chain \in Seq(Nat) /\ fr.next \in Nat
    BY DEF Framed
  <1> QED
    BY <1>1, LongerChain, FileOfGrows DEF Here, Current, Imports

(* How an action that keeps the programs below the top keeps what is known  *)
(* of them.                                                                 *)
LEMMA ReachedNext ==
  ASSUME IInv, [Next]_vars, Standing
  PROVE  Standing'
  <1>1. /\ Len(stack) \in Nat /\ Len(stack) > 0
        /\ Framed(files, Top) /\ Reached(Len(stack), Top)
        /\ Len(stack) > 1 => Framed(files, Host) /\ Reached(Len(stack) - 1, Host)
    BY TopFacts DEF Sane, Top, Host, Standing
  <1>2. files' = files
    BY StepKinds DEF Passes, Skip, Load, Drops, RejectNested, Drop, Takes, Merge, MergeReporting,
       Crash, Stays, fixed
  <1>3. \A c : FileOf(c)' = FileOf(c)
    BY <1>2, SameMeaning
  <1>4. ASSUME NEW m \in {Len(stack) - 1, Len(stack), Len(stack) + 1}, NEW e, Shape(m, e), Reached(m, e)
        PROVE  \A n \in 1..Len(stack') : Reached(n, stack'[n])
    <2> TAKE n \in 1..Len(stack')
    <2>1. n = m \/ (n \in 1..m - 1 /\ n \in 1..Len(stack))
      BY <1>1, <1>4 DEF Shape
    <2> QED
      BY <1>4, <2>1 DEF Shape, Standing
  <1>5. \A n \in 1..Len(stack') : Reached(n, stack'[n])
    <2>1. ASSUME NEW kind, Passes(kind) PROVE \A n \in 1..Len(stack') : Reached(n, stack'[n])
      <3>1. Shape(Len(stack), GoesOn(Top))
        BY <2>1, SkipShape DEF Passes, Skip
      <3>2. Reached(Len(stack), GoesOn(Top))
        BY <1>1, GoesOnFields DEF Reached
      <3> QED
        BY <1>4, <3>1, <3>2
    <2>2. CASE Load
      <3> DEFINE e == Opened(Current(Top).file, Here(Top), reported)
      <3>1. Shape(Len(stack) + 1, e)
        BY <2>2, LoadShape DEF Load
      <3>2. e.chain = Here(Top) /\ e.file = Current(Top).file
        BY DEF Opened
      <3>3. Reached(Len(stack) + 1, e)
        BY <1>1, <3>2, CurrentImport DEF Reached
      <3> QED
        BY <1>4, <3>1, <3>3
    <2>3. CASE Drops
      <3>1. Len(stack) > 1 /\ Return(Host)
        BY <2>3 DEF Drops, Returning, RejectNested, Drop
      <3>2. Shape(Len(stack) - 1, GoesOn(Host))
        BY <3>1, ReturnShape
      <3>3. Reached(Len(stack) - 1, GoesOn(Host))
        BY <1>1, <3>1, GoesOnFields DEF Reached
      <3> QED
        BY <1>4, <3>2, <3>3
    <2>4. CASE Takes
      <3> DEFINE e == Extended(Current(Host), Host, Top)
      <3>1. Len(stack) > 1 /\ Return(e)
        BY <2>4 DEF Takes, Binding, Named, Clean, Returning, Merge, MergeReporting
      <3>2. Framed(files, e) /\ e.file = Host.file /\ e.chain = Host.chain
        BY <1>1, <3>1, ExtendedFields
      <3> HIDE DEF e
      <3>3. Shape(Len(stack) - 1, GoesOn(e))
        BY <3>1, ReturnShape
      <3>4. Reached(Len(stack) - 1, GoesOn(e))
        BY <1>1, <3>1, <3>2, GoesOnFields DEF Reached
      <3> QED
        BY <1>4, <3>3, <3>4
    <2>5. CASE Crash \/ Stays
      <3>1. stack' = stack
        BY <2>5 DEF Crash, Stays
      <3> QED
        BY <3>1 DEF Standing
    <2> QED
      BY <2>1, <2>2, <2>3, <2>4, <2>5, StepKinds
  <1> QED
    BY <1>3, <1>5 DEF Standing, Reached

-------------------------------------------------------------------------------
(* Events.                                                                  *)

(* The import number n of the chain of r maps the event r meant.            *)
MappedAt(r, n) == Meaning(r.module, Absolute(r.ref))[n] \in DOMAIN Import(Prefix(r.module, n)).events

(* From the k-th import on r is relative until an import maps it, and every *)
(* import further up maps it.                                               *)
Faithful(r, k) ==
  \A n \in k + 1..Len(r.module) :
    MappedAt(r, n) \/ (~r.ref.abs /\ \A m \in n..Len(r.module) : ~MappedAt(r, m))

Referring(r) ==
  /\ r = [module |-> r.module, ref |-> r.ref, at |-> r.at, abs |-> r.abs, path |-> r.path]
  /\ r.abs \in BOOLEAN /\ r.ref.abs \in BOOLEAN
  /\ IsPath(r.at) /\ (r.abs \/ IsPath(r.path))
  /\ r.module \in Seq(Nat)

(* A reference of a program reached by c comes from c or below, is relative *)
(* as long as nothing has mapped it, and means what it meant.               *)
Tracks(c, r) ==
  /\ Referring(r)
  /\ Len(c) <= Len(r.module) /\ Prefix(r.module, Len(c)) = c
  /\ (~r.ref.abs /\ \A n \in Len(c) + 1..Len(r.module) : ~MappedAt(r, n)) => ~r.abs
  /\ Faithful(r, Len(c)) => Absolute(r) = Meaning(r.module, Absolute(r.ref))[Len(c)]

Tracked == \A n \in 1..Len(stack) : \A r \in stack[n].refs : Tracks(stack[n].chain, r)

(* The references of a program as it is parsed.                             *)
LEMMA OpenedTracks ==
  ASSUME Outer, NEW f \in DOMAIN files, NEW c \in Seq(Nat), NEW before
  PROVE  \A r \in Opened(f, c, before).refs : Tracks(c, r)
  <1> SUFFICES ASSUME NEW s \in files[f].refs
               PROVE  Tracks(c, [module |-> c, ref |-> s, at |-> s.at, abs |-> s.abs, path |-> s.path])
    BY DEF Opened
  <1> DEFINE r == [module |-> c, ref |-> s, at |-> s.at, abs |-> s.abs, path |-> s.path]
  <1>1. r.module = c /\ r.ref = s /\ r.at = s.at /\ r.abs = s.abs /\ r.path = s.path
    OBVIOUS
  <1>2. s.abs \in BOOLEAN /\ IsPath(s.at) /\ IsPath(s.path)
    BY PathsAssumption DEF Outer
  <1>3. Len(c) \in Nat /\ Prefix(c, Len(c)) = c
    BY WholePrefix, LenProperties
  <1>4. r = [module |-> r.module, ref |-> r.ref, at |-> r.at, abs |-> r.abs, path |-> r.path]
    BY <1>1
  <1> HIDE DEF r
  <1>5. Referring(r)
    BY <1>1, <1>2, <1>4, Zenon DEF Referring
  <1>6. Absolute(r) = Absolute(s)
    BY <1>1, Zenon DEF Absolute
  <1>7. Meaning(c, Absolute(s))[Len(c)] = Absolute(s)
    BY <1>3, MeaningFacts
  <1>8. ~s.abs => ~r.abs
    BY <1>1, Zenon
  <1>9. Len(c) <= Len(c)
    BY <1>3
  <1>10. Tracks(c, r)
    BY <1>1, <1>3, <1>5, <1>6, <1>7, <1>8, <1>9, Zenon DEF Tracks
  <1> QED
    BY <1>10 DEF r

(* The references of a program that is taken over.                          *)
LEMMA RewrittenTracks ==
  ASSUME NEW c \in Seq(Nat), NEW k \in Nat, NEW item, item = Import(Append(c, k)), IsPath(item.at),
         NEW m, NEW r \in m.refs, Tracks(Append(c, k), r)
  PROVE  Tracks(c, Placed(item, m, Mapped(item, r)))
  <1> DEFINE d == Append(c, k)
             n == Len(c)
             M == r.module
             up(i) == Meaning(M, Absolute(r.ref))[i]
             q == Mapped(item, r)
             s == Placed(item, m, q)
             inst == Instance(item)
  <1>1. n \in Nat /\ Len(d) = n + 1 /\ Prefix(d, n) = c
    BY LongerChain
  <1>2. M \in Seq(Nat) /\ Len(M) \in Nat /\ n + 1 <= Len(M) /\ Prefix(M, n + 1) = d
    BY <1>1, LenProperties DEF Tracks, Referring
  <1>3. Prefix(M, n) = c
    <2>1. n + 1 \in 0..Len(M) /\ n \in 0..n + 1
      BY <1>1, <1>2
    <2> QED
      BY <1>1, <1>2, <2>1, PrefixOfPrefix
  <1>4. up(n) = Lifted(item, up(n + 1))
    <2>1. n \in 0..Len(M) - 1
      BY <1>1, <1>2
    <2>2. \A i \in 0..Len(M) - 1 :
            Meaning(M, Absolute(r.ref))[i]
              = Lifted(Import(Prefix(M, i + 1)), Meaning(M, Absolute(r.ref))[i + 1])
      BY <1>2, MeaningFacts
    <2> QED
      BY <1>2, <2>1, <2>2
  <1>5. MappedAt(r, n + 1) <=> up(n + 1) \in DOMAIN item.events
    BY <1>2 DEF MappedAt
  (* What the two rewritings make of the reference.                         *)
  <1>6. Referring(r)
    BY DEF Tracks
  <1>7. IsPath(inst) /\ IsPath(inst \o r.at)
    BY <1>6, PathFacts DEF Referring, Instance
  <1> HIDE DEF inst
  <1>8. CASE Absolute(r) \in DOMAIN item.events
    <2> DEFINE t == EventTarget(item, Absolute(r))
    <2>1. q = [module |-> M, ref |-> r.ref, at |-> r.at, abs |-> TRUE, path |-> t]
      <3>1. q = [r EXCEPT !.abs = TRUE, !.path = t]
        BY <1>8 DEF Mapped
      <3> HIDE DEF t, q
      <3> QED
        BY <1>6, <3>1 DEF Referring
    <2>2. t \in Preserved(item, m)
      BY <1>8 DEF Preserved, Used
    <2> HIDE DEF q, t
    <2>3. s = [module |-> M, ref |-> r.ref, at |-> inst \o r.at, abs |-> TRUE, path |-> t]
      <3>1. s = [q EXCEPT !.at = inst \o @, !.path = t]
        BY <2>1, <2>2 DEF Placed, inst
      <3> QED
        BY <2>1, <3>1
    <2> HIDE DEF s, d, M
    <2>4. s.module = M /\ s.ref = r.ref /\ s.at = inst \o r.at /\ s.abs = TRUE /\ s.path = t
      BY <2>3
    <2>5. Referring(s)
      BY <1>2, <1>6, <1>7, <2>3, <2>4 DEF Referring
    <2>6. Absolute(s) = t
      BY <2>4 DEF Absolute
    <2> QED
      <3>1. \A i : MappedAt(s, i) <=> MappedAt(r, i)
        BY <2>4 DEF MappedAt, M
      <3>2. Faithful(s, n) => Faithful(r, n + 1)
        BY <1>1, <1>2, <2>4, <3>1 DEF Faithful, M
      <3>3. Faithful(r, n + 1) => Absolute(r) = up(n + 1)
        BY <1>1 DEF Tracks, M, d
      <3>4. Faithful(s, n) => Absolute(s) = up(n)
        BY <1>4, <1>8, <2>6, <3>2, <3>3 DEF Lifted, t
      <3>5. ASSUME ~s.ref.abs, \A i \in n + 1..Len(s.module) : ~MappedAt(s, i) PROVE ~s.abs
        <4>1. n + 1 \in n + 1..Len(M)
          BY <1>1, <1>2
        <4>2. \A i \in n + 1..Len(M) : ~MappedAt(r, i)
          BY <2>4, <3>1, <3>5
        <4>3. Faithful(r, n + 1)
          BY <1>1, <1>2, <2>4, <3>5, <4>2 DEF Faithful, M
        <4>4. up(n + 1) \in DOMAIN item.events
          BY <1>8, <3>3, <4>3
        <4> QED
          BY <1>5, <4>1, <4>2, <4>4
      <3>6. Tracks(c, s)
        BY <1>1, <1>2, <1>3, <2>4, <2>5, <3>4, <3>5 DEF Tracks, M
      <3> QED
        BY <3>6 DEF s, q
  <1>9. CASE Absolute(r) \notin DOMAIN item.events /\ r.abs
    <2> DEFINE t == s.path
    <2>1. q = [r EXCEPT !.path = r.at \o r.path]
      BY <1>9 DEF Mapped
    <2>2. q = [module |-> M, ref |-> r.ref, at |-> r.at, abs |-> r.abs, path |-> r.at \o r.path]
      BY <1>6, <2>1 DEF Referring
    <2> HIDE DEF q
    <2>3. s = [module |-> M, ref |-> r.ref, at |-> inst \o r.at, abs |-> r.abs, path |-> t]
      <3> DEFINE u == IF q.abs /\ q.path \notin Preserved(item, m) THEN inst \o q.path ELSE q.path
      <3>1. s = [q EXCEPT !.at = inst \o @, !.path = u]
        BY DEF Placed, inst
      <3> HIDE DEF u
      <3>2. s = [module |-> M, ref |-> r.ref, at |-> inst \o r.at, abs |-> r.abs, path |-> u]
        BY <2>2, <3>1
      <3> HIDE DEF s
      <3> QED
        BY <3>2
    <2> HIDE DEF s, d, M, t
    <2>4. s.module = M /\ s.ref = r.ref /\ s.at = inst \o r.at /\ s.abs = r.abs
      BY <2>3
    <2>5. Referring(s)
      <3>1. s = [module |-> s.module, ref |-> s.ref, at |-> s.at, abs |-> s.abs, path |-> s.path]
        BY <2>3
      <3> QED
        BY <1>2, <1>6, <1>7, <1>9, <2>4, <3>1, Zenon DEF Referring
    <2>6. \A i : MappedAt(s, i) <=> MappedAt(r, i)
      BY <2>4 DEF MappedAt, M
    <2>7. ~Faithful(s, n) /\ ~(~s.ref.abs /\ \A i \in n + 1..Len(s.module) : ~MappedAt(s, i))
      <3>1. n + 1 \in n + 1..Len(M)
        BY <1>1, <1>2
      <3>2. ~(~r.ref.abs /\ \A i \in n + 1 + 1..Len(M) : ~MappedAt(r, i))
        BY <1>1, <1>9 DEF Tracks, M, d
      <3>3. \A i \in n + 1 + 1..Len(M) : i \in n + 1..Len(M)
        BY <1>1, <1>2
      <3>4. ~(~r.ref.abs /\ \A i \in n + 1..Len(M) : ~MappedAt(r, i))
        BY <3>2, <3>3
      <3>5. ASSUME Faithful(s, n) PROVE FALSE
        <4>1. \A i \in n + 1..Len(M) :
                MappedAt(r, i) \/ (~r.ref.abs /\ \A j \in i..Len(M) : ~MappedAt(r, j))
          BY <2>4, <2>6, <3>5 DEF Faithful
        <4>2. Faithful(r, n + 1)
          BY <3>3, <4>1 DEF Faithful, M
        <4>3. Absolute(r) = up(n + 1)
          BY <1>1, <4>2 DEF Tracks, M, d
        <4>4. ~MappedAt(r, n + 1)
          BY <1>5, <1>9, <4>3
        <4> QED
          BY <3>1, <3>4, <4>1, <4>4
      <3> QED
        BY <2>4, <2>6, <3>4, <3>5
    <2>8. Tracks(c, s)
      BY <1>1, <1>2, <1>3, <2>4, <2>5, <2>7 DEF Tracks, M
    <2> QED
      BY <2>8 DEF s, q
  <1>10. CASE Absolute(r) \notin DOMAIN item.events /\ ~r.abs
    <2>1. q = r
      BY <1>10 DEF Mapped
    <2> HIDE DEF q
    <2>2. s = [module |-> M, ref |-> r.ref, at |-> inst \o r.at, abs |-> r.abs, path |-> r.path]
      <3>1. s = [r EXCEPT !.at = inst \o @, !.path = r.path]
        BY <1>10, <2>1 DEF Placed, inst
      <3> HIDE DEF s
      <3> QED
        BY <1>6, <3>1 DEF Referring
    <2> HIDE DEF s, d, M
    <2>3. s.module = M /\ s.ref = r.ref /\ s.at = inst \o r.at /\ s.abs = r.abs /\ s.path = r.path
      BY <2>2
    <2>4. Referring(s)
      <3>1. s = [module |-> s.module, ref |-> s.ref, at |-> s.at, abs |-> s.abs, path |-> s.path]
        BY <2>2, <2>3
      <3> QED
        BY <1>2, <1>6, <1>7, <2>3, <3>1, Zenon DEF Referring
    <2>5. \A i : MappedAt(s, i) <=> MappedAt(r, i)
      BY <2>3 DEF MappedAt, M
    <2>6. Absolute(s) = inst \o Absolute(r)
      <3>1. Absolute(s) = (inst \o r.at) \o r.path /\ Absolute(r) = r.at \o r.path
        BY <1>10, <2>3 DEF Absolute
      <3>2. IsPath(r.at) /\ IsPath(r.path)
        BY <1>6, <1>10 DEF Referring
      <3> DEFINE a == r.at
                 b == r.path
      <3>3. IsPath(a) /\ IsPath(b) /\ IsPath(inst)
        BY <1>7, <3>2
      <3> HIDE DEF a, b
      <3>4. (inst \o a) \o b = inst \o (a \o b)
        BY ONLY <3>3, PathsAssociate
      <3> QED
        BY <3>1, <3>4 DEF a, b
    <2>7. ASSUME Faithful(s, n) PROVE Absolute(s) = up(n)
      <3>1. \A i \in n + 1 + 1..Len(M) : i \in n + 1..Len(M)
        BY <1>1, <1>2
      <3>2. \A i \in n + 1..Len(M) :
                MappedAt(r, i) \/ (~r.ref.abs /\ \A j \in i..Len(M) : ~MappedAt(r, j))
        BY <2>3, <2>5, <2>7 DEF Faithful
      <3>3. Faithful(r, n + 1)
        BY <3>1, <3>2 DEF Faithful, M
      <3>4. Absolute(r) = up(n + 1)
        BY <1>1, <3>3 DEF Tracks, M, d
      <3> QED
        BY <1>4, <1>10, <2>6, <3>4 DEF Lifted, inst
    <2>8. ~s.abs
      BY <1>10, <2>3
    <2>9. Tracks(c, s)
      BY <1>1, <1>2, <1>3, <2>3, <2>4, <2>7, <2>8 DEF Tracks, M
    <2> QED
      BY <2>9 DEF s, q
  <1> QED
    BY <1>8, <1>9, <1>10

LEMMA TrackedNext ==
  ASSUME IInv, [Next]_vars, Standing, Tracked
  PROVE  Tracked'
  <1>1. /\ Len(stack) \in Nat /\ Len(stack) > 0
        /\ Framed(files, Top) /\ Reached(Len(stack), Top)
        /\ Len(stack) > 1 => /\ Framed(files, Host) /\ Reached(Len(stack) - 1, Host)
                             /\ Linked(files, Host, Top)
    BY TopFacts DEF Sane, Top, Host, Standing
  <1>2. files' = files
    BY StepKinds DEF Passes, Skip, Load, Drops, RejectNested, Drop, Takes, Merge, MergeReporting,
       Crash, Stays, fixed
  <1>3. \A c, r : Tracks(c, r)' <=> Tracks(c, r)
    <2>1. \A r, n : MappedAt(r, n)' <=> MappedAt(r, n)
      BY <1>2, SameMeaning DEF MappedAt
    <2>2. \A r, k : Faithful(r, k)' <=> Faithful(r, k)
      BY <2>1 DEF Faithful
    <2> QED
      BY <1>2, <2>1, <2>2, SameMeaning DEF Tracks
  <1> DEFINE Fits(fr) == \A r \in fr.refs : Tracks(fr.chain, r)
  <1>4. Fits(Top) /\ (Len(stack) > 1 => Fits(Host))
    <2>1. Len(stack) \in 1..Len(stack) /\ (Len(stack) > 1 => Len(stack) - 1 \in 1..Len(stack))
      BY <1>1
    <2> QED
      BY <2>1 DEF Tracked, Top, Host
  <1>5. ASSUME NEW m \in {Len(stack) - 1, Len(stack), Len(stack) + 1}, NEW e, Shape(m, e), Fits(e)
        PROVE  \A n \in 1..Len(stack') : Fits(stack'[n])
    <2> TAKE n \in 1..Len(stack')
    <2>1. n = m \/ (n \in 1..m - 1 /\ n \in 1..Len(stack))
      BY <1>1, <1>5 DEF Shape
    <2>2. CASE n = m
      BY <1>5, <2>2 DEF Shape
    <2>3. CASE n \in 1..m - 1 /\ n \in 1..Len(stack)
      BY <1>5, <2>3 DEF Shape, Tracked
    <2> QED
      BY <2>1, <2>2, <2>3
  <1>6. \A n \in 1..Len(stack') : Fits(stack'[n])
    <2>1. ASSUME NEW kind, Passes(kind) PROVE \A n \in 1..Len(stack') : Fits(stack'[n])
      <3>1. Shape(Len(stack), GoesOn(Top))
        BY <2>1, SkipShape DEF Passes, Skip
      <3>2. Fits(GoesOn(Top))
        BY <1>1, <1>4, GoesOnFields
      <3> QED
        BY <1>5, <3>1, <3>2
    <2>2. CASE Load
      <3> DEFINE e == Opened(Current(Top).file, Here(Top), reported)
      <3>1. Shape(Len(stack) + 1, e)
        BY <2>2, LoadShape DEF Load
      <3>2. /\ e.chain = Here(Top) /\ Here(Top) \in Seq(Nat)
            /\ Outer /\ Current(Top).file \in DOMAIN files
        BY <1>1, <2>2, CurrentImport DEF Opened, Load, Locating, IInv, Reached
      <3>3. \A r \in e.refs : Tracks(Here(Top), r)
        BY <3>2, OpenedTracks
      <3>4. Fits(e)
        BY <3>2, <3>3
      <3> QED
        BY <1>5, <3>1, <3>4
    <2>3. CASE Drops
      <3>1. Len(stack) > 1 /\ Return(Host)
        BY <2>3 DEF Drops, Returning, RejectNested, Drop
      <3>2. Shape(Len(stack) - 1, GoesOn(Host))
        BY <3>1, ReturnShape
      <3>3. Fits(GoesOn(Host))
        BY <1>1, <1>4, <3>1, GoesOnFields
      <3> QED
        BY <1>5, <3>2, <3>3
    <2>4. CASE Takes
      <3> DEFINE item == Current(Host)
                 e == Extended(item, Host, Top)
      <3>1. Len(stack) > 1 /\ Return(e)
        BY <2>4 DEF Takes, Binding, Named, Clean, Returning, Merge, MergeReporting
      <3>2. Host.chain \in Seq(Nat) /\ Host.next \in Nat /\ Top.chain = Append(Host.chain, Host.next)
        BY <1>1, <3>1, CurrentImport DEF Framed, Linked, Reached
      <3>3. item = Import(Append(Host.chain, Host.next))
        BY <1>1, <3>1, CurrentImport DEF Reached, Here
      <3>4. IsPath(item.at)
        <4>1. /\ Host.file \in DOMAIN files /\ files \in FileSystems
              /\ Host.next \in DOMAIN files[Host.file].imports
          BY <1>1, <3>1, FileFacts DEF IInv, Outer, Framed, Linked
        <4> QED
          BY <4>1, PathsAssumption DEF Current, Imports
      <3> HIDE DEF item
      <3>5. ASSUME NEW r \in RewrittenRefs(item, Top) PROVE Tracks(Host.chain, r)
        <4>1. PICK s \in Top.refs : r = Placed(item, Top, Mapped(item, s))
          BY DEF RewrittenRefs
        <4>2. Tracks(Append(Host.chain, Host.next), s)
          BY <1>4, <3>2
        <4> QED
          BY <3>2, <3>3, <3>4, <4>1, <4>2, RewrittenTracks
      <3>6. Framed(files, e) /\ e.chain = Host.chain /\ e.refs = Host.refs \cup RewrittenRefs(item, Top)
        BY <1>1, <3>1, ExtendedFields
      <3> HIDE DEF e
      <3>7. Fits(GoesOn(e))
        BY <1>4, <3>1, <3>5, <3>6, GoesOnFields
      <3>8. Shape(Len(stack) - 1, GoesOn(e))
        BY <3>1, ReturnShape
      <3> QED
        BY <1>5, <3>7, <3>8
    <2>5. CASE Crash \/ Stays
      <3>1. stack' = stack
        BY <2>5 DEF Crash, Stays
      <3> QED
        BY <3>1 DEF Tracked
    <2> QED
      BY <2>1, <2>2, <2>3, <2>4, <2>5, StepKinds
  <1> QED
    BY <1>3, <1>6 DEF Tracked

(* The entry program.                                                       *)
LEMMA InitTracked == Init => Standing /\ Tracked
  <1> SUFFICES ASSUME Init PROVE Standing /\ Tracked
    OBVIOUS
  <1> DEFINE e == Opened(Main, <<>>, {})
  <1>1. IInv
    BY InitIInv
  <1>2. Len(stack) = 1 /\ stack[1] = e
    <2>1. stack = <<e>>
      BY DEF Init
    <2> HIDE DEF e
    <2> QED
      BY <2>1
  <1>3. Main \in DOMAIN files /\ Outer
    BY <1>1, FilesAssumption DEF IInv, Outer
  <1>4. <<>> \in Seq(Nat) /\ Len(<<>>) = 0 /\ 0 \in Nat
    BY EmptySeq
  <1>5. e.chain = <<>> /\ e.file = Main
    BY DEF Opened
  <1>6. \A r \in e.refs : Tracks(<<>>, r)
    BY <1>3, <1>4, OpenedTracks
  <1> HIDE DEF e
  <1>7. FileOf(<<>>) = Main
    BY <1>4, FileOfGrows
  <1>8. Standing
    BY <1>2, <1>4, <1>5, <1>7 DEF Standing, Reached
  <1> QED
    BY <1>2, <1>5, <1>6, <1>8 DEF Tracked

(* The bottom of the stack is the entry program.                            *)
LEMMA EntryProgram ==
  ASSUME IInv, Standing
  PROVE  1 \in 1..Len(stack) /\ stack[1].chain = <<>> /\ Sane(files, stack[1])
  <1>1. 1 \in 1..Len(stack)
    BY TopFacts
  <1>2. Sane(files, stack[1]) /\ Len(stack[1].chain) = 1 - 1
    BY <1>1 DEF IInv, Stacked, Standing, Reached
  <1>3. stack[1].chain \in Seq(Nat)
    BY <1>2 DEF Sane, Framed
  <1> QED
    BY <1>1, <1>2, <1>3, EmptySeq

LEMMA TrackedArrive ==
  ASSUME IInv, Standing, Tracked
  PROVE  MappedEventsArrive
  <1> SUFFICES ASSUME NEW r \in Refs,
                      \A n \in 1..Len(r.module) :
                        \/ n \in {m \in 1..Len(r.module) : MappedAt(r, m)}
                        \/ /\ ~r.ref.abs
                           /\ \A m \in n..Len(r.module) :
                                m \notin {j \in 1..Len(r.module) : MappedAt(r, j)}
               PROVE  Absolute(r) = Meaning(r.module, Absolute(r.ref))[0]
    BY Zenon DEF MappedEventsArrive, MappedAt
  <1>1. Tracks(<<>>, r)
    BY EntryProgram DEF Tracked, Refs
  <1>2. Len(<<>>) = 0 /\ 0 + 1 = 1
    BY EmptySeq
  <1>3. r.module \in Seq(Nat) /\ Len(r.module) \in Nat
    BY <1>1, LenProperties DEF Tracks, Referring
  <1>4. ASSUME NEW n \in 1..Len(r.module)
        PROVE  MappedAt(r, n) \/ (~r.ref.abs /\ \A m \in n..Len(r.module) : ~MappedAt(r, m))
    <2>1. \A m \in n..Len(r.module) : m \in 1..Len(r.module)
      BY <1>3
    <2> QED
      BY <2>1
  <1>5. Faithful(r, 0)
    BY <1>2, <1>4, Zenon DEF Faithful
  <1> QED
    BY <1>1, <1>2, <1>5 DEF Tracks

(* Through any number of levels, a reference to an event that is relative   *)
(* until an import maps it, and that every import further up maps, is after *)
(* the assembly the event the mappings send it to.                          *)
THEOREM EventsArrive == Spec => []MappedEventsArrive
  <1> DEFINE Inv == IInv /\ Standing /\ Tracked
  <1>1. Init => Inv
    BY InitIInv, InitTracked
  <1>2. Inv /\ [Next]_vars => Inv'
    BY NextIInv, ReachedNext, TrackedNext
  <1>3. Inv => MappedEventsArrive
    BY TrackedArrive
  <1> QED
    BY <1>1, <1>2, <1>3, PTL DEF Spec
-------------------------------------------------------------------------------
(* Chains of imports.                                                       *)

(* Each number is an import of the file reached before it, and the files on *)
(* the way can be read.                                                     *)
Leads(c) ==
  /\ \A n \in 1..Len(c) : c[n] \in DOMAIN Imports(FileOf(Prefix(c, n - 1)))
  /\ \A n \in 1..Len(c) - 1 : Readable(Prefix(c, n))

(* The imports of a file that was reached.                                  *)
LEMMA ReachedFile ==
  ASSUME Outer, NEW c, c = <<>> \/ Readable(c)
  PROVE  /\ FileOf(c) \in DOMAIN files
         /\ Len(Imports(FileOf(c))) \in Nat
         /\ DOMAIN Imports(FileOf(c)) = 1..Len(Imports(FileOf(c)))
  <1>1. files \in FileSystems /\ Main \in DOMAIN files
    BY FilesAssumption DEF Outer
  <1>2. <<>> \in Seq(Nat) /\ 0 \in Nat
    BY EmptySeq
  <1>3. FileOf(<<>>) = Main
    BY <1>2, FileOfGrows
  <1>4. FileOf(c) \in DOMAIN files
    BY <1>1, <1>3 DEF Readable, Modules
  <1> QED
    BY <1>4, FileFacts DEF Imports

LEMMA LeadsGrow ==
  ASSUME NEW c \in Seq(Nat), NEW k \in Nat
  PROVE  Leads(Append(c, k)) <=>
           Leads(c) /\ (c = <<>> \/ Readable(c)) /\ k \in DOMAIN Imports(FileOf(c))
  <1> DEFINE d == Append(c, k)
             n == Len(c)
  <1>1. /\ n \in Nat /\ Len(d) = n + 1 /\ d[n + 1] = k
        /\ \A i \in 1..n : d[i] = c[i]
        /\ Prefix(d, n) = c
        /\ \A m \in 0..n : Prefix(d, m) = Prefix(c, m)
    BY LongerChain
  <1>2. c = <<>> <=> n = 0
    BY EmptySeq
  <1> HIDE DEF d
  <1>3. \A i \in 1..n : Prefix(d, i - 1) = Prefix(c, i - 1) /\ Prefix(d, i) = Prefix(c, i)
    <2> TAKE i \in 1..n
    <2>1. i - 1 \in 0..n /\ i \in 0..n
      BY <1>1
    <2> QED
      BY <1>1, <2>1
  <1>4. ASSUME Leads(d)
        PROVE  Leads(c) /\ (c = <<>> \/ Readable(c)) /\ k \in DOMAIN Imports(FileOf(c))
    <2>1. \A i \in 1..n : c[i] \in DOMAIN Imports(FileOf(Prefix(c, i - 1)))
      <3> TAKE i \in 1..n
      <3>1. i \in 1..Len(d)
        BY <1>1
      <3> QED
        BY <1>1, <1>3, <1>4, <3>1 DEF Leads
    <2>2. \A i \in 1..n : Readable(Prefix(d, i))
      BY <1>1, <1>4 DEF Leads
    <2>3. \A i \in 1..n - 1 : Readable(Prefix(c, i))
      <3> TAKE i \in 1..n - 1
      <3>1. i \in 1..n
        BY <1>1
      <3> QED
        BY <1>3, <2>2, <3>1
    <2>4. n # 0 => Readable(c)
      <3>1. n # 0 => n \in 1..n
        BY <1>1
      <3> QED
        BY <1>1, <2>2, <3>1
    <2>5. k \in DOMAIN Imports(FileOf(c))
      <3>1. n + 1 \in 1..Len(d) /\ n + 1 - 1 = n
        BY <1>1
      <3>2. d[n + 1] \in DOMAIN Imports(FileOf(Prefix(d, n + 1 - 1)))
        BY <1>4, <3>1 DEF Leads
      <3> QED
        BY <1>1, <3>1, <3>2
    <2> QED
      BY <1>2, <2>1, <2>3, <2>4, <2>5 DEF Leads
  <1>5. ASSUME Leads(c), c = <<>> \/ Readable(c), k \in DOMAIN Imports(FileOf(c))
        PROVE  Leads(d)
    <2>1. ASSUME NEW i \in 1..Len(d) PROVE d[i] \in DOMAIN Imports(FileOf(Prefix(d, i - 1)))
      <3>1. CASE i = n + 1
        <4>1. i - 1 = n
          BY <1>1, <3>1
        <4> QED
          BY <1>1, <1>5, <3>1, <4>1
      <3>2. CASE i # n + 1
        <4>1. i \in 1..n
          BY <1>1, <3>2
        <4> QED
          BY <1>1, <1>3, <1>5, <4>1 DEF Leads
      <3> QED
        BY <3>1, <3>2
    <2>2. ASSUME NEW i \in 1..Len(d) - 1 PROVE Readable(Prefix(d, i))
      <3>1. i \in 1..n
        BY <1>1
      <3>2. CASE i = n
        BY <1>1, <1>2, <1>5, <3>1, <3>2
      <3>3. CASE i # n
        <4>1. i \in 1..n - 1
          BY <1>1, <3>1, <3>3
        <4> QED
          BY <1>3, <1>5, <3>1, <4>1 DEF Leads
      <3> QED
        BY <3>2, <3>3
    <2> QED
      BY <2>1, <2>2 DEF Leads
  <1> QED
    BY <1>4, <1>5 DEF d

(* The files on the way are different, so that a chain is not longer than   *)
(* their number and one.                                                    *)
LEMMA LeadsShort ==
  ASSUME Outer, NEW c \in Seq(Nat), Leads(c)
  PROVE  /\ Cardinality(Modules) \in Nat
         /\ Len(c) \in 0..Cardinality(Modules) + 1
  <1> DEFINE b == Len(c) - 1
             f == [n \in 1..b |-> FileOf(Prefix(c, n))]
  <1>1. Len(c) \in Nat /\ IsFiniteSet(Modules)
    BY LenProperties, FilesAssumption DEF Outer, Modules
  <1>2. Cardinality(Modules) \in Nat
    BY <1>1, FS_CardinalityType
  <1>3. CASE Len(c) = 0
    BY <1>2, <1>3
  <1>4. CASE Len(c) # 0
    <2>1. b \in Nat
      BY <1>1, <1>4
    <2>2. \A n \in 1..b : Readable(Prefix(c, n))
      BY DEF Leads
    <2>3. ASSUME NEW n \in 1..b, NEW m \in 1..b, m < n
          PROVE  FileOf(Prefix(c, m)) # FileOf(Prefix(c, n))
      <3> DEFINE p == Prefix(c, n)
      <3>1. n \in 0..Len(c) /\ m \in 0..n
        BY <1>1, <2>3
      <3>2. Prefix(p, m) = Prefix(c, m) /\ Len(p) = n
        BY <3>1, PrefixFacts, PrefixOfPrefix
      <3>3. m \in 1..Len(p) - 1 /\ m \in 0..Len(p) - 1
        BY <2>3, <3>1, <3>2
      <3>4. ~Cyclic(p)
        BY <2>2 DEF Readable
      <3> HIDE DEF p
      <3>5. FileOf(Prefix(p, m)) # FileOf(p)
        BY <3>3, <3>4 DEF Cyclic
      <3> QED
        BY <3>2, <3>5 DEF p
    <2>4. f \in [1..b -> Modules]
      BY <2>2 DEF Readable
    <2>5. ASSUME NEW n \in 1..b, NEW m \in 1..b, f[n] = f[m] PROVE n = m
      <3>1. f[n] = FileOf(Prefix(c, n)) /\ f[m] = FileOf(Prefix(c, m))
        OBVIOUS
      <3>2. ~(m < n) /\ ~(n < m)
        BY <2>3, <2>5, <3>1
      <3> QED
        BY <3>2
    <2> HIDE DEF f
    <2>6. f \in Injection(1..b, Modules)
      BY <2>4, <2>5 DEF Injection, IsInjective
    <2>7. Cardinality(1..b) <= Cardinality(Modules)
      BY <1>1, <2>6, FS_Injection
    <2>8. Cardinality(1..b) = b
      <3>1. 1 \in Int /\ b \in Int /\ b - 1 + 1 = b
        BY <2>1
      <3>2. Cardinality(1..b) = IF 1 > b THEN 0 ELSE b - 1 + 1
        BY <3>1, FS_Interval
      <3> QED
        BY <2>1, <3>1, <3>2
    <2> QED
      BY <1>1, <1>2, <2>7, <2>8
  <1> QED
    BY <1>2, <1>3, <1>4

(* g[i] is the set of the chains of i imports, for i up to n.               *)
Levels(n, g) ==
  g = [i \in 0..n |->
         IF i = 0 THEN {<<>>}
         ELSE UNION {Below(c) : c \in {d \in g[i - 1] : d = <<>> \/ Readable(d)}}]

LEMMA LevelsExist ==
  ASSUME NEW n \in Nat
  PROVE  \E g : Levels(n, g)
  <1> DEFINE Up(S) == UNION {Below(c) : c \in {d \in S : d = <<>> \/ Readable(d)}}
             T == {k \in Nat : ~ \E g : Levels(k, g)}
  <1>1. ASSUME T # {} PROVE FALSE
    <2>1. T \in SUBSET Nat
      OBVIOUS
    <2>2. PICK k \in T : \A l \in T : k <= l
      BY <1>1, <2>1, LeastNumber
    <2>3. CASE k = 0
      <3> DEFINE g == [i \in 0..0 |-> {<<>>}]
      <3>1. 0..0 = {0}
        OBVIOUS
      <3>2. Levels(0, g)
        BY <3>1 DEF Levels
      <3> QED
        BY <2>2, <2>3, <3>2
    <2>4. CASE k # 0
      <3>1. k - 1 \in Nat /\ k - 1 \notin T
        BY <2>2, <2>4
      <3>2. PICK g : Levels(k - 1, g)
        BY <3>1
      <3>3. \A i \in 0..(k - 1) : g[i] = IF i = 0 THEN {<<>>} ELSE Up(g[i - 1])
        BY <3>2 DEF Levels
      <3> HIDE DEF Up
      <3> DEFINE h == [i \in 0..k |-> IF i = k THEN Up(g[k - 1]) ELSE g[i]]
      <3>4. \A i \in 0..k : h[i] = IF i = 0 THEN {<<>>} ELSE Up(h[i - 1])
        <4> TAKE i \in 0..k
        <4>1. CASE i = k
          <5>1. k - 1 \in 0..k /\ k - 1 # k /\ k \in 0..k
            BY <3>1, <2>2
          <5>2. h[k - 1] = g[k - 1] /\ h[k] = Up(g[k - 1])
            BY <5>1
          <5> HIDE DEF h
          <5> QED
            BY <2>4, <4>1, <5>2
        <4>2. CASE i # k
          <5>1. i \in 0..(k - 1)
            BY <2>2, <4>2
          <5>2. h[i] = g[i]
            BY <4>2
          <5>3. i # 0 => i - 1 \in 0..k /\ i - 1 # k
            BY <2>2, <5>1
          <5>4. i # 0 => h[i - 1] = g[i - 1]
            BY <5>3
          <5> HIDE DEF h
          <5> QED
            BY <3>3, <5>1, <5>2, <5>4
        <4> QED
          BY <4>1, <4>2
      <3>5. h = [i \in 0..k |-> h[i]]
        OBVIOUS
      <3> HIDE DEF h
      <3>6. Levels(k, h)
        BY <3>4, <3>5 DEF Levels, Up
      <3> QED
        BY <2>2, <3>6
    <2> QED
      BY <2>3, <2>4
  <1> QED
    BY <1>1

(* What is on a level.                                                      *)
LEMMA LevelChains ==
  ASSUME Outer, NEW n \in Nat, NEW g, Levels(n, g)
  PROVE  \A i \in 0..n : \A c : c \in g[i] <=> c \in Seq(Nat) /\ Len(c) = i /\ Leads(c)
  <1> DEFINE P(i) == \A c : c \in g[i] <=> c \in Seq(Nat) /\ Len(c) = i /\ Leads(c)
             T == {i \in 0..n : ~P(i)}
  <1>1. \A i \in 0..n : g[i] = IF i = 0 THEN {<<>>}
                               ELSE UNION {Below(c) : c \in {d \in g[i - 1] : d = <<>> \/ Readable(d)}}
    BY DEF Levels
  <1>2. ASSUME T # {} PROVE FALSE
    <2>1. T \in SUBSET Nat
      OBVIOUS
    <2>2. PICK i \in T : \A l \in T : i <= l
      BY <1>2, <2>1, LeastNumber
    <2>3. i \in 0..n /\ ~P(i)
      BY <2>2
    <2>4. CASE i = 0
      <3>1. g[0] = {<<>>}
        BY <1>1, <2>3, <2>4
      <3>2. <<>> \in Seq(Nat) /\ Len(<<>>) = 0 /\ \A c \in Seq(Nat) : Len(c) = 0 => c = <<>>
        BY EmptySeq
      <3>3. Leads(<<>>)
        BY <3>2 DEF Leads
      <3>4. P(0)
        BY <3>1, <3>2, <3>3
      <3> QED
        BY <2>3, <2>4, <3>4
    <2>5. CASE i # 0
      <3>1. i - 1 \in 0..n /\ i - 1 \notin T /\ i \in Nat
        BY <2>2, <2>3, <2>5
      <3>2. P(i - 1)
        BY <3>1
      <3>3. g[i] = UNION {Below(c) : c \in {d \in g[i - 1] : d = <<>> \/ Readable(d)}}
        BY <1>1, <2>3, <2>5
      <3>4. ASSUME NEW c \in g[i] PROVE c \in Seq(Nat) /\ Len(c) = i /\ Leads(c)
        <4>1. PICK d \in g[i - 1] : (d = <<>> \/ Readable(d)) /\ c \in Below(d)
          BY <3>3
        <4>2. PICK k \in DOMAIN Imports(FileOf(d)) : c = Append(d, k)
          BY <4>1 DEF Below
        <4>3. d \in Seq(Nat) /\ Len(d) = i - 1 /\ Leads(d)
          BY <3>2
        <4>4. k \in Nat
          BY <4>1, <4>2, ReachedFile
        <4> QED
          BY <3>1, <4>1, <4>2, <4>3, <4>4, LeadsGrow, LongerChain
      <3>5. ASSUME NEW c \in Seq(Nat), Len(c) = i, Leads(c) PROVE c \in g[i]
        <4> DEFINE d == Front(c)
                   k == Last(c)
        <4> HIDE DEF T
        <4>0. Len(c) > 0
          BY <2>5, <3>1, <3>5
        <4>1. d \in Seq(Nat) /\ k \in Nat /\ c = Append(d, k) /\ Len(d) = i - 1
          BY <3>5, <4>0, FrontFacts
        <4> HIDE DEF d, k
        <4>2. Leads(d) /\ (d = <<>> \/ Readable(d)) /\ k \in DOMAIN Imports(FileOf(d))
          BY <3>5, <4>1, LeadsGrow
        <4>3. d \in g[i - 1] /\ c \in Below(d)
          BY <3>2, <4>1, <4>2 DEF Below
        <4> QED
          BY <3>3, <4>2, <4>3
      <3>6. P(i)
        BY <3>4, <3>5
      <3> QED
        BY <2>3, <3>6
    <2> QED
      BY <2>4, <2>5
  <1> QED
    BY <1>2

(* The chains, number by number.                                            *)
LEMMA ChainIs ==
  ASSUME Outer
  PROVE  \A c : c \in Chain <=> c \in Seq(Nat) /\ Leads(c)
  <1> DEFINE b == Cardinality(Modules) + 1
             Step(f) == [n \in 0..b |->
                           IF n = 0 THEN {<<>>}
                           ELSE UNION {Below(c) : c \in {d \in f[n - 1] : d = <<>> \/ Readable(d)}}]
             g == CHOOSE f : f = Step(f)
  <1>1. b \in Nat
    BY FS_CardinalityType, FilesAssumption DEF Outer, Modules
  <1>2. \E f : f = Step(f)
    <2>1. PICK f : Levels(b, f)
      BY <1>1, LevelsExist
    <2>2. f = Step(f)
      BY <2>1, Zenon DEF Levels
    <2> QED
      BY <2>2, Zenon
  <1>3. g = Step(g)
    BY <1>2, Zenon
  <1>4. Chain = UNION {g[n] : n \in 0..b}
    BY Zenon DEF Chain
  <1>5. Levels(b, g)
    BY <1>3, Zenon DEF Levels
  <1> HIDE DEF g
  <1>6. \A i \in 0..b : \A c : c \in g[i] <=> c \in Seq(Nat) /\ Len(c) = i /\ Leads(c)
    BY <1>1, <1>5, LevelChains
  <1>7. \A c \in Seq(Nat) : Leads(c) => Len(c) \in 0..b
    BY LeadsShort
  <1> QED
    BY <1>4, <1>6, <1>7

(* An instance is below the one that a shorter chain leads to.              *)
Beyond(c, d) == Len(c) < Len(d) /\ Prefix(d, Len(c)) = c

LEMMA BeyondNext ==
  ASSUME NEW c \in Seq(Nat), NEW d \in Seq(Nat), Beyond(c, d)
  PROVE  LET k == d[Len(c) + 1]
             b == Append(c, k)
         IN  /\ k \in Nat /\ b \in Seq(Nat) /\ Len(b) = Len(c) + 1 /\ Len(c) \in Nat /\ Len(d) \in Nat
             /\ Prefix(d, Len(c) + 1) = b
             /\ d = b \/ Beyond(b, d)
  <1> DEFINE n == Len(c)
             k == d[n + 1]
             b == Append(c, k)
             p == Prefix(d, n + 1)
  <1>1. n \in Nat /\ Len(d) \in Nat /\ n < Len(d) /\ Prefix(d, n) = c
    BY LenProperties DEF Beyond
  <1>2. n \in 0..Len(d) /\ n + 1 \in 0..Len(d) /\ n + 1 \in 1..Len(d)
    BY <1>1
  <1>3. k \in Nat
    BY <1>2, ElementOfSeq
  <1>4. p \in Seq(Nat) /\ Len(p) = n + 1 /\ \A i \in 1..n + 1 : p[i] = d[i]
    BY <1>2, PrefixFacts
  <1>5. \A i \in 1..n : c[i] = d[i]
    BY <1>1, <1>2, PrefixFacts
  <1> HIDE DEF k, p
  <1>6. b \in Seq(Nat) /\ Len(b) = n + 1 /\ b[n + 1] = k /\ \A i \in 1..n : b[i] = c[i]
    BY <1>3, LongerChain
  <1> HIDE DEF b
  <1>7. \A i \in 1..n + 1 : p[i] = b[i]
    <2> TAKE i \in 1..n + 1
    <2>1. CASE i = n + 1
      BY <1>4, <1>6, <2>1 DEF k
    <2>2. CASE i # n + 1
      <3>1. i \in 1..n
        BY <1>1, <2>2
      <3> QED
        BY <1>4, <1>5, <1>6, <3>1
    <2> QED
      BY <2>1, <2>2
  <1>8. p = b
    BY <1>4, <1>6, <1>7, SameChain
  <1>9. d = b \/ Beyond(b, d)
    <2>1. CASE Len(d) = n + 1
      BY <1>8, <2>1, WholePrefix DEF p
    <2>2. CASE Len(d) # n + 1
      BY <1>1, <1>6, <1>8, <2>2 DEF Beyond, p
    <2> QED
      BY <2>1, <2>2
  <1> QED
    BY <1>1, <1>3, <1>6, <1>8, <1>9 DEF k, b, p

(* What is below an instance is below those it is below.                    *)
LEMMA BeyondBoth ==
  ASSUME NEW c \in Seq(Nat), NEW k \in Nat, NEW d \in Seq(Nat),
         d = Append(c, k) \/ Beyond(Append(c, k), d)
  PROVE  Beyond(c, d) /\ d[Len(c) + 1] = k
  <1> DEFINE b == Append(c, k)
             n == Len(c)
  <1>1. b \in Seq(Nat) /\ n \in Nat /\ Len(b) = n + 1 /\ b[n + 1] = k /\ Prefix(b, n) = c
    BY LongerChain
  <1>2. d = b \/ Beyond(b, d)
    OBVIOUS
  <1>3. Len(d) \in Nat
    BY LenProperties
  <1> HIDE DEF b
  <1>4. CASE d = b
    BY <1>1, <1>4 DEF Beyond
  <1>5. CASE Beyond(b, d)
    <2>1. n + 1 < Len(d) /\ Prefix(d, n + 1) = b
      BY <1>1, <1>5 DEF Beyond
    <2>2. n + 1 \in 0..Len(d) /\ n \in 0..n + 1 /\ n + 1 \in 1..n + 1
      BY <1>1, <1>3, <2>1
    <2>3. Prefix(d, n) = c
      BY <1>1, <2>1, <2>2, PrefixOfPrefix
    <2>4. d[n + 1] = k
      BY <1>1, <2>1, <2>2, PrefixFacts
    <2> QED
      BY <1>1, <1>3, <2>1, <2>3, <2>4 DEF Beyond
  <1> QED
    BY <1>2, <1>4, <1>5

-------------------------------------------------------------------------------
(* What is reported of the instances below a program.                       *)

(* What drops the instance d from the program that imports it.              *)
Faulty(R, d) == \E r \in R : IsPrefix(d, r.at) /\ (r.at = d => r.kind # "event")

Good(R, c, d) == \A n \in Len(c) + 1..Len(d) : ~Faulty(R, Prefix(d, n))

(* From R to S only h is reported.                                          *)
OnlyAbout(R, S, h) == R \subseteq S /\ \A r \in S \ R : r.at = h

(* The instances below c, at one of its first imports, with nothing wrong.  *)
GoodBelow(R, c, next) ==
  {d \in Chain : Beyond(c, d) /\ d[Len(c) + 1] < next /\ Good(R, c, d)}

LEMMA PrefixOfLonger ==
  ASSUME NEW c \in Seq(Nat), NEW k \in Nat
  PROVE  IsPrefix(c, Append(c, k))
  <1> DEFINE b == Append(c, k)
  <1>1. b \in Seq(Nat) /\ Len(c) \in Nat /\ Len(b) = Len(c) + 1 /\ Prefix(b, Len(c)) = c
    BY LongerChain
  <1> HIDE DEF b
  <1>2. IsPrefix(c, b)
    BY <1>1, PrefixMeans
  <1> QED
    BY <1>2 DEF b

(* A report about an import says nothing of the others.                     *)
LEMMA GoodStays ==
  ASSUME NEW R, NEW S, NEW h \in Seq(Nat), OnlyAbout(R, S, h),
         NEW c \in Seq(Nat), NEW d \in Seq(Nat), Beyond(c, d),
         Beyond(c, h) => d[Len(c) + 1] # h[Len(c) + 1], IsPrefix(c, h)
  PROVE  Good(S, c, d) <=> Good(R, c, d)
  <1> DEFINE n == Len(c)
  <1>1. n \in Nat /\ Len(d) \in Nat /\ Len(h) \in Nat /\ n < Len(d)
    BY LenProperties DEF Beyond
  <1>2. ASSUME NEW i \in n + 1..Len(d) PROVE Faulty(S, Prefix(d, i)) <=> Faulty(R, Prefix(d, i))
    <2> DEFINE p == Prefix(d, i)
    <2>1. i \in 0..Len(d) /\ n + 1 \in 1..i
      BY <1>1
    <2>2. p \in Seq(Nat) /\ Len(p) = i /\ p[n + 1] = d[n + 1]
      BY <2>1, PrefixFacts
    <2> HIDE DEF p
    <2>3. ASSUME IsPrefix(p, h) PROVE FALSE
      <3>1. i <= Len(h) /\ p[n + 1] = h[n + 1]
        BY <2>1, <2>2, <2>3, PrefixMeans
      <3>2. Beyond(c, h)
        <4>1. Prefix(h, n) = c
          BY PrefixMeans
        <4> QED
          BY <1>1, <2>1, <3>1, <4>1 DEF Beyond
      <3> QED
        BY <2>2, <3>1, <3>2
    <2> QED
      BY <2>3 DEF Faulty, p, OnlyAbout
  <1> QED
    BY <1>2 DEF Good

(* ... nor of what was imported before.                                     *)
LEMMA SameBelow ==
  ASSUME Outer, NEW R, NEW S, NEW h \in Seq(Nat), OnlyAbout(R, S, h),
         NEW c \in Seq(Nat), IsPrefix(c, h), NEW k \in Nat, Beyond(c, h) => h[Len(c) + 1] >= k
  PROVE  GoodBelow(S, c, k) = GoodBelow(R, c, k)
  <1>1. ASSUME NEW d \in Chain, Beyond(c, d), d[Len(c) + 1] < k
        PROVE  Good(S, c, d) <=> Good(R, c, d)
    <2>1. d \in Seq(Nat)
      BY ChainIs
    <2>2. d[Len(c) + 1] \in Nat
      BY <1>1, <2>1, BeyondNext
    <2>3. Beyond(c, h) => h[Len(c) + 1] \in Nat
      BY BeyondNext
    <2>4. Beyond(c, h) => d[Len(c) + 1] # h[Len(c) + 1]
      BY <1>1, <2>2, <2>3
    <2> QED
      BY <1>1, <2>1, <2>4, GoodStays
  <1> QED
    BY <1>1 DEF GoodBelow

(* The instances below c at its first k imports are those at one import     *)
(* less, and at the k-th.                                                   *)
LEMMA OneImportMore ==
  ASSUME Outer, NEW R, NEW c \in Seq(Nat), NEW k \in Nat
  PROVE  GoodBelow(R, c, k + 1)
           = GoodBelow(R, c, k) \cup {d \in Chain : Beyond(c, d) /\ d[Len(c) + 1] = k /\ Good(R, c, d)}
  <1>1. \A d \in Chain : Beyond(c, d) => d[Len(c) + 1] \in Nat
    BY ChainIs, BeyondNext
  <1>2. \A d \in Chain : Beyond(c, d) =>
          (d[Len(c) + 1] < k + 1 <=> d[Len(c) + 1] < k \/ d[Len(c) + 1] = k)
    BY <1>1
  <1> QED
    BY <1>2 DEF GoodBelow

(* An import with something wrong adds nothing.                             *)
LEMMA FaultyBelow ==
  ASSUME Outer, NEW R, NEW S, NEW c \in Seq(Nat), NEW k \in Nat, OnlyAbout(R, S, Append(c, k)),
         Faulty(S, Append(c, k))
  PROVE  GoodBelow(S, c, k + 1) = GoodBelow(R, c, k)
  <1> DEFINE b == Append(c, k)
  <1>1. /\ b \in Seq(Nat) /\ Len(c) \in Nat /\ Len(b) = Len(c) + 1 /\ b[Len(c) + 1] = k
        /\ \A i \in 1..Len(c) : b[i] = c[i]
    BY LongerChain
  <1>2. IsPrefix(c, b)
    BY PrefixOfLonger
  <1>3. ASSUME NEW d \in Chain, Beyond(c, d), d[Len(c) + 1] = k PROVE ~Good(S, c, d)
    <2>1. d \in Seq(Nat)
      BY ChainIs
    <2>2. Prefix(d, Len(c) + 1) = b /\ Len(c) + 1 \in Len(c) + 1..Len(d)
      BY <1>1, <1>3, <2>1, BeyondNext DEF Beyond
    <2>3. Faulty(S, Prefix(d, Len(c) + 1))
      BY <2>2
    <2> HIDE DEF b
    <2> QED
      BY <2>2, <2>3 DEF Good
  <1>4. GoodBelow(S, c, k) = GoodBelow(R, c, k)
    <2>1. OnlyAbout(R, S, b) /\ b[Len(c) + 1] >= k
      BY <1>1
    <2> HIDE DEF b
    <2> QED
      BY <1>1, <1>2, <2>1, SameBelow
  <1> HIDE DEF b
  <1>5. GoodBelow(S, c, k + 1) = GoodBelow(S, c, k)
    <2>1. {d \in Chain : Beyond(c, d) /\ d[Len(c) + 1] = k /\ Good(S, c, d)} = {}
      BY <1>3
    <2>2. GoodBelow(S, c, k + 1)
            = GoodBelow(S, c, k) \cup {d \in Chain : Beyond(c, d) /\ d[Len(c) + 1] = k /\ Good(S, c, d)}
      BY OneImportMore
    <2> QED
      BY <2>1, <2>2
  <1> QED
    BY <1>4, <1>5

(* An import with nothing wrong, but for its own events, adds itself and    *)
(* what it has kept.                                                        *)
Adds(R, S, c, k, b, j) ==
  \A d : d \in GoodBelow(S, c, k + 1) <=>
           d \in GoodBelow(R, c, k) \/ d \in GoodBelow(R, b, j) \/ d = b

LEMMA TakenBelow ==
  ASSUME Outer, NEW R, NEW S, NEW c \in Seq(Nat), NEW k \in Nat, NEW b \in Chain, b = Append(c, k),
         OnlyAbout(R, S, b), \A r \in S : r \in R \/ r.kind = "event",
         \A r \in R : r.at \in Seq(Nat) /\ ~IsPrefix(b, r.at),
         NEW j, \A d \in Chain : Beyond(b, d) => d[Len(c) + 2] < j
  PROVE  Adds(R, S, c, k, b, j)
  <1> DEFINE n == Len(c)
  <1>1. /\ b \in Seq(Nat) /\ n \in Nat /\ Len(b) = n + 1 /\ b[n + 1] = k
        /\ \A i \in 1..n : b[i] = c[i]
    BY LongerChain
  <1>2. IsPrefix(c, b)
    BY PrefixOfLonger
  <1>3. ASSUME NEW p \in Seq(Nat), IsPrefix(b, p) PROVE ~Faulty(S, p) /\ ~Faulty(R, p)
    <2> SUFFICES ASSUME NEW r \in S, IsPrefix(p, r.at) PROVE r.at = p /\ r.kind = "event"
      BY DEF Faulty, OnlyAbout
    <2>0. p \in Seq(Nat) /\ IsPrefix(b, p) /\ b \in Seq(Nat) /\ Len(b) = n + 1
      BY <1>1, <1>3
    <2>1. n + 1 <= Len(p) /\ \A i \in 1..n + 1 : b[i] = p[i]
      BY ONLY <2>0, PrefixMeans
    <2>2. Len(p) \in Nat
      BY LenProperties
    <2>3. CASE r \in R
      <3>1. r.at \in Seq(Nat) /\ ~IsPrefix(b, r.at)
        BY <2>3
      <3> DEFINE q == r.at
      <3>2. q \in Seq(Nat) /\ Len(q) \in Nat
        BY <3>1, LenProperties
      <3> HIDE DEF q
      <3>3. Len(p) <= Len(q) /\ \A i \in 1..Len(p) : p[i] = q[i]
        BY <3>2, PrefixMeans DEF q
      <3>4. \A i \in 1..n + 1 : b[i] = q[i]
        <4> TAKE i \in 1..n + 1
        <4>1. i \in 1..Len(p)
          BY <1>1, <2>1, <2>2
        <4> QED
          BY ONLY <2>1, <3>3, <4>1
      <3>5. IsPrefix(b, q)
        <4>1. Len(b) <= Len(q)
          BY <1>1, <2>1, <2>2, <3>2, <3>3
        <4> QED
          BY ONLY <1>1, <3>2, <3>4, <4>1, PrefixMeans
      <3> QED
        BY <3>1, <3>5 DEF q
    <2>4. CASE r \in S \ R
      <3>1. r.at = b /\ r.kind = "event"
        BY <2>4 DEF OnlyAbout
      <3>2. IsPrefix(p, b)
        BY <3>1
      <3>3. Len(p) <= n + 1
        BY ONLY <2>0, <3>2, PrefixMeans
      <3>4. Len(p) = Len(b) /\ \A i \in 1..Len(b) : b[i] = p[i]
        BY <1>1, <2>1, <2>2, <3>3
      <3>5. p = b
        BY ONLY <2>0, <3>4, SameChain
      <3> QED
        BY <3>1, <3>5
    <2> QED
      BY <2>3, <2>4
  <1>4. ASSUME NEW d \in Seq(Nat), d = b \/ Beyond(b, d)
        PROVE  (\A i \in n + 1..Len(d) : ~Faulty(S, Prefix(d, i)) /\ ~Faulty(R, Prefix(d, i)))
    <2> TAKE i \in n + 1..Len(d)
    <2>0. /\ d \in Seq(Nat) /\ b \in Seq(Nat) /\ Len(b) = n + 1 /\ n \in Nat
          /\ (d = b \/ Beyond(b, d)) /\ i \in n + 1..Len(d)
      BY <1>1, <1>4
    <2>1. Len(d) \in Nat /\ n + 1 <= Len(d) /\ Prefix(d, n + 1) = b
      BY ONLY <2>0, LenProperties, WholePrefix DEF Beyond
    <2>2. i \in 0..Len(d) /\ n + 1 \in 0..i
      BY <1>1, <2>1
    <2> DEFINE p == Prefix(d, i)
    <2>3. p \in Seq(Nat) /\ Len(p) = i /\ Prefix(p, n + 1) = b
      BY <2>1, <2>2, PrefixFacts, PrefixOfPrefix
    <2> HIDE DEF p
    <2>4. IsPrefix(b, p)
      BY ONLY <2>0, <2>2, <2>3, PrefixMeans
    <2> QED
      BY <1>3, <2>3, <2>4 DEF p
  <1>5. ASSUME NEW d \in Chain
        PROVE  Beyond(c, d) /\ d[n + 1] = k /\ Good(S, c, d)
                 <=> d = b \/ (Beyond(b, d) /\ d[n + 2] < j /\ Good(R, b, d))
    <2>1. d \in Seq(Nat)
      BY ChainIs
    <2>2. Beyond(c, d) /\ d[n + 1] = k <=> d = b \/ Beyond(b, d)
      BY <2>1, BeyondNext, BeyondBoth
    <2>3. Beyond(b, d) => d[n + 2] < j
      OBVIOUS
    <2>4. ASSUME d = b \/ Beyond(b, d) PROVE Good(S, c, d)
      BY <1>4, <2>1, <2>4 DEF Good, n
    <2>5. ASSUME Beyond(b, d) PROVE Good(R, b, d)
      <3>1. \A i \in n + 1 + 1..Len(d) : i \in n + 1..Len(d)
        BY <1>1, LenProperties, <2>1
      <3> QED
        BY <1>1, <1>4, <2>1, <2>5, <3>1 DEF Good
    <2> QED
      BY <2>2, <2>3, <2>4, <2>5
  <1>6. GoodBelow(S, c, k) = GoodBelow(R, c, k)
    <2>1. OnlyAbout(R, S, b) /\ b[n + 1] >= k /\ Outer /\ c \in Seq(Nat) /\ k \in Nat
      BY <1>1
    <2> QED
      BY ONLY <1>1, <1>2, <2>1, SameBelow DEF n
  <1>7. n + 1 + 1 = n + 2
    BY <1>1
  <1>8. b \in Chain
    OBVIOUS
  <1>9. {d \in Chain : Beyond(c, d) /\ d[n + 1] = k /\ Good(S, c, d)} = GoodBelow(R, b, j) \cup {b}
    BY <1>1, <1>5, <1>7, <1>8 DEF GoodBelow
  <1>10. GoodBelow(S, c, k + 1) = GoodBelow(R, c, k) \cup (GoodBelow(R, b, j) \cup {b})
    BY <1>6, <1>9, OneImportMore
  <1> QED
    BY <1>10 DEF Adds

-------------------------------------------------------------------------------
(* The chains of the programs of the stack.                                 *)

LEMMA SameChains ==
  ASSUME UNCHANGED fixed
  PROVE  /\ Chain' = Chain
         /\ \A c : Readable(c)' <=> Readable(c)
         /\ \A c : Place(c)' = Place(c)
         /\ \A R, c, k : GoodBelow(R, c, k)' = GoodBelow(R, c, k)
  <1>1. files' = files /\ entry' = entry
    BY DEF fixed
  <1>2. Chain' = Chain
    BY <1>1, SMT DEF Chain, Below, Readable, Cyclic, FileOf, Imports, Modules
  <1>3. \A c : Readable(c)' <=> Readable(c)
    BY <1>1, SMT DEF Readable, Cyclic, FileOf, Imports, Modules
  <1>4. \A c : Place(c)' = Place(c)
    BY <1>1, SMT DEF Place, Import, FileOf, Imports
  <1>5. \A R, c, k : GoodBelow(R, c, k)' = GoodBelow(R, c, k)
    BY <1>2 DEF GoodBelow
  <1> QED
    BY <1>2, <1>3, <1>4, <1>5

LEMMA StandFacts ==
  ASSUME IInv, Standing, NEW n \in 1..Len(stack)
  PROVE  LET fr == stack[n]
         IN  /\ Sane(files, fr) /\ Framed(files, fr)
             /\ fr.chain \in Seq(Nat) /\ Len(fr.chain) = n - 1 /\ FileOf(fr.chain) = fr.file
             /\ fr.next \in Nat
  <1>1. Sane(files, stack[n]) /\ Framed(files, stack[n])
    BY DEF IInv, Stacked, Sane
  <1>2. Reached(n, stack[n])
    BY DEF Standing
  <1>3. stack[n].next \in Nat /\ stack[n].chain \in Seq(Nat)
    BY <1>1 DEF Framed
  <1> QED
    BY <1>1, <1>2, <1>3 DEF Reached

(* Each chain continues those below it on the stack.                        *)
LEMMA ChainsNest ==
  ASSUME IInv, Standing, NEW m \in 1..Len(stack)
  PROVE  \A n \in m..Len(stack) :
           /\ Prefix(stack[n].chain, m - 1) = stack[m].chain
           /\ n > m => stack[n].chain[m] = stack[m].next
  <1> DEFINE P(n) == /\ Prefix(stack[n].chain, m - 1) = stack[m].chain
                     /\ n > m => stack[n].chain[m] = stack[m].next
             T == {n \in m..Len(stack) : ~P(n)}
  <1>1. Len(stack) \in Nat
    BY TopFacts
  <1>2. \A n \in 1..Len(stack) :
          /\ stack[n].chain \in Seq(Nat) /\ Len(stack[n].chain) = n - 1
          /\ stack[n].next \in Nat
    BY StandFacts
  <1>3. ASSUME T # {} PROVE FALSE
    <2>1. T \in SUBSET Nat
      BY <1>1
    <2>2. PICK n \in T : \A l \in T : n <= l
      BY <1>3, <2>1, LeastNumber
    <2>3. n \in 1..Len(stack) /\ n \in m..Len(stack) /\ ~P(n)
      BY <1>1, <2>2
    <2>4. CASE n = m
      BY <1>2, <2>3, <2>4, WholePrefix
    <2>5. CASE n # m
      <3> DEFINE c == stack[n - 1].chain
                 k == stack[n - 1].next
                 d == stack[n].chain
      <3>1. n - 1 \in m..Len(stack) /\ n - 1 \in 1..Len(stack) - 1 /\ n - 1 \notin T
        BY <1>1, <2>2, <2>3, <2>5
      <3>2. P(n - 1) /\ n - 1 \in 1..Len(stack) /\ n - 1 + 1 = n
        BY <3>1, <1>1
      <3>3. c \in Seq(Nat) /\ Len(c) = n - 2 /\ k \in Nat
        <4>1. n - 1 - 1 = n - 2
          BY <1>1, <2>3
        <4>2. Len(c) = n - 1 - 1
          BY <1>2, <3>2
        <4> QED
          BY <1>2, <3>2, <4>1, <4>2
      <3>4. d = Append(c, k)
        BY <3>1, <3>2 DEF IInv, Stacked, Linked
      <3> HIDE DEF c, k, d
      <3>5. m - 1 \in 0..Len(c) /\ (n - 1 # m => m \in 1..Len(c)) /\ (n - 1 = m => Len(c) + 1 = m)
        BY <2>3, <2>5, <3>3, <1>1
      <3>6. Prefix(d, m - 1) = Prefix(c, m - 1)
        BY <3>3, <3>4, <3>5, LongerChain
      <3>7. n - 1 # m => d[m] = c[m]
        BY <3>3, <3>4, <3>5, LongerChain
      <3>8. n - 1 = m => d[m] = k
        BY <3>3, <3>4, <3>5, LongerChain
      <3>9. n - 1 # m => n - 1 > m
        BY <2>3, <3>1
      <3>10. P(n)
        BY <3>2, <3>6, <3>7, <3>8, <3>9 DEF c, d, k
      <3> QED
        BY <2>3, <3>10
    <2> QED
      BY <2>4, <2>5
  <1> QED
    BY <1>3

(* The import a program is at is at the import of every program below it.   *)
LEMMA HereBeyond ==
  ASSUME IInv, Standing, NEW m \in 1..Len(stack), NEW n \in 1..m
  PROVE  LET c == stack[n].chain
             h == Here(stack[m])
         IN  /\ c \in Seq(Nat) /\ h \in Seq(Nat) /\ stack[n].next \in Nat
             /\ IsPrefix(c, h) /\ c # h /\ Beyond(c, h)
             /\ h[Len(c) + 1] = stack[n].next
  <1> DEFINE c == stack[n].chain
             b == stack[m].chain
             h == Here(stack[m])
  <1>1. Len(stack) \in Nat /\ n \in 1..Len(stack) /\ m \in n..Len(stack)
    BY TopFacts
  <1>2. /\ Prefix(b, n - 1) = c
        /\ m > n => b[n] = stack[n].next
    BY <1>1, ChainsNest
  <1>4. /\ c \in Seq(Nat) /\ Len(c) = n - 1 /\ stack[n].next \in Nat
        /\ b \in Seq(Nat) /\ Len(b) = m - 1 /\ stack[m].next \in Nat
    BY <1>1, StandFacts
  <1>5. h = Append(b, stack[m].next)
    BY DEF Here
  <1> HIDE DEF b, c, h
  <1>6. /\ h \in Seq(Nat) /\ Len(h) = m
        /\ \A i \in 1..m - 1 : h[i] = b[i]
        /\ h[m] = stack[m].next
        /\ \A i \in 0..m - 1 : Prefix(h, i) = Prefix(b, i)
    <2>1. m - 1 + 1 = m
      BY <1>1
    <2> QED
      BY <1>4, <1>5, <2>1, LongerChain
  <1>7. n - 1 \in 0..m - 1 /\ (m # n => n \in 1..m - 1 /\ m > n) /\ n - 1 < m /\ n - 1 + 1 = n
    BY <1>1
  <1>8. Prefix(h, Len(c)) = c
    BY <1>2, <1>4, <1>6, <1>7
  <1>9. h[n] = stack[n].next
    BY <1>2, <1>6, <1>7
  <1>10. IsPrefix(c, h) /\ c # h /\ Beyond(c, h)
    <2>1. Len(c) < Len(h) /\ Len(c) <= Len(h) /\ Len(c) # Len(h)
      BY <1>1, <1>4, <1>6
    <2> QED
      BY <1>4, <1>6, <1>8, <2>1, PrefixMeans DEF Beyond
  <1> QED
    BY <1>4, <1>6, <1>7, <1>9, <1>10 DEF c, h

(* The programs that were opened could be read and were not on the path.    *)
AllRead == \A n \in 2..Len(stack) : Readable(stack[n].chain)

LEMMA OnChains ==
  ASSUME IInv, Standing, AllRead
  PROVE  \A n \in 1..Len(stack) : stack[n].chain \in Chain
  <1> DEFINE T == {n \in 1..Len(stack) : ~Leads(stack[n].chain)}
  <1>1. Len(stack) \in Nat /\ Outer
    BY TopFacts DEF IInv
  <1>2. \A n \in 1..Len(stack) :
          /\ Framed(files, stack[n])
          /\ stack[n].chain \in Seq(Nat) /\ Len(stack[n].chain) = n - 1
          /\ FileOf(stack[n].chain) = stack[n].file
          /\ stack[n].next \in Nat
    BY StandFacts
  <1>3. ASSUME T # {} PROVE FALSE
    <2>1. T \in SUBSET Nat
      BY <1>1
    <2>2. PICK n \in T : \A l \in T : n <= l
      BY <1>3, <2>1, LeastNumber
    <2>3. n \in 1..Len(stack) /\ ~Leads(stack[n].chain)
      BY <2>2
    <2>4. CASE n = 1
      <3>1. stack[n].chain = <<>>
        BY <1>2, <2>3, <2>4, EmptySeq
      <3>2. Len(<<>>) = 0
        BY EmptySeq
      <3> QED
        BY <2>3, <3>1, <3>2 DEF Leads
    <2>5. CASE n # 1
      <3> DEFINE c == stack[n - 1].chain
                 k == stack[n - 1].next
      <3>1. n - 1 \in 1..Len(stack) - 1 /\ n - 1 \in 1..Len(stack) /\ n - 1 \notin T /\ n - 1 + 1 = n
        BY <1>1, <2>2, <2>3, <2>5
      <3>2. Leads(c) /\ c \in Seq(Nat) /\ Len(c) = n - 2 /\ k \in Nat /\ FileOf(c) = stack[n - 1].file
        BY <1>2, <3>1, <2>3
      <3>3. Linked(files, stack[n - 1], stack[n])
        BY <3>1 DEF IInv, Stacked
      <3>4. stack[n].chain = Append(c, k)
        BY <3>3 DEF Linked
      <3>5. k \in DOMAIN Imports(FileOf(c))
        <4>1. stack[n - 1].file \in DOMAIN files
          BY <1>2, <3>1 DEF Framed
        <4>2. DOMAIN files[stack[n - 1].file].imports = 1..Len(files[stack[n - 1].file].imports)
          BY <1>1, <4>1, FileFacts
        <4> QED
          BY <3>2, <3>3, <4>2 DEF Linked, Imports
      <3>6. c = <<>> \/ Readable(c)
        <4>1. CASE n = 2
          BY <3>2, <4>1, EmptySeq
        <4>2. CASE n # 2
          <5>1. n - 1 \in 2..Len(stack)
            BY <1>1, <3>1, <4>2
          <5> QED
            BY <5>1 DEF AllRead
        <4> QED
          BY <4>1, <4>2
      <3> HIDE DEF c, k
      <3> QED
        BY <2>3, <3>2, <3>4, <3>5, <3>6, LeadsGrow
    <2> QED
      BY <2>4, <2>5
  <1> QED
    BY <1>1, <1>2, <1>3, ChainIs

-------------------------------------------------------------------------------
(* What a step reports.                                                     *)

Living == mode \in {"assembling", "done"}

(* The program number m goes on without what it imports, and something is   *)
(* reported of that or was reported inside it.                              *)
Loses(m) ==
  /\ m \in {Len(stack) - 1, Len(stack)} /\ m > 0
  /\ Shape(m, GoesOn(stack[m]))
  /\ OnlyAbout(reported, reported', Here(stack[m]))
  /\ \/ \E r \in reported' : r.at = Here(stack[m]) /\ r.kind # "event"
     \/ m < Len(stack) /\ reported # Top.since

(* The program that imports takes over the innermost one.                   *)
Gains ==
  /\ Named /\ Len(stack) > 1
  /\ Shape(Len(stack) - 1, GoesOn(Extended(Current(Host), Host, Top)))
  /\ OnlyAbout(reported, reported', Here(Host))
  /\ \A r \in reported' \ reported : r.kind = "event"

LEMMA StepEffects ==
  ASSUME IInv, [Next]_vars
  PROVE  /\ UNCHANGED fixed
         /\ Living' => Living
         /\ (\E m \in Nat : Loses(m)) \/ Load \/ Gains \/ (Crash /\ ~Living') \/ Stays
  <1>1. /\ Len(stack) \in Nat /\ Len(stack) > 0
        /\ Framed(files, Top)
        /\ Len(stack) > 1 => Framed(files, Host) /\ Linked(files, Host, Top)
    BY TopFacts DEF Sane
  <1>2. Top = stack[Len(stack)] /\ Host = stack[Len(stack) - 1]
    BY DEF Top, Host
  <1>3. ASSUME NEW h, NEW kind, Report(h, kind)
        PROVE  /\ OnlyAbout(reported, reported', h)
               /\ \A r \in reported' \ reported : r.kind = kind
               /\ \E r \in reported' : r.at = h /\ r.kind = kind
               /\ Living' => Living
    <2> DEFINE x == [at |-> h, kind |-> kind]
    <2>1. reported' = reported \cup {x} /\ (mode' = mode \/ mode' = "raised")
      BY <1>3 DEF Report
    <2>2. x.at = h /\ x.kind = kind
      OBVIOUS
    <2> HIDE DEF x
    <2> QED
      BY <2>1, <2>2 DEF OnlyAbout, Living
  <1>4. ASSUME Len(stack) > 1 PROVE Top.chain = Here(Host)
    BY <1>1, <1>4 DEF Linked, Here
  <1>5. ASSUME NEW kind \in Kind \ {"event"}, Passes(kind)
        PROVE  UNCHANGED fixed /\ (Living' => Living) /\ Loses(Len(stack))
    <2>1. Shape(Len(stack), GoesOn(Top)) /\ Report(Here(Top), kind) /\ UNCHANGED fixed
      BY <1>5, SkipShape DEF Passes, Skip
    <2> QED
      BY <1>1, <1>2, <1>3, <2>1 DEF Loses
  <1>6. ASSUME Drops
        PROVE  UNCHANGED fixed /\ (Living' => Living) /\ Loses(Len(stack) - 1)
    <2>1. Len(stack) > 1 /\ Return(Host) /\ UNCHANGED fixed
      BY <1>6 DEF Drops, Returning, RejectNested, Drop
    <2>2. Shape(Len(stack) - 1, GoesOn(Host))
      BY <2>1, ReturnShape
    <2>3. Top.chain = Here(Host) /\ Len(stack) - 1 > 0 /\ Len(stack) - 1 < Len(stack)
      BY <1>1, <1>4, <2>1
    <2>4. CASE RejectNested
      <3>1. reported' = reported /\ mode' = mode /\ reported # Top.since
        BY <2>4 DEF RejectNested
      <3>2. OnlyAbout(reported, reported', Here(Host)) /\ (Living' => Living)
        BY <3>1 DEF OnlyAbout, Living
      <3> QED
        BY <1>2, <2>1, <2>2, <2>3, <3>1, <3>2 DEF Loses
    <2>5. ASSUME NEW kind \in Kind \ {"event"}, Drop(kind)
          PROVE  (Living' => Living) /\ Loses(Len(stack) - 1)
      <3>1. Report(Here(Host), kind)
        BY <2>3, <2>5 DEF Drop
      <3>2. /\ OnlyAbout(reported, reported', Here(Host)) /\ (Living' => Living)
            /\ \E r \in reported' : r.at = Here(Host) /\ r.kind # "event"
        BY <1>3, <3>1
      <3> QED
        BY <1>2, <2>2, <2>3, <3>2 DEF Loses
    <2> QED
      BY <1>6, <2>1, <2>4, <2>5 DEF Drops
  <1>7. ASSUME Takes
        PROVE  UNCHANGED fixed /\ (Living' => Living) /\ Gains
    <2>1. /\ Named /\ Len(stack) > 1 /\ UNCHANGED fixed
          /\ Return(Extended(Current(Host), Host, Top))
      BY <1>7 DEF Takes, Binding, Named, Clean, Returning, Merge, MergeReporting
    <2>2. Shape(Len(stack) - 1, GoesOn(Extended(Current(Host), Host, Top)))
      BY <2>1, ReturnShape
    <2>3. Top.chain = Here(Host)
      BY <1>4, <2>1
    <2>4. /\ OnlyAbout(reported, reported', Here(Host)) /\ (Living' => Living)
          /\ \A r \in reported' \ reported : r.kind = "event"
      <3>1. CASE Merge
        BY <3>1 DEF Merge, OnlyAbout, Living
      <3>2. CASE MergeReporting
        <4>1. Report(Here(Host), "event")
          BY <2>3, <3>2 DEF MergeReporting
        <4> QED
          BY <1>3, <4>1
      <3> QED
        BY <1>7, <3>1, <3>2 DEF Takes
    <2> QED
      BY <2>1, <2>2, <2>4 DEF Gains
  <1>8. Load => UNCHANGED fixed /\ (Living' => Living)
    BY DEF Load, Living
  <1>9. Crash => UNCHANGED fixed /\ ~Living'
    BY DEF Crash, Living
  <1>10. Stays => UNCHANGED fixed /\ (Living' => Living)
    BY DEF Stays, Living
  <1>11. Len(stack) \in Nat /\ (Len(stack) > 1 => Len(stack) - 1 \in Nat)
    BY <1>1
  <1>12. Drops => Len(stack) > 1
    BY DEF Drops, Returning, RejectNested, Drop
  <1> QED
    BY <1>5, <1>6, <1>7, <1>8, <1>9, <1>10, <1>11, <1>12, StepKinds

(* A frame that goes on stands where it stood.                              *)
LEMMA LosesFields ==
  ASSUME IInv, NEW m, Loses(m)
  PROVE  LET e == GoesOn(stack[m])
         IN  /\ m \in Nat /\ m \in 1..Len(stack) /\ Shape(m, e)
             /\ e.file = stack[m].file /\ e.chain = stack[m].chain
             /\ e.next = stack[m].next + 1 /\ e.since = stack[m].since
             /\ e.defs = stack[m].defs /\ e.sources = stack[m].sources
             /\ e.writes = stack[m].writes /\ e.refs = stack[m].refs
             /\ e.grafts = stack[m].grafts /\ e.kept = stack[m].kept
  <1>1. Len(stack) \in Nat
    BY TopFacts
  <1>2. m \in Nat /\ m \in 1..Len(stack) /\ Shape(m, GoesOn(stack[m]))
    BY <1>1 DEF Loses
  <1>3. Framed(files, stack[m])
    BY <1>2 DEF IInv, Stacked, Sane
  <1> QED
    BY <1>2, <1>3, GoesOnFields

LEMMA GainsFields ==
  ASSUME IInv, Gains
  PROVE  LET e == GoesOn(Extended(Current(Host), Host, Top))
             m == Len(stack) - 1
         IN  /\ m \in Nat /\ m \in 1..Len(stack) /\ Shape(m, e) /\ stack[m] = Host
             /\ e.file = Host.file /\ e.chain = Host.chain /\ e.next = Host.next + 1
             /\ e.since = Host.since
             /\ e.defs = MergedDefs(Current(Host), Host, Top)
             /\ e.sources = MergedSources(Current(Host), Host, Top)
             /\ e.writes = Host.writes \cup {IF v \in DOMAIN Top.defs THEN Target(Current(Host), v) ELSE v :
                                               v \in Top.writes}
             /\ e.refs = Host.refs \cup RewrittenRefs(Current(Host), Top)
             /\ e.grafts = Host.grafts \cup Grafted(Current(Host), Top)
             /\ e.kept = Host.kept \cup Top.kept \cup {Top.chain}
             /\ Top.chain = Append(Host.chain, Host.next) /\ Here(Host) = Top.chain
             /\ reported = Top.since /\ Top.next > Len(Imports(Top.file))
  <1> DEFINE x == Extended(Current(Host), Host, Top)
             m == Len(stack) - 1
  <1>1. Len(stack) \in Nat /\ Framed(files, Host) /\ Linked(files, Host, Top) /\ Len(stack) > 1
    BY TopFacts DEF Sane, Gains
  <1>2. m \in Nat /\ m \in 1..Len(stack) /\ Shape(m, GoesOn(x)) /\ stack[m] = Host
    BY <1>1 DEF Gains, Host
  <1>3. /\ Framed(files, x)
        /\ x.file = Host.file /\ x.chain = Host.chain /\ x.next = Host.next /\ x.since = Host.since
        /\ x.defs = MergedDefs(Current(Host), Host, Top)
        /\ x.sources = MergedSources(Current(Host), Host, Top)
        /\ x.writes = Host.writes \cup {IF v \in DOMAIN Top.defs THEN Target(Current(Host), v) ELSE v :
                                          v \in Top.writes}
        /\ x.refs = Host.refs \cup RewrittenRefs(Current(Host), Top)
        /\ x.grafts = Host.grafts \cup Grafted(Current(Host), Top)
        /\ x.kept = Host.kept \cup Top.kept \cup {Top.chain}
    BY <1>1, ExtendedFields
  <1>4. Top.chain = Append(Host.chain, Host.next) /\ Here(Host) = Top.chain
    BY <1>1 DEF Linked, Here
  <1>5. reported = Top.since /\ Top.next > Len(Imports(Top.file))
    BY DEF Gains, Named, Clean, Returning
  <1> HIDE DEF x
  <1>6. /\ GoesOn(x).file = x.file /\ GoesOn(x).chain = x.chain /\ GoesOn(x).next = x.next + 1
        /\ GoesOn(x).since = x.since /\ GoesOn(x).defs = x.defs /\ GoesOn(x).sources = x.sources
        /\ GoesOn(x).writes = x.writes /\ GoesOn(x).refs = x.refs
        /\ GoesOn(x).grafts = x.grafts /\ GoesOn(x).kept = x.kept
    BY <1>3, GoesOnFields
  <1> QED
    BY <1>2, <1>3, <1>4, <1>5, <1>6 DEF x

(* The programs that stay on the stack stay at their chains.                *)
LEMMA StepChains ==
  ASSUME IInv, [Next]_vars
  PROVE  \A n \in 1..Len(stack') :
           \/ n \in 1..Len(stack) /\ stack'[n].chain = stack[n].chain
           \/ /\ Load /\ n = Len(stack) + 1
              /\ stack'[n] = Opened(Current(Top).file, Here(Top), reported)
  <1>1. Len(stack) \in Nat
    BY TopFacts
  <1>2. ASSUME NEW m \in 1..Len(stack), NEW e, Shape(m, e), e.chain = stack[m].chain
        PROVE  \A n \in 1..Len(stack') : n \in 1..Len(stack) /\ stack'[n].chain = stack[n].chain
    <2> TAKE n \in 1..Len(stack')
    <2>1. n \in 1..Len(stack) /\ (n = m \/ n \in 1..m - 1)
      BY <1>1, <1>2 DEF Shape
    <2> QED
      BY <1>2, <2>1 DEF Shape
  <1>3. ASSUME NEW m \in Nat, Loses(m)
        PROVE  \A n \in 1..Len(stack') : n \in 1..Len(stack) /\ stack'[n].chain = stack[n].chain
    BY <1>2, <1>3, LosesFields
  <1>4. ASSUME Gains
        PROVE  \A n \in 1..Len(stack') : n \in 1..Len(stack) /\ stack'[n].chain = stack[n].chain
    BY <1>2, <1>4, GainsFields
  <1>5. ASSUME Load, NEW n \in 1..Len(stack')
        PROVE  \/ n \in 1..Len(stack) /\ stack'[n].chain = stack[n].chain
               \/ n = Len(stack) + 1 /\ stack'[n] = Opened(Current(Top).file, Here(Top), reported)
    <2>1. Shape(Len(stack) + 1, Opened(Current(Top).file, Here(Top), reported))
      BY <1>5, LoadShape DEF Load
    <2>2. n = Len(stack) + 1 \/ (n \in 1..Len(stack) /\ n \in 1..Len(stack) + 1 - 1)
      BY <1>1, <1>5, <2>1 DEF Shape
    <2> QED
      BY <2>1, <2>2 DEF Shape
  <1>6. Crash \/ Stays => stack' = stack
    BY DEF Crash, Stays
  <1> QED
    BY <1>3, <1>4, <1>5, <1>6, StepEffects

LEMMA AllReadNext ==
  ASSUME IInv, [Next]_vars, Standing, AllRead
  PROVE  AllRead'
  <1>1. Len(stack) \in Nat /\ Outer
    BY TopFacts DEF IInv
  <1>2. UNCHANGED fixed
    BY StepEffects
  <1>3. \A c : Readable(c)' <=> Readable(c)
    BY <1>2, SameChains
  <1>4. ASSUME Load PROVE Readable(Here(Top))
    <2> DEFINE f == Current(Top).file
               k == Len(stack)
    <2>1. k \in 1..k /\ Top = stack[k] /\ k > 0
      BY TopFacts DEF Top
    <2>2. /\ Framed(files, Top) /\ FileOf(Top.chain) = Top.file
          /\ Top.chain \in Seq(Nat) /\ Len(Top.chain) = k - 1
      BY <2>1, StandFacts
    <2>3. f \in DOMAIN files /\ ~OnPath(f) /\ ~files[f].broken
      BY <1>4 DEF Load, Locating
    <2> DEFINE h == Here(Top)
    <2>4. FileOf(h) = f /\ h \in Seq(Nat) /\ Len(h) = k /\ Top.next \in Nat
      BY <1>1, <2>1, <2>2, CurrentImport
    <2>5. ASSUME NEW n \in 1..k - 1 PROVE FileOf(Prefix(h, n)) # f
      <3>1. n + 1 \in 1..k /\ n + 1 - 1 = n /\ k \in n + 1..k /\ n \in 0..k - 1 /\ n + 1 \in 2..k
        BY <1>1
      <3>2. Prefix(Top.chain, n) = stack[n + 1].chain
        BY <2>1, <3>1, ChainsNest
      <3>3. Prefix(h, n) = Prefix(Top.chain, n)
        BY <2>2, <2>4, <3>1, LongerChain DEF Here
      <3>4. FileOf(Prefix(h, n)) = stack[n + 1].file
        BY <3>1, <3>2, <3>3, StandFacts
      <3> QED
        BY <2>3, <3>1, <3>4 DEF OnPath
    <2>6. ASSUME entry # None PROVE FileOf(Prefix(h, 0)) # f
      <3>1. Prefix(h, 0) = <<>>
        BY <2>4, WholePrefix
      <3>2. FileOf(<<>>) = Main
        <4>1. <<>> \in Seq(Nat) /\ 0 \in Nat
          BY EmptySeq
        <4> QED
          BY <4>1, FileOfGrows
      <3>3. entry = Main
        BY <1>1, <2>6 DEF Outer
      <3> QED
        BY <2>3, <3>1, <3>2, <3>3 DEF OnPath
    <2> HIDE DEF h, f
    <2>7. ~Cyclic(h)
      <3> SUFFICES ASSUME NEW n \in (IF entry = None THEN 1 ELSE 0)..Len(h) - 1
                   PROVE  FileOf(Prefix(h, n)) # FileOf(h)
        BY DEF Cyclic
      <3>1. n \in 1..k - 1 \/ (n = 0 /\ entry # None)
        BY <1>1, <2>4
      <3> QED
        BY <2>4, <2>5, <2>6, <3>1
    <2>8. Readable(h)
      BY <2>3, <2>4, <2>7 DEF Readable, Modules
    <2> QED
      BY <2>8 DEF h
  <1>5. \A n \in 2..Len(stack') : Readable(stack'[n].chain)
    <2> TAKE n \in 2..Len(stack')
    <2>1. n \in 1..Len(stack')
      OBVIOUS
    <2>2. CASE n \in 1..Len(stack) /\ stack'[n].chain = stack[n].chain
      <3>1. n \in 2..Len(stack)
        BY <2>2
      <3> QED
        BY <2>2, <3>1 DEF AllRead
    <2>3. CASE Load /\ stack'[n] = Opened(Current(Top).file, Here(Top), reported)
      <3>1. stack'[n].chain = Here(Top)
        BY <2>3 DEF Opened
      <3> QED
        BY <1>4, <2>3, <3>1
    <2> QED
      BY <2>1, <2>2, <2>3, StepChains
  <1> QED
    BY <1>3, <1>5 DEF AllRead

-------------------------------------------------------------------------------
(* What has been reported when a program is opened, and since.              *)

SawBefore(R, fr) ==
  /\ fr.since \subseteq R
  /\ \A r \in R : IF r \in fr.since THEN ~IsPrefix(fr.chain, r.at)
                  ELSE IsPrefix(fr.chain, r.at) /\ r.at # fr.chain

(* What is reported below c is about its first imports.                     *)
Until(R, c, j) == \A r \in R : Beyond(c, r.at) => r.at[Len(c) + 1] < j

(* How far the program number n is; the import it is at may have reports of *)
(* its own when it is being assembled.                                      *)
Far(n) == IF n < Len(stack) THEN stack[n].next + 1 ELSE stack[n].next

Reporting ==
  /\ \A r \in reported : r.at \in Seq(Nat)
  /\ Living => \A n \in 1..Len(stack) :
                 SawBefore(reported, stack[n]) /\ Until(reported, stack[n].chain, Far(n))

(* The program number m has done with the import it was at.                 *)
LEMMA ReportedThere ==
  ASSUME IInv, Standing, Reporting, Living, NEW m \in {Len(stack) - 1, Len(stack)}, m > 0,
         NEW e, Shape(m, e), e.chain = stack[m].chain, e.next = stack[m].next + 1,
         e.since = stack[m].since, OnlyAbout(reported, reported', Here(stack[m]))
  PROVE  Reporting'
  <1> DEFINE h == Here(stack[m])
             R == reported
             S == reported'
  <1>1. Len(stack) \in Nat /\ m \in 1..Len(stack) /\ m \in 1..m /\ m \in Nat
    BY TopFacts
  <1>2. h \in Seq(Nat)
    BY <1>1, HereBeyond
  <1>3. \A r \in S : r \in R \/ r.at = h
    BY DEF OnlyAbout
  <1>4. R \subseteq S
    BY DEF OnlyAbout
  <1>5. \A r \in S : r.at \in Seq(Nat)
    BY <1>2, <1>3 DEF Reporting
  <1>6. ASSUME NEW n \in 1..m
        PROVE  SawBefore(S, stack[n]) /\ Until(S, stack[n].chain, stack[n].next + 1)
    <2> DEFINE c == stack[n].chain
               k == stack[n].next
    <2>1. n \in 1..Len(stack)
      BY <1>1
    <2>2. /\ c \in Seq(Nat) /\ k \in Nat /\ IsPrefix(c, h) /\ c # h /\ Beyond(c, h)
          /\ h[Len(c) + 1] = k
      BY <1>1, <1>6, HereBeyond
    <2>3. SawBefore(R, stack[n]) /\ Until(R, c, Far(n))
      BY <2>1 DEF Reporting
    <2> HIDE DEF h
    <2>4. SawBefore(S, stack[n])
      <3> SUFFICES ASSUME NEW r \in S
                   PROVE  IF r \in stack[n].since THEN ~IsPrefix(c, r.at) ELSE IsPrefix(c, r.at) /\ r.at # c
        BY <1>4, <2>3 DEF SawBefore
      <3>1. CASE r \in R
        BY <2>3, <3>1 DEF SawBefore
      <3>2. CASE r \notin R
        <4>1. r.at = h /\ r \notin stack[n].since
          BY <1>3, <2>3, <3>2 DEF SawBefore
        <4> QED
          BY <2>2, <4>1
      <3> QED
        BY <3>1, <3>2
    <2>5. Until(S, c, k + 1)
      <3> SUFFICES ASSUME NEW r \in S, Beyond(c, r.at) PROVE r.at[Len(c) + 1] < k + 1
        BY DEF Until
      <3>1. CASE r \in R
        <4>1. r.at[Len(c) + 1] < Far(n) /\ r.at \in Seq(Nat)
          BY <2>3, <3>1, <1>5 DEF Until
        <4> DEFINE a == r.at
        <4>2. a \in Seq(Nat) /\ Beyond(c, a)
          BY <4>1
        <4>3. a[Len(c) + 1] \in Nat
          BY <2>2, <4>2, BeyondNext
        <4> HIDE DEF a
        <4>4. a[Len(c) + 1] < Far(n) /\ (Far(n) = k \/ Far(n) = k + 1)
          BY <4>1 DEF Far, a
        <4>5. a[Len(c) + 1] < k + 1
          <5> HIDE DEF c, k
          <5> QED
            BY <2>2, <4>3, <4>4
        <4> QED
          BY <4>5 DEF a
      <3>2. CASE r \notin R
        <4>1. r.at = h
          BY <1>3, <3>2
        <4>2. r.at[Len(c) + 1] = k
          BY <2>2, <4>1
        <4> HIDE DEF c, k
        <4> QED
          BY <2>2, <4>2
      <3> QED
        BY <3>1, <3>2
    <2> QED
      BY <2>4, <2>5
  <1> DEFINE Ahead(n) == IF n < Len(stack') THEN stack'[n].next + 1 ELSE stack'[n].next
  <1>7. ASSUME NEW n \in 1..Len(stack')
        PROVE  SawBefore(S, stack'[n]) /\ Until(S, stack'[n].chain, Ahead(n))
    <2>1. Len(stack') = m /\ n \in 1..m
      BY <1>1, <1>7 DEF Shape
    <2>2. CASE n = m
      <3>1. stack'[n] = e /\ Ahead(n) = stack[m].next + 1
        BY <1>1, <2>1, <2>2 DEF Shape
      <3>2. SawBefore(S, e)
        BY <1>1, <1>6 DEF SawBefore
      <3> QED
        BY <1>1, <1>6, <3>1, <3>2
    <2>3. CASE n # m
      <3>1. n \in 1..m - 1 /\ n < m
        BY <1>1, <2>1, <2>3
      <3>2. stack'[n] = stack[n] /\ Ahead(n) = stack[n].next + 1
        BY <2>1, <3>1 DEF Shape
      <3> QED
        BY <1>6, <2>1, <3>2
    <2> QED
      BY <2>2, <2>3
  <1> HIDE DEF Ahead
  <1>8. \A n : Far(n)' = Ahead(n)
    BY DEF Far, Ahead
  <1> QED
    BY <1>5, <1>7, <1>8 DEF Reporting

LEMMA ReportingNext ==
  ASSUME IInv, [Next]_vars, Standing, Reporting
  PROVE  Reporting'
  <1> DEFINE Ahead(n) == IF n < Len(stack') THEN stack'[n].next + 1 ELSE stack'[n].next
  <1>1. /\ Len(stack) \in Nat /\ Len(stack) > 0 /\ Len(stack) \in 1..Len(stack)
        /\ Top = stack[Len(stack)] /\ Host = stack[Len(stack) - 1]
    BY TopFacts DEF Top, Host
  <1>2. Living' => Living
    BY StepEffects
  <1>3. \A n : Far(n)' = Ahead(n)
    BY DEF Far
  <1>4. ASSUME ~Living, \A r \in reported' : r.at \in Seq(Nat) PROVE Reporting'
    BY <1>2, <1>4 DEF Reporting
  <1>5. ASSUME NEW m \in Nat, Loses(m) PROVE Reporting'
    <2>1. /\ m \in {Len(stack) - 1, Len(stack)} /\ m > 0 /\ m \in 1..Len(stack) /\ m \in 1..m
          /\ OnlyAbout(reported, reported', Here(stack[m]))
      BY <1>1, <1>5 DEF Loses
    <2>2. CASE Living
      BY <1>5, <2>1, <2>2, LosesFields, ReportedThere
    <2>3. CASE ~Living
      <3>1. Here(stack[m]) \in Seq(Nat)
        BY <2>1, HereBeyond
      <3>2. \A r \in reported' : r.at \in Seq(Nat)
        BY <2>1, <3>1 DEF Reporting, OnlyAbout
      <3> QED
        BY <1>4, <2>3, <3>2
    <2> QED
      BY <2>2, <2>3
  <1>6. ASSUME Gains PROVE Reporting'
    <2> DEFINE m == Len(stack) - 1
    <2>1. /\ m \in {Len(stack) - 1, Len(stack)} /\ m > 0 /\ m \in 1..Len(stack) /\ m \in 1..m
          /\ stack[m] = Host
          /\ OnlyAbout(reported, reported', Here(stack[m]))
      BY <1>1, <1>6 DEF Gains
    <2>2. CASE Living
      <3> DEFINE e == GoesOn(Extended(Current(Host), Host, Top))
      <3>1. Shape(m, e) /\ e.chain = stack[m].chain /\ e.next = stack[m].next + 1 /\ e.since = stack[m].since
        BY <1>6, <2>1, GainsFields
      <3> HIDE DEF e, m
      <3> QED
        BY <2>1, <2>2, <3>1, ReportedThere
    <2>3. CASE ~Living
      <3>1. Here(stack[m]) \in Seq(Nat)
        BY <2>1, HereBeyond
      <3>2. \A r \in reported' : r.at \in Seq(Nat)
        BY <2>1, <3>1 DEF Reporting, OnlyAbout
      <3> QED
        BY <1>4, <2>3, <3>2
    <2> QED
      BY <2>2, <2>3
  <1>7. ASSUME Load PROVE Reporting'
    <2> DEFINE k == Len(stack)
               e == Opened(Current(Top).file, Here(Top), reported)
               h == Here(Top)
    <2>1. Shape(k + 1, e) /\ reported' = reported /\ Living /\ mode' = mode
      BY <1>7, LoadShape DEF Load, Locating, Importing, Living
    <2>2. e.chain = h /\ e.since = reported
      BY DEF Opened
    <2>3. /\ Top.chain \in Seq(Nat) /\ Top.next \in Nat /\ h = Append(Top.chain, Top.next)
          /\ h \in Seq(Nat)
      BY <1>1, StandFacts, LongerChain DEF Here
    <2>4. Until(reported, Top.chain, Top.next)
      BY <1>1, <2>1 DEF Reporting, Far
    <2> HIDE DEF e, h
    <2>5. ASSUME NEW r \in reported, r.at = h \/ Beyond(h, r.at) PROVE FALSE
      <3> DEFINE a == r.at
      <3>1. a \in Seq(Nat) /\ (a = h \/ Beyond(h, a))
        BY <2>5 DEF Reporting
      <3> HIDE DEF a
      <3>2. Beyond(Top.chain, a) /\ a[Len(Top.chain) + 1] = Top.next
        BY <2>3, <3>1, BeyondBoth
      <3>3. a[Len(Top.chain) + 1] < Top.next
        BY <2>4, <3>2 DEF Until, a
      <3> QED
        BY <2>3, <3>2, <3>3
    <2>6. Until(reported, h, Ahead(k + 1))
      BY <2>5 DEF Until
    <2>7. ASSUME NEW r \in reported, IsPrefix(h, r.at) PROVE FALSE
      <3> DEFINE a == r.at
      <3>1. a \in Seq(Nat)
        BY DEF Reporting
      <3>2. Len(h) <= Len(a) /\ Prefix(a, Len(h)) = h
        BY <2>3, <2>7, <3>1, PrefixMeans
      <3>3. Len(h) \in Nat /\ Len(a) \in Nat /\ Prefix(a, Len(a)) = a
        BY <2>3, <3>1, LenProperties, WholePrefix
      <3>4. a = h \/ Beyond(h, a)
        BY <3>2, <3>3 DEF Beyond
      <3> QED
        BY <2>5, <3>4
    <2>8. SawBefore(reported, e)
      BY <2>2, <2>7 DEF SawBefore
    <2>9. ASSUME NEW n \in 1..k
          PROVE  SawBefore(reported, stack'[n]) /\ Until(reported, stack'[n].chain, Ahead(n))
      <3>1. stack'[n] = stack[n] /\ Len(stack') = k + 1 /\ n < k + 1
        BY <1>1, <2>1 DEF Shape
      <3>2. SawBefore(reported, stack[n]) /\ Until(reported, stack[n].chain, Far(n))
        BY <2>1 DEF Reporting
      <3>3. Ahead(n) = stack[n].next + 1
        BY <3>1
      <3>4. /\ stack[n].chain \in Seq(Nat) /\ stack[n].next \in Nat
        BY StandFacts
      <3>5. Until(reported, stack[n].chain, stack[n].next + 1)
        <4> DEFINE c == stack[n].chain
                   j == stack[n].next
        <4> SUFFICES ASSUME NEW r \in reported, Beyond(c, r.at) PROVE r.at[Len(c) + 1] < j + 1
          BY DEF Until
        <4> DEFINE a == r.at
        <4>1. a \in Seq(Nat) /\ Beyond(c, a) /\ a[Len(c) + 1] < Far(n)
          BY <3>2 DEF Reporting, Until
        <4>2. a[Len(c) + 1] \in Nat
          BY <3>4, <4>1, BeyondNext
        <4>3. Far(n) = j \/ Far(n) = j + 1
          BY DEF Far
        <4> HIDE DEF a, c, j
        <4>4. a[Len(c) + 1] < j + 1
          BY <3>4, <4>1, <4>2, <4>3 DEF j
        <4> QED
          BY <4>4 DEF a
      <3> QED
        BY <3>1, <3>2, <3>3, <3>5
    <2>10. \A n \in 1..Len(stack') :
             SawBefore(reported, stack'[n]) /\ Until(reported, stack'[n].chain, Ahead(n))
      <3> TAKE n \in 1..Len(stack')
      <3>1. n \in 1..k \/ n = k + 1
        BY <1>1, <2>1 DEF Shape
      <3>2. stack'[k + 1] = e
        BY <2>1 DEF Shape
      <3> QED
        BY <2>2, <2>6, <2>8, <2>9, <3>1, <3>2
    <2> HIDE DEF Ahead
    <2> QED
      BY <1>3, <2>1, <2>10 DEF Reporting
  <1>8. ASSUME Crash, ~Living' PROVE Reporting'
    <2>1. Top.chain \in Seq(Nat)
      BY <1>1, StandFacts
    <2>2. \A r \in reported' : r.at \in Seq(Nat)
      <3> DEFINE y == [at |-> Top.chain, kind |-> "event"]
      <3>1. reported' = reported \cup {y}
        BY <1>8 DEF Crash
      <3>2. y.at = Top.chain
        OBVIOUS
      <3> HIDE DEF y
      <3> QED
        BY <2>1, <3>1, <3>2 DEF Reporting
    <2> QED
      BY <1>8, <2>2 DEF Reporting
  <1>9. ASSUME Stays PROVE Reporting'
    <2>1. stack' = stack /\ reported' = reported
      BY <1>9 DEF Stays
    <2>2. \A n : Far(n)' = Far(n)
      BY <2>1 DEF Far
    <2> QED
      BY <1>2, <2>1, <2>2 DEF Reporting
  <1> QED
    BY <1>5, <1>6, <1>7, <1>8, <1>9, StepEffects

-------------------------------------------------------------------------------
(* What a program has kept.                                                 *)

Keeping ==
  Living => \A n \in 1..Len(stack) :
              stack[n].kept = GoodBelow(reported, stack[n].chain, stack[n].next)

(* The programs below the number m have kept what they had.                 *)
LEMMA KeptBelow ==
  ASSUME IInv, Standing, NEW m \in 1..Len(stack), NEW n \in 1..m - 1, NEW R, NEW S,
         OnlyAbout(R, S, Here(stack[m]))
  PROVE  GoodBelow(S, stack[n].chain, stack[n].next) = GoodBelow(R, stack[n].chain, stack[n].next)
  <1> DEFINE c == stack[n].chain
             k == stack[n].next
             h == Here(stack[m])
  <1>1. Len(stack) \in Nat /\ n \in 1..m /\ Outer
    BY TopFacts DEF IInv
  <1>2. c \in Seq(Nat) /\ h \in Seq(Nat) /\ k \in Nat /\ IsPrefix(c, h) /\ h[Len(c) + 1] = k
    BY <1>1, HereBeyond
  <1>3. OnlyAbout(R, S, h)
    OBVIOUS
  <1> HIDE DEF c, k, h
  <1>4. h[Len(c) + 1] >= k
    BY <1>2
  <1>5. GoodBelow(S, c, k) = GoodBelow(R, c, k)
    BY <1>1, <1>2, <1>3, <1>4, SameBelow
  <1> QED
    BY <1>5 DEF c, k

LEMMA KeepingNext ==
  ASSUME IInv, [Next]_vars, Standing, AllRead, Reporting, Keeping
  PROVE  Keeping'
  <1> DEFINE Keeps(fr) == fr.kept = GoodBelow(reported', fr.chain, fr.next)
  <1>1. /\ Len(stack) \in Nat /\ Len(stack) > 0 /\ Len(stack) \in 1..Len(stack) /\ Outer
        /\ Top = stack[Len(stack)] /\ Host = stack[Len(stack) - 1]
    BY TopFacts DEF Top, Host, IInv
  <1>2. /\ Living' => Living
        /\ UNCHANGED fixed
    BY StepEffects
  <1>3. \A R, c, k : GoodBelow(R, c, k)' = GoodBelow(R, c, k)
    BY <1>2, SameChains
  <1>4. (\A n \in 1..Len(stack') : Keeps(stack'[n])) => Keeping'
    BY <1>3 DEF Keeping
  <1>5. SUFFICES ASSUME Living' PROVE \A n \in 1..Len(stack') : Keeps(stack'[n])
    BY <1>4 DEF Keeping
  <1>6. Living
    BY <1>2, <1>5
  <1>7. ASSUME NEW m \in 1..Len(stack), NEW e, Shape(m, e), Keeps(e),
               OnlyAbout(reported, reported', Here(stack[m]))
        PROVE  \A n \in 1..Len(stack') : Keeps(stack'[n])
    <2> TAKE n \in 1..Len(stack')
    <2>1. n = m \/ (n \in 1..m - 1 /\ n \in 1..Len(stack))
      BY <1>1, <1>7 DEF Shape
    <2>2. CASE n = m
      BY <1>7, <2>2 DEF Shape
    <2>3. CASE n \in 1..m - 1 /\ n \in 1..Len(stack)
      <3>1. stack'[n] = stack[n]
        BY <1>7, <2>3 DEF Shape
      <3>2. stack[n].kept = GoodBelow(reported, stack[n].chain, stack[n].next)
        BY <1>6, <2>3 DEF Keeping
      <3>3. GoodBelow(reported', stack[n].chain, stack[n].next)
              = GoodBelow(reported, stack[n].chain, stack[n].next)
        BY <1>7, <2>3, KeptBelow
      <3> QED
        BY <3>1, <3>2, <3>3
    <2> QED
      BY <2>1, <2>2, <2>3
  <1>8. ASSUME NEW m \in Nat, Loses(m) PROVE \A n \in 1..Len(stack') : Keeps(stack'[n])
    <2> DEFINE e == GoesOn(stack[m])
               c == stack[m].chain
               k == stack[m].next
               h == Here(stack[m])
    <2>1. /\ m \in 1..Len(stack) /\ Shape(m, e) /\ e.chain = c /\ e.next = k + 1
          /\ e.kept = stack[m].kept
      BY <1>8, LosesFields
    <2>2. c \in Seq(Nat) /\ k \in Nat /\ h = Append(c, k) /\ h \in Seq(Nat)
      BY <2>1, StandFacts, LongerChain DEF Here
    <2>3. OnlyAbout(reported, reported', h)
      BY <1>8 DEF Loses
    <2>4. Faulty(reported', h)
      <3>1. CASE \E r \in reported' : r.at = h /\ r.kind # "event"
        <4>1. IsPrefix(h, h)
          <5> HIDE DEF h
          <5>1. Len(h) \in Nat /\ Prefix(h, Len(h)) = h
            BY <2>2, LenProperties, WholePrefix
          <5>2. Len(h) <= Len(h)
            BY <5>1
          <5> QED
            BY <2>2, <5>1, <5>2, PrefixMeans
        <4> QED
          BY <3>1, <4>1 DEF Faulty
      <3>2. CASE m < Len(stack) /\ reported # Top.since
        <4>1. m = Len(stack) - 1 /\ Len(stack) > 1 /\ stack[m] = Host
          BY <1>1, <1>8, <3>2 DEF Loses
        <4>2. Top.chain = h
          BY <4>1, TopFacts DEF Linked, Here
        <4>3. SawBefore(reported, Top)
          BY <1>1, <1>6 DEF Reporting
        <4>4. PICK r \in reported : r \notin Top.since
          BY <3>2, <4>3 DEF SawBefore
        <4>5. IsPrefix(h, r.at) /\ r.at # h
          BY <4>2, <4>3, <4>4 DEF SawBefore
        <4> QED
          BY <2>3, <4>5 DEF Faulty, OnlyAbout
      <3> QED
        BY <1>8, <3>1, <3>2 DEF Loses
    <2>5. stack[m].kept = GoodBelow(reported, c, k)
      BY <1>6, <2>1 DEF Keeping
    <2> HIDE DEF e, c, k, h
    <2>6. GoodBelow(reported', c, k + 1) = GoodBelow(reported, c, k)
      BY <1>1, <2>2, <2>3, <2>4, FaultyBelow
    <2>7. Keeps(e)
      BY <2>1, <2>5, <2>6
    <2> HIDE DEF Keeps
    <2> QED
      BY <1>7, <2>1, <2>3, <2>7 DEF h
  <1>9. ASSUME Gains PROVE \A n \in 1..Len(stack') : Keeps(stack'[n])
    <2> DEFINE m == Len(stack) - 1
               e == GoesOn(Extended(Current(Host), Host, Top))
               c == Host.chain
               k == Host.next
               b == Append(c, k)
               j == Top.next
    <2>1. /\ m \in 1..Len(stack) /\ stack[m] = Host /\ Shape(m, e) /\ e.chain = c /\ e.next = k + 1
          /\ e.kept = Host.kept \cup Top.kept \cup {b}
          /\ Top.chain = b /\ Here(Host) = b
          /\ reported = Top.since /\ j > Len(Imports(Top.file))
      BY <1>9, GainsFields
    <2>2. OnlyAbout(reported, reported', b) /\ \A r \in reported' \ reported : r.kind = "event"
      BY <1>9, <2>1 DEF Gains
    <2>3. /\ c \in Seq(Nat) /\ k \in Nat /\ b \in Seq(Nat) /\ j \in Nat
          /\ FileOf(b) = Top.file /\ Len(b) = Len(c) + 1 /\ Len(c) \in Nat
      <3>1. c \in Seq(Nat) /\ k \in Nat
        BY <2>1, StandFacts
      <3>2. j \in Nat /\ FileOf(Top.chain) = Top.file
        BY <1>1, StandFacts
      <3> HIDE DEF c, k, j
      <3>3. b \in Seq(Nat) /\ Len(b) = Len(c) + 1 /\ Len(c) \in Nat
        BY <3>1, LongerChain
      <3> QED
        BY <2>1, <3>1, <3>2, <3>3
    <2>4. b \in Chain
      BY <1>1, <2>1, OnChains
    <2>5. \A r \in reported : r.at \in Seq(Nat) /\ ~IsPrefix(b, r.at)
      BY <1>1, <1>6, <2>1 DEF Reporting, SawBefore
    <2>6. ASSUME NEW d \in Chain, Beyond(b, d) PROVE d[Len(c) + 2] < j
      <3> HIDE DEF b, c, j
      <3>1. d \in Seq(Nat) /\ Leads(d)
        BY <1>1, ChainIs
      <3>2. Len(d) \in Nat /\ Len(c) + 1 < Len(d) /\ Prefix(d, Len(c) + 1) = b
        BY <2>3, <2>6, <3>1, LenProperties DEF Beyond
      <3>3. Len(c) + 2 \in 1..Len(d) /\ Len(c) + 2 - 1 = Len(c) + 1
        BY <2>3, <3>2
      <3>4. d[Len(c) + 2] \in DOMAIN Imports(FileOf(Prefix(d, Len(c) + 2 - 1)))
        BY <3>1, <3>3 DEF Leads
      <3>5. d[Len(c) + 2] \in DOMAIN Imports(Top.file)
        BY <2>3, <3>2, <3>3, <3>4
      <3>6. Top.file \in DOMAIN files
        BY <1>1, StandFacts DEF Framed
      <3>7. DOMAIN Imports(Top.file) = 1..Len(Imports(Top.file)) /\ Len(Imports(Top.file)) \in Nat
        BY <1>1, <3>6, FileFacts DEF Imports
      <3> QED
        BY <2>1, <2>3, <3>5, <3>7
    <2>7. Host.kept = GoodBelow(reported, c, k) /\ Top.kept = GoodBelow(reported, b, j)
      BY <1>1, <1>6, <2>1 DEF Keeping
    <2> HIDE DEF e, c, k, j, m
    <2>8. GoodBelow(reported', c, k + 1)
            = GoodBelow(reported, c, k) \cup GoodBelow(reported, b, j) \cup {b}
      <3>1. Outer /\ c \in Seq(Nat) /\ k \in Nat /\ b \in Chain
        BY <1>1, <2>3, <2>4
      <3>2. \A d \in Chain : Beyond(b, d) => d[Len(c) + 2] < j
        BY <2>6
      <3>3. b = Append(c, k) /\ \A r \in reported' : r \in reported \/ r.kind = "event"
        BY <2>2
      <3> HIDE DEF b
      <3>4. Adds(reported, reported', c, k, b, j)
        BY ONLY <2>2, <2>5, <3>1, <3>2, <3>3, TakenBelow
      <3> QED
        BY <3>4 DEF Adds
    <2>9. Keeps(e)
      BY <2>1, <2>7, <2>8
    <2> HIDE DEF Keeps, b
    <2> QED
      BY <1>7, <2>1, <2>2, <2>9
  <1>10. ASSUME Load PROVE \A n \in 1..Len(stack') : Keeps(stack'[n])
    <2> DEFINE k == Len(stack)
               h == Here(Top)
               e == Opened(Current(Top).file, h, reported)
    <2>1. Shape(k + 1, e) /\ reported' = reported
      BY <1>10, LoadShape DEF Load
    <2>2. e.chain = h /\ e.next = 1 /\ e.kept = {}
      BY DEF Opened
    <2>3. h \in Seq(Nat)
      BY <1>1, StandFacts, LongerChain DEF Here
    <2> HIDE DEF e, h
    <2>4. ASSUME NEW d \in Chain, Beyond(h, d), d[Len(h) + 1] < 1 PROVE FALSE
      <3>1. d \in Seq(Nat) /\ Leads(d) /\ Len(d) \in Nat /\ Len(h) \in Nat
        BY <1>1, <2>3, ChainIs, LenProperties
      <3>2. Len(h) + 1 \in 1..Len(d) /\ Len(h) + 1 - 1 = Len(h) /\ Prefix(d, Len(h)) = h
        BY <2>4, <3>1 DEF Beyond
      <3>3. d[Len(h) + 1] \in DOMAIN Imports(FileOf(h))
        <4>1. d[Len(h) + 1] \in DOMAIN Imports(FileOf(Prefix(d, Len(h) + 1 - 1)))
          BY <3>1, <3>2 DEF Leads
        <4> QED
          BY <3>2, <4>1
      <3>4. h = <<>> \/ Readable(h)
        <4>1. Len(h) # 0 => Len(h) \in 1..Len(d) - 1
          BY <2>4, <3>1 DEF Beyond
        <4>2. Len(h) # 0 => Readable(h)
          BY <3>1, <3>2, <4>1 DEF Leads
        <4> QED
          BY <2>3, <4>2, EmptySeq
      <3>5. DOMAIN Imports(FileOf(h)) = 1..Len(Imports(FileOf(h))) /\ Len(Imports(FileOf(h))) \in Nat
        BY <1>1, <3>4, ReachedFile
      <3> QED
        BY <2>4, <3>3, <3>5
    <2>5. Keeps(e)
      <3>1. GoodBelow(reported', h, 1) = {}
        BY <2>4 DEF GoodBelow
      <3> QED
        BY <2>2, <3>1
    <2>6. \A n \in 1..k : Keeps(stack[n])
      BY <1>6, <2>1 DEF Keeping
    <2> TAKE n \in 1..Len(stack')
    <2>7. (n \in 1..k /\ stack'[n] = stack[n]) \/ stack'[n] = e
      BY <1>1, <2>1 DEF Shape
    <2> HIDE DEF Keeps
    <2> QED
      BY <2>5, <2>6, <2>7
  <1>11. ASSUME Stays PROVE \A n \in 1..Len(stack') : Keeps(stack'[n])
    BY <1>6, <1>11 DEF Stays, Keeping
  <1> QED
    BY <1>5, <1>8, <1>9, <1>10, <1>11, StepEffects
-------------------------------------------------------------------------------
(* What a program is made of.                                               *)

(* g[i] is the place of c in the program its first i imports lead to, for i *)
(* from m.                                                                  *)
Hung(c, m, g) ==
  g = [i \in m..Len(c) |-> IF i = Len(c) THEN <<>>
                           ELSE Instance(Import(Prefix(c, i + 1))) \o g[i + 1]]

LEMMA HungExists ==
  ASSUME NEW c, Len(c) \in Nat
  PROVE  \E g : Hung(c, 0, g)
  <1> DEFINE b == Len(c)
             Up(i, q) == Instance(Import(Prefix(c, i + 1))) \o q
             T == {k \in 0..b : ~ \E g : Hung(c, b - k, g)}
  <1>1. ASSUME T # {} PROVE FALSE
    <2>1. T \in SUBSET Nat
      OBVIOUS
    <2>2. PICK k \in T : \A l \in T : k <= l
      BY <1>1, <2>1, LeastNumber
    <2>3. CASE k = 0
      <3> DEFINE g == [i \in b..b |-> <<>>]
      <3>1. b..b = {b} /\ b - 0 = b
        OBVIOUS
      <3>2. Hung(c, b, g)
        BY <3>1 DEF Hung
      <3> QED
        BY <2>2, <2>3, <3>1, <3>2
    <2>4. CASE k # 0
      <3> DEFINE m == b - k
      <3>0. k \in 0..b
        BY <2>2
      <3>1. k - 1 \in 0..b /\ k - 1 \notin T /\ b - (k - 1) = m + 1 /\ m \in 0..b - 1
        <4> HIDE DEF T
        <4> QED
          BY <2>2, <2>4, <3>0
      <3>2. PICK g : Hung(c, m + 1, g)
        BY <3>1
      <3>3. \A i \in m + 1..b : g[i] = IF i = b THEN <<>> ELSE Up(i, g[i + 1])
        BY <3>2 DEF Hung
      <3> HIDE DEF Up, b, m
      <3> DEFINE h == [i \in m..b |-> IF i = m THEN Up(m, g[m + 1]) ELSE g[i]]
      <3>4. b \in Nat /\ m \in Nat /\ m # b /\ m \in m..b /\ m + 1 \in m..b /\ m + 1 # m
        BY <3>1 DEF b
      <3>5. h[m] = Up(m, g[m + 1]) /\ h[m + 1] = g[m + 1]
        BY <3>4
      <3>6. \A i \in m + 1..b : h[i] = g[i] /\ (i # b => h[i + 1] = g[i + 1])
        <4> TAKE i \in m + 1..b
        <4>1. i \in m..b /\ i # m /\ (i # b => i + 1 \in m..b /\ i + 1 # m)
          BY <3>4
        <4> QED
          BY <4>1
      <3>7. h = [i \in m..b |-> h[i]]
        OBVIOUS
      <3> HIDE DEF h
      <3>8. \A i \in m..b : h[i] = IF i = b THEN <<>> ELSE Up(i, h[i + 1])
        <4> TAKE i \in m..b
        <4>1. CASE i = m
          BY <3>4, <3>5, <4>1
        <4>2. CASE i # m
          <5>1. i \in m + 1..b
            BY <3>4, <4>2
          <5> QED
            BY <3>3, <3>6, <5>1
        <4> QED
          BY <4>1, <4>2
      <3>9. Hung(c, m, h)
        BY <3>7, <3>8 DEF Hung, Up, b
      <3> QED
        BY <2>2, <3>9 DEF m
    <2> QED
      BY <2>3, <2>4
  <1>2. b \in 0..b /\ b - b = 0 /\ b \notin T
    BY <1>1
  <1> QED
    BY <1>2

(* Where a program has an instance, one import at a time.                   *)
LEMMA PlaceFacts ==
  ASSUME NEW c, Len(c) \in Nat
  PROVE  /\ Place(c)[Len(c)] = <<>>
         /\ \A n \in 0..Len(c) - 1 :
              Place(c)[n] = Instance(Import(Prefix(c, n + 1))) \o Place(c)[n + 1]
  <1> DEFINE Step(f) == [n \in 0..Len(c) |->
                           IF n = Len(c) THEN <<>>
                           ELSE Instance(Import(Prefix(c, n + 1))) \o f[n + 1]]
             g == CHOOSE f : f = Step(f)
  <1>1. \E f : f = Step(f)
    <2>1. PICK f : Hung(c, 0, f)
      BY HungExists
    <2>2. f = Step(f)
      BY <2>1, Zenon DEF Hung
    <2> QED
      BY <2>2, Zenon
  <1>2. g = Step(g)
    BY <1>1, Zenon
  <1>3. Place(c) = [n \in 0..Len(c) |-> g[n]]
    BY Zenon DEF Place
  <1> HIDE DEF g
  <1>4. \A n \in 0..Len(c) :
          g[n] = IF n = Len(c) THEN <<>> ELSE Instance(Import(Prefix(c, n + 1))) \o g[n + 1]
    BY <1>2, Zenon
  <1>5. \A n \in 0..Len(c) : Place(c)[n] = g[n]
    BY <1>3
  <1>6. Len(c) \in 0..Len(c) /\ \A n \in 0..Len(c) - 1 : n \in 0..Len(c) /\ n + 1 \in 0..Len(c) /\ n # Len(c)
    OBVIOUS
  <1> QED
    BY <1>4, <1>5, <1>6, Zenon

(* The instances whose programs a program has taken over, and its own.      *)
Parts(fr) == fr.kept \cup {fr.chain}

(* d is in c, at a place that is a path.                                    *)
Within(c, d) ==
  /\ d \in Seq(Nat) /\ FileOf(d) \in Modules
  /\ Len(c) <= Len(d) /\ Prefix(d, Len(c)) = c
  /\ IsPath(Place(d)[Len(c)])

(* A state of an instance in c, seen from c.                                *)
Comes(c, S, p) ==
  \E d \in S : \E s \in files[FileOf(d)].states : p = Place(d)[Len(c)] \o s

(* Something was declared in d.                                             *)
Declares(fr, d) == \E v \in DOMAIN fr.sources : \E s \in fr.sources[v] : s.module = d

(* A program has the states, the declarations and the references of its     *)
(* parts.                                                                   *)
Composed(fr) ==
  /\ \A d \in Parts(fr) : Within(fr.chain, d)
  /\ \A p : p \in Tree(fr) <=> Comes(fr.chain, Parts(fr), p)
  /\ \A d : Declares(fr, d) <=> d \in Parts(fr) /\ DOMAIN files[FileOf(d)].defs # {}
  /\ \A r \in fr.refs : r.module \in Parts(fr)

Contents == \A n \in 1..Len(stack) : Composed(stack[n])

(* A program as it is parsed.                                               *)
LEMMA OpenedComposed ==
  ASSUME Outer, NEW f \in DOMAIN files, NEW c \in Seq(Nat), FileOf(c) = f, NEW before
  PROVE  Composed(Opened(f, c, before))
  <1> DEFINE e == Opened(f, c, before)
  <1>1. /\ e.chain = c /\ e.kept = {} /\ e.grafts = {} /\ e.file = f
        /\ e.sources = [v \in DOMAIN files[f].defs |->
                          {[module |-> c, name |-> v, decl |-> files[f].defs[v]]}]
        /\ e.refs = {[module |-> c, ref |-> r, at |-> r.at, abs |-> r.abs, path |-> r.path] :
                       r \in files[f].refs}
    BY DEF Opened
  <1> HIDE DEF e
  <1>2. Parts(e) = {c}
    BY <1>1 DEF Parts
  <1>3. Len(c) \in Nat /\ Prefix(c, Len(c)) = c /\ Len(c) <= Len(c)
    <2>1. Len(c) \in Nat /\ Prefix(c, Len(c)) = c
      BY LenProperties, WholePrefix
    <2> QED
      BY <2>1
  <1>4. Place(c)[Len(c)] = <<>> /\ IsPath(<<>>)
    <2>1. <<>> \in Seq(Range(<<>>))
      BY EmptySeq
    <2> QED
      BY <1>3, <2>1, PlaceFacts DEF IsPath
  <1>5. \A d \in Parts(e) : Within(e.chain, d)
    BY <1>1, <1>2, <1>3, <1>4 DEF Within, Modules
  <1>6. \A s \in files[f].states : <<>> \o s = s
    <2> TAKE s \in files[f].states
    <2>1. IsPath(s)
      BY PathsAssumption DEF Outer
    <2>2. s \in Seq(Range(s))
      BY <2>1 DEF IsPath
    <2> QED
      BY <2>2, ConcatEmptySeq
  <1>7. \A p : p \in Tree(e) <=> Comes(e.chain, Parts(e), p)
    <2>1. Tree(e) = files[f].states
      BY <1>1 DEF Tree
    <2>2. \A p : Comes(c, {c}, p) <=> \E s \in files[f].states : p = <<>> \o s
      BY <1>4 DEF Comes
    <2>3. \A p : Comes(e.chain, Parts(e), p) <=> Comes(c, {c}, p)
      BY <1>1, <1>2, Zenon
    <2>4. \A p : p \in files[f].states <=> \E s \in files[f].states : p = <<>> \o s
      BY <1>6
    <2> QED
      BY <2>1, <2>2, <2>3, <2>4, Zenon
  <1>8. \A d : Declares(e, d) <=> d \in Parts(e) /\ DOMAIN files[FileOf(d)].defs # {}
    <2> DEFINE x(v) == [module |-> c, name |-> v, decl |-> files[f].defs[v]]
    <2>1. \A v \in DOMAIN files[f].defs : e.sources[v] = {x(v)}
      BY <1>1
    <2>2. \A v \in DOMAIN files[f].defs : \A d :
            (\E s \in e.sources[v] : s.module = d) <=> d = c
      <3>1. \A v : x(v).module = c
        OBVIOUS
      <3> HIDE DEF x
      <3> QED
        BY <2>1, <3>1
    <2>3. DOMAIN e.sources = DOMAIN files[f].defs
      BY <1>1
    <2>4. \A d : Declares(e, d) <=> d = c /\ DOMAIN files[f].defs # {}
      BY <2>2, <2>3 DEF Declares
    <2> QED
      BY <1>2, <2>4
  <1>9. \A r \in e.refs : r.module \in Parts(e)
    BY <1>1, <1>2
  <1> QED
    BY <1>5, <1>7, <1>8, <1>9 DEF Composed, e

(* One import further up.                                                   *)
LEMMA WithinHigher ==
  ASSUME NEW c \in Seq(Nat), NEW k \in Nat, NEW d, Within(Append(c, k), d),
         IsPath(Import(Append(c, k)).at)
  PROVE  /\ Within(c, d)
         /\ Place(d)[Len(c)] = Instance(Import(Append(c, k))) \o Place(d)[Len(c) + 1]
         /\ Len(Append(c, k)) = Len(c) + 1
         /\ IsPath(Instance(Import(Append(c, k)))) /\ IsPath(Place(d)[Len(c) + 1])
  <1> DEFINE b == Append(c, k)
             n == Len(c)
             inst == Instance(Import(b))
  <1>1. b \in Seq(Nat) /\ n \in Nat /\ Len(b) = n + 1 /\ Prefix(b, n) = c
    BY LongerChain
  <1>2. /\ d \in Seq(Nat) /\ FileOf(d) \in Modules /\ n + 1 <= Len(d) /\ Prefix(d, n + 1) = b
        /\ IsPath(Place(d)[n + 1])
    BY <1>1 DEF Within
  <1>3. Len(d) \in Nat
    BY <1>2, LenProperties
  <1>4. n \in 0..Len(d) - 1 /\ n + 1 \in 0..Len(d) /\ n \in 0..n + 1 /\ n <= Len(d)
    BY <1>1, <1>2, <1>3
  <1>5. Place(d)[n] = inst \o Place(d)[n + 1]
    BY <1>2, <1>3, <1>4, PlaceFacts
  <1>6. IsPath(inst)
    BY PathFacts DEF Instance
  <1> HIDE DEF inst, b
  <1>7. IsPath(Place(d)[n])
    BY <1>2, <1>5, <1>6, PathFacts
  <1>8. Prefix(d, n) = c
    BY <1>1, <1>2, <1>4, PrefixOfPrefix
  <1>9. Within(c, d)
    BY <1>2, <1>4, <1>7, <1>8 DEF Within
  <1> QED
    BY <1>1, <1>2, <1>5, <1>6, <1>9 DEF inst, b

LEMMA RewrittenModule ==
  ASSUME NEW item, NEW m, NEW r, Referring(r)
  PROVE  Placed(item, m, Mapped(item, r)).module = r.module
  <1> DEFINE q == Mapped(item, r)
             rec(x) == x = [module |-> x.module, ref |-> x.ref, at |-> x.at, abs |-> x.abs, path |-> x.path]
  <1>1. rec(r)
    BY DEF Referring
  <1>2. \A t : [r EXCEPT !.path = t]
                 = [module |-> r.module, ref |-> r.ref, at |-> r.at, abs |-> r.abs, path |-> t]
    BY <1>1
  <1>3. rec(q) /\ q.module = r.module
    <2>1. CASE Absolute(r) \in DOMAIN item.events
      <3> DEFINE t == EventTarget(item, Absolute(r))
      <3>1. q = [r EXCEPT !.abs = TRUE, !.path = t]
        BY <2>1 DEF Mapped
      <3> HIDE DEF t, q
      <3>2. q = [module |-> r.module, ref |-> r.ref, at |-> r.at, abs |-> TRUE, path |-> t]
        BY <1>1, <3>1
      <3> QED
        BY <3>2
    <2>2. CASE Absolute(r) \notin DOMAIN item.events /\ r.abs
      <3>1. q = [r EXCEPT !.path = r.at \o r.path]
        BY <2>2 DEF Mapped
      <3>2. q = [module |-> r.module, ref |-> r.ref, at |-> r.at, abs |-> r.abs, path |-> r.at \o r.path]
        BY <1>2, <3>1
      <3> HIDE DEF q
      <3> QED
        BY <3>2
    <2>3. CASE Absolute(r) \notin DOMAIN item.events /\ ~r.abs
      BY <1>1, <2>3 DEF Mapped
    <2> QED
      BY <2>1, <2>2, <2>3
  <1> HIDE DEF q
  <1> DEFINE a == Instance(item) \o q.at
             p == IF q.abs /\ q.path \notin Preserved(item, m) THEN Instance(item) \o q.path ELSE q.path
  <1>4. Placed(item, m, q) = [q EXCEPT !.at = a, !.path = p]
    BY DEF Placed
  <1> HIDE DEF a, p
  <1>5. Placed(item, m, q) = [module |-> q.module, ref |-> q.ref, at |-> a, abs |-> q.abs, path |-> p]
    BY <1>3, <1>4
  <1> QED
    BY <1>3, <1>5 DEF q

(* A program that takes over another.                                       *)
LEMMA GainsComposed ==
  ASSUME IInv, Standing, Tracked, Contents, Gains
  PROVE  Composed(GoesOn(Extended(Current(Host), Host, Top)))
  <1> DEFINE e == GoesOn(Extended(Current(Host), Host, Top))
             item == Current(Host)
             inst == Instance(item)
             c == Host.chain
             k == Host.next
             b == Append(c, k)
             n == Len(c)
  <1>1. /\ e.file = Host.file /\ e.chain = c
        /\ e.sources = MergedSources(item, Host, Top)
        /\ e.refs = Host.refs \cup RewrittenRefs(item, Top)
        /\ e.grafts = Host.grafts \cup Grafted(item, Top)
        /\ e.kept = Host.kept \cup Top.kept \cup {Top.chain}
        /\ Top.chain = b
    BY GainsFields
  <1>2. /\ Len(stack) - 1 \in 1..Len(stack) /\ Len(stack) \in 1..Len(stack)
        /\ Host = stack[Len(stack) - 1] /\ Top = stack[Len(stack)]
    BY TopFacts, GainsFields DEF Host, Top
  <1>3. /\ Composed(Host) /\ Composed(Top)
        /\ \A r \in Top.refs : Referring(r)
    BY <1>2 DEF Contents, Tracked, Tracks
  <1>4. Framed(files, Host) /\ FileOf(c) = Host.file /\ c \in Seq(Nat) /\ k \in Nat
    BY <1>2, StandFacts
  <1>5. Import(b) = item /\ IsPath(item.at)
    <2>1. Import(Here(Host)) = item
      BY <1>4, CurrentImport
    <2>2. /\ Host.file \in DOMAIN files /\ files \in FileSystems
          /\ Host.next \in DOMAIN files[Host.file].imports
      BY <1>4, FileFacts, TopFacts DEF IInv, Outer, Framed, Linked, Gains
    <2>3. IsPath(item.at)
      BY <2>2, PathsAssumption DEF Current, Imports
    <2> QED
      BY <2>1, <2>3 DEF Here
  <1>6. /\ DOMAIN Host.sources = DOMAIN Host.defs /\ DOMAIN Top.sources = DOMAIN Top.defs
    BY <1>2 DEF IInv, Stacked, Sane, Declared
  <1> HIDE DEF e, c, k, b, n, item
  <1>7. \A d : d \in Parts(e) <=> d \in Parts(Host) \/ d \in Parts(Top)
    BY <1>1 DEF Parts, c
  <1>8. ASSUME NEW d \in Parts(Top)
        PROVE  /\ Within(c, d) /\ Len(b) = n + 1
               /\ Place(d)[n] = inst \o Place(d)[n + 1]
               /\ IsPath(inst) /\ IsPath(Place(d)[n + 1])
    <2>1. Within(b, d)
      BY <1>1, <1>3 DEF Composed
    <2>2. Within(Append(c, k), d) /\ IsPath(Import(Append(c, k)).at)
      BY <1>5, <2>1 DEF b
    <2>3. /\ Within(c, d)
          /\ Place(d)[Len(c)] = Instance(Import(Append(c, k))) \o Place(d)[Len(c) + 1]
          /\ Len(Append(c, k)) = Len(c) + 1
          /\ IsPath(Instance(Import(Append(c, k)))) /\ IsPath(Place(d)[Len(c) + 1])
      BY <1>4, <2>2, WithinHigher
    <2> QED
      BY <1>5, <2>3 DEF b, n
  <1>9. \A d \in Parts(e) : Within(e.chain, d)
    <2>1. \A d \in Parts(Host) : Within(c, d)
      BY <1>3 DEF Composed, c
    <2> QED
      BY <1>1, <1>7, <1>8, <2>1
  <1>10. \A p : p \in Tree(e) <=> Comes(e.chain, Parts(e), p)
    <2> TAKE p
    <2>1. p \in Tree(e) <=> p \in Tree(Host) \/ \E s \in Tree(Top) : p = inst \o s
      <3>1. p \in Tree(e) <=> p \in Tree(Host) \/ \E g \in Grafted(item, Top) : p = g.path
        BY <1>1 DEF Tree
      <3>2. (\E g \in Grafted(item, Top) : p = g.path) <=> \E s \in Tree(Top) : p = inst \o s
        <4> DEFINE x(s) == [owner |-> item.at, path |-> inst \o s]
        <4>1. \A s : x(s).path = inst \o s
          OBVIOUS
        <4>2. Grafted(item, Top) = {x(s) : s \in Tree(Top)}
          BY DEF Grafted
        <4> HIDE DEF x
        <4> QED
          BY <4>1, <4>2
      <3> QED
        BY <3>1, <3>2
    <2>2. Comes(c, Parts(e), p) <=> Comes(c, Parts(Host), p) \/ Comes(c, Parts(Top), p)
      BY <1>7, Zenon DEF Comes
    <2>3. p \in Tree(Host) <=> Comes(c, Parts(Host), p)
      BY <1>3 DEF Composed, c
    <2>4. \A s : s \in Tree(Top) <=> Comes(b, Parts(Top), s)
      BY <1>1, <1>3 DEF Composed
    <2>5. ASSUME NEW d \in Parts(Top), NEW s \in files[FileOf(d)].states
          PROVE  Place(d)[n] \o s = inst \o (Place(d)[Len(b)] \o s)
      <3> DEFINE q == Place(d)[n + 1]
      <3>1. IsPath(s)
        <4>1. FileOf(d) \in DOMAIN files /\ files \in FileSystems
          BY <1>8 DEF Within, Modules, IInv, Outer
        <4> QED
          BY <4>1, PathsAssumption
      <3>2. Place(d)[n] = inst \o q /\ IsPath(inst) /\ IsPath(q) /\ Len(b) = n + 1
        BY <1>8
      <3>3. Place(d)[Len(b)] = q
        BY <3>2
      <3> HIDE DEF q, inst
      <3>4. (inst \o q) \o s = inst \o (q \o s)
        BY <3>1, <3>2, PathsAssociate
      <3> QED
        BY <3>2, <3>3, <3>4
    <2> HIDE DEF inst
    <2>6. Comes(c, Parts(Top), p) <=> \E s \in Tree(Top) : p = inst \o s
      <3>1. ASSUME Comes(c, Parts(Top), p) PROVE \E s \in Tree(Top) : p = inst \o s
        <4>1. PICK d \in Parts(Top) : \E s \in files[FileOf(d)].states : p = Place(d)[n] \o s
          BY <3>1, Zenon DEF Comes, n
        <4>2. PICK s \in files[FileOf(d)].states : p = Place(d)[n] \o s
          BY <4>1
        <4>3. p = inst \o (Place(d)[Len(b)] \o s)
          BY <2>5, <4>2
        <4>4. Comes(b, Parts(Top), Place(d)[Len(b)] \o s)
          BY Zenon DEF Comes
        <4> QED
          BY <2>4, <4>3, <4>4, Zenon
      <3>2. ASSUME NEW t \in Tree(Top), p = inst \o t PROVE Comes(c, Parts(Top), p)
        <4>1. PICK d \in Parts(Top) : \E s \in files[FileOf(d)].states : t = Place(d)[Len(b)] \o s
          BY <2>4, <3>2, Zenon DEF Comes
        <4>2. PICK s \in files[FileOf(d)].states : t = Place(d)[Len(b)] \o s
          BY <4>1
        <4>3. p = Place(d)[n] \o s
          BY <2>5, <3>2, <4>2
        <4> QED
          BY <4>3, Zenon DEF Comes, n
      <3> QED
        BY <3>1, <3>2
    <2> QED
      BY <1>1, <2>1, <2>2, <2>3, <2>6
  <1>11. \A d : Declares(e, d) <=> d \in Parts(e) /\ DOMAIN files[FileOf(d)].defs # {}
    <2> TAKE d
    <2> DEFINE T(v) == Target(item, v)
               Names == DOMAIN Host.defs \cup {T(v) : v \in DOMAIN Top.defs}
    <2>1. DOMAIN e.sources = Names
      BY <1>1 DEF MergedSources
    <2>2. \A x \in Names : \A s : s \in e.sources[x] <=>
            \/ x \in DOMAIN Host.defs /\ s \in Host.sources[x]
            \/ \E v \in DOMAIN Top.defs : T(v) = x /\ s \in Top.sources[v]
      BY <1>1 DEF MergedSources, Preimage
    <2> HIDE DEF T
    <2>3. (\A v \in DOMAIN Top.defs : T(v) \in Names) /\ (\A v \in DOMAIN Host.defs : v \in Names)
      OBVIOUS
    <2>4. \A x \in Names : x \in DOMAIN Host.defs \/ \E v \in DOMAIN Top.defs : T(v) = x
      OBVIOUS
    <2> HIDE DEF Names
    <2>5. Declares(e, d) <=> Declares(Host, d) \/ Declares(Top, d)
      <3>1. ASSUME Declares(Host, d) PROVE Declares(e, d)
        <4>1. PICK v \in DOMAIN Host.defs : \E s \in Host.sources[v] : s.module = d
          BY <1>6, <3>1 DEF Declares
        <4> QED
          BY <2>1, <2>2, <2>3, <4>1 DEF Declares
      <3>2. ASSUME Declares(Top, d) PROVE Declares(e, d)
        <4>1. PICK v \in DOMAIN Top.defs : \E s \in Top.sources[v] : s.module = d
          BY <1>6, <3>2 DEF Declares
        <4>2. PICK s \in Top.sources[v] : s.module = d
          BY <4>1
        <4>3. T(v) \in Names /\ s \in e.sources[T(v)]
          BY <2>2, <2>3
        <4> QED
          BY <2>1, <4>2, <4>3 DEF Declares
      <3>3. ASSUME Declares(e, d) PROVE Declares(Host, d) \/ Declares(Top, d)
        <4>1. PICK x \in Names : \E s \in e.sources[x] : s.module = d
          BY <2>1, <3>3 DEF Declares
        <4>2. PICK s \in e.sources[x] : s.module = d
          BY <4>1
        <4> QED
          BY <1>6, <2>2, <4>2 DEF Declares
      <3> QED
        BY <3>1, <3>2, <3>3
    <2>6. /\ Declares(Host, d) <=> d \in Parts(Host) /\ DOMAIN files[FileOf(d)].defs # {}
          /\ Declares(Top, d) <=> d \in Parts(Top) /\ DOMAIN files[FileOf(d)].defs # {}
      BY <1>3, Zenon DEF Composed
    <2> QED
      BY <1>7, <2>5, <2>6, Zenon
  <1>12. \A r \in e.refs : r.module \in Parts(e)
    <2>1. \A r \in Host.refs : r.module \in Parts(e)
      BY <1>3, <1>7 DEF Composed
    <2>2. ASSUME NEW r \in RewrittenRefs(item, Top) PROVE r.module \in Parts(e)
      <3>1. PICK s \in Top.refs : r = Placed(item, Top, Mapped(item, s))
        BY DEF RewrittenRefs
      <3>2. r.module = s.module
        BY <1>3, <3>1, RewrittenModule
      <3> QED
        BY <1>3, <1>7, <3>2 DEF Composed
    <2> QED
      BY <1>1, <2>1, <2>2
  <1> QED
    BY <1>9, <1>10, <1>11, <1>12 DEF Composed, e

LEMMA ContentsNext ==
  ASSUME IInv, [Next]_vars, Standing, Tracked, Contents
  PROVE  Contents'
  <1>1. /\ Len(stack) \in Nat /\ Len(stack) > 0 /\ Len(stack) \in 1..Len(stack) /\ Outer
        /\ Top = stack[Len(stack)]
    BY TopFacts DEF Top, IInv
  <1>2. UNCHANGED fixed /\ files' = files
    BY StepEffects DEF fixed
  <1>3. \A fr : Composed(fr)' <=> Composed(fr)
    <2>1. /\ \A c : FileOf(c)' = FileOf(c)
          /\ \A c : Place(c)' = Place(c)
      BY <1>2, SameMeaning, SameChains
    <2>2. \A c, d : Within(c, d)' <=> Within(c, d)
      BY <1>2, <2>1 DEF Within, Modules
    <2>3. \A c, S, p : Comes(c, S, p)' <=> Comes(c, S, p)
      BY <1>2, <2>1 DEF Comes
    <2>4. \A fr : Tree(fr)' = Tree(fr)
      BY <1>2 DEF Tree
    <2> QED
      BY <1>2, <2>1, <2>2, <2>3, <2>4 DEF Composed
  <1>4. ASSUME NEW m \in {Len(stack) - 1, Len(stack), Len(stack) + 1}, NEW e, Shape(m, e), Composed(e)
        PROVE  \A n \in 1..Len(stack') : Composed(stack'[n])
    <2> TAKE n \in 1..Len(stack')
    <2>1. n = m \/ (n \in 1..m - 1 /\ n \in 1..Len(stack))
      BY <1>1, <1>4 DEF Shape
    <2> QED
      BY <1>4, <2>1 DEF Shape, Contents
  <1>5. ASSUME NEW m \in Nat, Loses(m) PROVE \A n \in 1..Len(stack') : Composed(stack'[n])
    <2> DEFINE e == GoesOn(stack[m])
               fr == stack[m]
    <2>1. /\ m \in 1..Len(stack) /\ Shape(m, e) /\ m \in {Len(stack) - 1, Len(stack)}
          /\ e.file = fr.file /\ e.chain = fr.chain /\ e.sources = fr.sources
          /\ e.refs = fr.refs /\ e.grafts = fr.grafts /\ e.kept = fr.kept
      BY <1>5, LosesFields DEF Loses
    <2>2. Composed(fr)
      BY <2>1 DEF Contents
    <2> HIDE DEF e, fr
    <2>3. Parts(e) = Parts(fr) /\ Tree(e) = Tree(fr) /\ \A d : Declares(e, d) <=> Declares(fr, d)
      BY <2>1 DEF Parts, Tree, Declares
    <2>4. Composed(e)
      BY <2>1, <2>2, <2>3 DEF Composed
    <2> QED
      BY <1>4, <2>1, <2>4
  <1>6. ASSUME Gains PROVE \A n \in 1..Len(stack') : Composed(stack'[n])
    <2> DEFINE e == GoesOn(Extended(Current(Host), Host, Top))
    <2>1. Composed(e)
      BY <1>6, GainsComposed
    <2>2. Shape(Len(stack) - 1, e)
      BY <1>6 DEF Gains
    <2> HIDE DEF e
    <2> QED
      BY <1>4, <2>1, <2>2
  <1>7. ASSUME Load PROVE \A n \in 1..Len(stack') : Composed(stack'[n])
    <2> DEFINE e == Opened(Current(Top).file, Here(Top), reported)
    <2>1. Shape(Len(stack) + 1, e)
      BY <1>7, LoadShape DEF Load
    <2>2. Here(Top) \in Seq(Nat) /\ FileOf(Here(Top)) = Current(Top).file
      BY <1>1, StandFacts, CurrentImport
    <2>3. Current(Top).file \in DOMAIN files
      BY <1>7 DEF Load, Locating
    <2>4. Composed(e)
      BY <1>1, <2>2, <2>3, OpenedComposed
    <2> HIDE DEF e
    <2> QED
      BY <1>4, <2>1, <2>4
  <1>8. ASSUME Crash \/ Stays PROVE \A n \in 1..Len(stack') : Composed(stack'[n])
    BY <1>8 DEF Crash, Stays, Contents
  <1>9. \A n \in 1..Len(stack') : Composed(stack'[n])
    BY <1>5, <1>6, <1>7, <1>8, StepEffects
  <1> QED
    BY <1>3, <1>9 DEF Contents

-------------------------------------------------------------------------------
(* The end.                                                                 *)

Finished == mode = "done" => Len(stack) = 1 /\ Top.next > Len(Imports(Top.file))

LEMMA FinishedNext ==
  ASSUME [Next]_vars, Finished
  PROVE  Finished'
  <1>1. ASSUME NEW h, NEW kind, Report(h, kind), mode = "assembling" PROVE mode' # "done"
    BY <1>1 DEF Report
  <1>2. ASSUME AliasConflict \/ NotFound \/ Circular \/ Unreadable PROVE mode' # "done"
    BY <1>1, <1>2 DEF AliasConflict, NotFound, Circular, Unreadable, Locating, Importing, Skip
  <1>3. ASSUME RejectWrites \/ RejectNames \/ RejectBinding PROVE mode' # "done"
    BY <1>1, <1>3 DEF RejectWrites, RejectNames, RejectBinding, Named, Clean, Returning, Drop
  <1>4. ASSUME Load \/ RejectNested \/ Merge PROVE mode' # "done"
    BY <1>4 DEF Load, Locating, Importing, RejectNested, Merge, Binding, Named, Clean, Returning
  <1>5. ASSUME MergeReporting \/ Crash PROVE mode' # "done"
    BY <1>1, <1>5 DEF MergeReporting, Crash, Binding, Named, Clean, Returning
  <1>6. ASSUME Finish PROVE Finished'
    <2>1. stack' = stack /\ files' = files
      BY <1>6 DEF Finish, fixed
    <2>2. Top' = Top /\ \A f : Imports(f)' = Imports(f)
      BY <2>1 DEF Top, Imports
    <2> QED
      BY <1>6, <2>1, <2>2 DEF Finish, Finished
  <1>7. ASSUME Over \/ UNCHANGED vars PROVE Finished'
    <2>1. stack' = stack /\ files' = files /\ mode' = mode
      BY <1>7 DEF Over, vars
    <2>2. Top' = Top /\ \A f : Imports(f)' = Imports(f)
      BY <2>1 DEF Top, Imports
    <2> QED
      BY <2>1, <2>2 DEF Finished
  <1> QED
    BY <1>2, <1>3, <1>4, <1>5, <1>6, <1>7 DEF Next, Finished

(* The entry program as it is parsed.                                       *)
LEMMA InitKept == Init => AllRead /\ Reporting /\ Keeping /\ Contents /\ Finished
  <1> SUFFICES ASSUME Init PROVE AllRead /\ Reporting /\ Keeping /\ Contents /\ Finished
    OBVIOUS
  <1> DEFINE e == Opened(Main, <<>>, {})
  <1>1. IInv /\ Outer
    BY InitIInv DEF IInv
  <1>2. Len(stack) = 1 /\ stack[1] = e /\ reported = {} /\ mode = "assembling"
    <2>1. stack = <<e>>
      BY DEF Init
    <2> HIDE DEF e
    <2> QED
      BY <2>1 DEF Init
  <1>3. Main \in DOMAIN files
    BY <1>1, FilesAssumption DEF Outer
  <1>4. <<>> \in Seq(Nat) /\ Len(<<>>) = 0
    BY EmptySeq
  <1>5. e.chain = <<>> /\ e.kept = {} /\ e.next = 1 /\ e.since = {}
    BY DEF Opened
  <1>6. FileOf(<<>>) = Main
    BY <1>4, FileOfGrows
  <1>7. Composed(e)
    BY <1>1, <1>3, <1>4, <1>6, OpenedComposed
  <1> HIDE DEF e
  <1>8. AllRead
    BY <1>2 DEF AllRead
  <1>9. Reporting
    BY <1>2, <1>5 DEF Reporting, SawBefore, Until
  <1>10. Keeping
    <2>1. ASSUME NEW d \in Chain, Beyond(<<>>, d), d[1] < 1 PROVE FALSE
      <3>1. d \in Seq(Nat) /\ Leads(d) /\ Len(d) \in Nat
        BY <1>1, ChainIs, LenProperties
      <3>2. 1 \in 1..Len(d) /\ 1 - 1 = 0 /\ Prefix(d, 0) = <<>>
        BY <1>4, <2>1, <3>1, WholePrefix DEF Beyond
      <3>3. d[1] \in DOMAIN Imports(FileOf(Prefix(d, 1 - 1)))
        BY <3>1, <3>2 DEF Leads
      <3>4. DOMAIN Imports(Main) = 1..Len(Imports(Main)) /\ Len(Imports(Main)) \in Nat
        BY <1>1, <1>3, FileFacts DEF Imports
      <3> QED
        BY <1>6, <2>1, <3>2, <3>3, <3>4
    <2>2. GoodBelow({}, <<>>, 1) = {}
      <3>1. Len(<<>>) + 1 = 1
        BY <1>4
      <3> QED
        BY <2>1, <3>1 DEF GoodBelow
    <2>3. e.kept = GoodBelow(reported, e.chain, e.next)
      BY <1>2, <1>5, <2>2
    <2>4. \A n \in 1..Len(stack) : n = 1
      BY <1>2
    <2> QED
      BY <1>2, <2>3, <2>4, Zenon DEF Keeping
  <1>11. Contents
    BY <1>2, <1>7 DEF Contents
  <1> QED
    BY <1>2, <1>8, <1>9, <1>10, <1>11 DEF Finished

LEMMA KeptIsWhole ==
  ASSUME IInv, Standing, Keeping, Contents, Finished
  PROVE  NothingHalfImported
  <1> SUFFICES ASSUME mode = "done" PROVE NothingHalfImported
    BY DEF NothingHalfImported
  <1> DEFINE Bad(d) == \E r \in reported : IsPrefix(d, r.at) /\ (r.at = d => r.kind # "event")
             good == {c \in Chain \ {<<>>} : \A n \in 1..Len(c) : ~Bad(Prefix(c, n))}
             fr == stack[1]
  <1>1. /\ Len(stack) = 1 /\ 1 \in 1..Len(stack) /\ fr.chain = <<>>
        /\ fr.next > Len(Imports(fr.file)) /\ Outer
    BY EntryProgram DEF Finished, Top, IInv
  <1>2. <<>> \in Seq(Nat) /\ Len(<<>>) = 0 /\ \A c \in Seq(Nat) : Len(c) = 0 => c = <<>>
    BY EmptySeq
  <1>3. fr.file = Main /\ fr.next \in Nat
    BY <1>1, <1>2, StandFacts, FileOfGrows
  <1>4. DOMAIN Imports(Main) = 1..Len(Imports(Main)) /\ Len(Imports(Main)) \in Nat
    BY <1>1, FilesAssumption, FileFacts DEF Outer, Imports
  <1>5. fr.kept = good
    <2>1. fr.kept = GoodBelow(reported, <<>>, fr.next)
      BY <1>1 DEF Keeping, Living
    <2>2. ASSUME NEW d \in Chain
          PROVE  d \in GoodBelow(reported, <<>>, fr.next) <=> d \in good
      <3>1. d \in Seq(Nat) /\ Leads(d) /\ Len(d) \in Nat
        BY <1>1, ChainIs, LenProperties
      <3>2. d # <<>> <=> Beyond(<<>>, d)
        BY <1>2, <3>1, WholePrefix DEF Beyond
      <3>3. ASSUME d # <<>> PROVE d[1] < fr.next
        <4>1. 1 \in 1..Len(d) /\ 1 - 1 = 0 /\ Prefix(d, 0) = <<>>
          BY <1>2, <3>1, <3>3, WholePrefix
        <4>2. d[1] \in DOMAIN Imports(FileOf(Prefix(d, 1 - 1)))
          BY <3>1, <4>1 DEF Leads
        <4>3. d[1] \in 1..Len(Imports(Main))
          BY <1>2, <1>4, <4>1, <4>2, FileOfGrows
        <4> QED
          BY <1>1, <1>3, <1>4, <4>3
      <3>4. Good(reported, <<>>, d) <=> \A n \in 1..Len(d) : ~Bad(Prefix(d, n))
        <4>1. Len(<<>>) + 1 = 1
          BY <1>2
        <4> QED
          BY <4>1, Zenon DEF Good, Faulty
      <3>5. Len(<<>>) + 1 = 1
        BY <1>2
      <3> HIDE DEF fr, Bad
      <3> QED
        BY <3>2, <3>3, <3>4, <3>5 DEF GoodBelow
    <2> QED
      BY <2>1, <2>2 DEF GoodBelow
  <1>6. Composed(fr)
    BY <1>1 DEF Contents
  <1> HIDE DEF fr, good
  <1>7. Parts(fr) = good \cup {<<>>}
    BY <1>1, <1>5 DEF Parts
  <1>8. {s.module : s \in UNION {fr.sources[v] : v \in DOMAIN fr.sources}}
          = {c \in good \cup {<<>>} : DOMAIN files[FileOf(c)].defs # {}}
    <2>1. \A d : d \in {s.module : s \in UNION {fr.sources[v] : v \in DOMAIN fr.sources}}
                   <=> Declares(fr, d)
      BY DEF Declares
    <2>2. \A d : Declares(fr, d) <=> d \in good \cup {<<>>} /\ DOMAIN files[FileOf(d)].defs # {}
      BY <1>6, <1>7 DEF Composed
    <2> QED
      BY <2>1, <2>2
  <1>9. {g.path : g \in fr.grafts} \cup files[Main].states
          = UNION {{Place(c)[0] \o s : s \in files[FileOf(c)].states} : c \in good \cup {<<>>}}
    <2>1. {g.path : g \in fr.grafts} \cup files[Main].states = Tree(fr)
      BY <1>3 DEF Tree
    <2>2. \A p : p \in Tree(fr) <=> Comes(<<>>, good \cup {<<>>}, p)
      BY <1>1, <1>6, <1>7, Zenon DEF Composed
    <2>3. \A p : Comes(<<>>, good \cup {<<>>}, p) <=>
             p \in UNION {{Place(c)[0] \o s : s \in files[FileOf(c)].states} : c \in good \cup {<<>>}}
      <3> DEFINE all == good \cup {<<>>}
      <3> HIDE DEF all
      <3>1. \A p : Comes(<<>>, all, p) <=>
              \E c \in all : \E s \in files[FileOf(c)].states : p = Place(c)[0] \o s
        BY <1>2 DEF Comes
      <3>2. \A p : Comes(<<>>, all, p) <=>
              p \in UNION {{Place(c)[0] \o s : s \in files[FileOf(c)].states} : c \in all}
        <4> DEFINE A(c) == {Place(c)[0] \o s : s \in files[FileOf(c)].states}
        <4>1. \A c, p : p \in A(c) <=> \E s \in files[FileOf(c)].states : p = Place(c)[0] \o s
          OBVIOUS
        <4> HIDE DEF A
        <4>2. \A p : p \in UNION {A(c) : c \in all} <=> \E c \in all : p \in A(c)
          OBVIOUS
        <4>3. \A p : Comes(<<>>, all, p) <=> \E c \in all : p \in A(c)
          BY <3>1, <4>1, Zenon
        <4>4. \A p : Comes(<<>>, all, p) <=> p \in UNION {A(c) : c \in all}
          BY <4>2, <4>3, Zenon
        <4> QED
          BY <4>4, Zenon DEF A
      <3> QED
        BY <3>2, Zenon DEF all
    <2> QED
      BY <2>1, <2>2, <2>3
  <1>10. {r.module : r \in fr.refs} \subseteq good \cup {<<>>}
    BY <1>6, <1>7 DEF Composed
  <1> QED
    BY <1>5, <1>8, <1>9, <1>10, Zenon DEF NothingHalfImported, Refs, fr, good

(* Through any number of levels, an import of the program that is assembled *)
(* has brought its states, declarations and references, or none of them: it *)
(* is missing exactly when something is reported of it, of an import on the *)
(* way to it or of one below it, its own events apart.                      *)
THEOREM ImportsAreWhole == Spec => []NothingHalfImported
  <1> DEFINE Inv == /\ IInv /\ Standing /\ Tracked
                    /\ AllRead /\ Reporting /\ Keeping /\ Contents /\ Finished
  <1>1. Init => Inv
    BY InitIInv, InitTracked, InitKept
  <1>2. Inv /\ [Next]_vars => Inv'
    BY NextIInv, ReachedNext, TrackedNext, AllReadNext, ReportingNext, KeepingNext, ContentsNext,
       FinishedNext
  <1>3. Inv => NothingHalfImported
    BY KeptIsWhole
  <1> QED
    BY <1>1, <1>2, <1>3, PTL DEF Spec


-------------------------------------------------------------------------------
(* What the instances offer, if every import can be located.                *)

LEMMA BelowChains ==
  ASSUME Outer, Located, NEW c \in Chain
  PROVE  /\ c \in Seq(Nat) /\ (c = <<>> \/ Readable(c))
         /\ \A d \in Below(c) : /\ d \in Chain /\ d # <<>> /\ Len(d) = Len(c) + 1
                                /\ Front(d) = c /\ Last(d) \in DOMAIN Imports(FileOf(c))
                                /\ d = Append(c, Last(d)) /\ Last(d) \in Nat
  <1>1. c \in Seq(Nat) /\ Leads(c)
    BY ChainIs
  <1>2. c = <<>> \/ Readable(c)
    BY DEF Located
  <1>3. DOMAIN Imports(FileOf(c)) = 1..Len(Imports(FileOf(c))) /\ Len(Imports(FileOf(c))) \in Nat
    BY <1>2, ReachedFile
  <1>4. ASSUME NEW k \in DOMAIN Imports(FileOf(c))
        PROVE  LET d == Append(c, k)
               IN  /\ d \in Chain /\ d # <<>> /\ Len(d) = Len(c) + 1
                   /\ Front(d) = c /\ Last(d) = k /\ k \in Nat
    <2>1. k \in Nat
      BY <1>3
    <2>2. Leads(Append(c, k))
      BY <1>1, <1>2, <2>1, LeadsGrow
    <2> QED
      BY <1>1, <2>1, <2>2, LongerChain, ChainIs
  <1>5. \A d \in Below(c) : \E k \in DOMAIN Imports(FileOf(c)) : d = Append(c, k)
    BY DEF Below
  <1> QED
    BY <1>1, <1>2, <1>4, <1>5

(* The chains below which there are less than k levels.                     *)
Tall(k) == {c \in Chain : Len(c) + k > Cardinality(Modules) + 1}

LEMMA TallFacts ==
  ASSUME Outer, Located
  PROVE  /\ Cardinality(Modules) \in Nat
         /\ Tall(0) = {} /\ Tall(Cardinality(Modules) + 2) = Chain
         /\ \A k \in Nat : Tall(k) \subseteq Tall(k + 1)
         /\ \A k \in Nat : \A c \in Tall(k + 1) : \A d \in Below(c) : d \in Tall(k)
  <1>1. Cardinality(Modules) \in Nat
    BY FS_CardinalityType, FilesAssumption DEF Outer, Modules
  <1>2. \A c \in Chain : Len(c) \in Nat /\ Len(c) <= Cardinality(Modules) + 1
    <2> TAKE c \in Chain
    <2>1. c \in Seq(Nat) /\ Leads(c)
      BY ChainIs
    <2>2. Len(c) \in 0..Cardinality(Modules) + 1
      BY <2>1, LeadsShort
    <2> QED
      BY <1>1, <2>2
  <1>3. ASSUME NEW k \in Nat, NEW c \in Tall(k + 1), NEW d \in Below(c) PROVE d \in Tall(k)
    <2>1. c \in Chain /\ Len(c) + (k + 1) > Cardinality(Modules) + 1
      BY DEF Tall
    <2>2. d \in Chain /\ Len(d) = Len(c) + 1
      BY <2>1, BelowChains
    <2> QED
      BY <1>1, <1>2, <2>1, <2>2 DEF Tall
  <1>4. \A k \in Nat : Tall(k) \subseteq Tall(k + 1)
    BY <1>1, <1>2 DEF Tall
  <1>5. Tall(0) = {} /\ Tall(Cardinality(Modules) + 2) = Chain
    BY <1>1, <1>2 DEF Tall
  <1> QED
    BY <1>1, <1>3, <1>4, <1>5

(* A program with the declarations own, to which others are bound.          *)
Bringing(own, got) ==
  [n \in DOMAIN own \cup {g[1] : g \in got} |->
     IF n \in DOMAIN own THEN own[n] ELSE (CHOOSE g \in got : g[1] = n)[2]]

(* The variables of c, if those below it have the variables of f.           *)
Offers(f, d) == {<<Target(Import(d), v), f[d][v]>> : v \in DOMAIN f[d]}
ScopeAt(c, f) == Bringing(files[FileOf(c)].defs, UNION {Offers(f, d) : d \in Below(c)})

LEMMA ScopeSame ==
  ASSUME NEW c, NEW f, NEW h, \A d \in Below(c) : f[d] = h[d]
  PROVE  ScopeAt(c, f) = ScopeAt(c, h)
  <1>1. \A d \in Below(c) : Offers(f, d) = Offers(h, d)
    BY DEF Offers
  <1>2. UNION {Offers(f, d) : d \in Below(c)} = UNION {Offers(h, d) : d \in Below(c)}
    BY <1>1
  <1> QED
    BY <1>2 DEF ScopeAt

(* What it assigns, and its states, likewise.                               *)
Renamed(f, d) == {IF v \in DOMAIN Scope[d] THEN Target(Import(d), v) ELSE v : v \in f[d]}
AssignedAt(c, f) == files[FileOf(c)].writes \cup UNION {Renamed(f, d) : d \in Below(c)}

LEMMA AssignedSame ==
  ASSUME NEW c, NEW f, NEW h, \A d \in Below(c) : f[d] = h[d]
  PROVE  AssignedAt(c, f) = AssignedAt(c, h)
  <1>1. \A d \in Below(c) : Renamed(f, d) = Renamed(h, d)
    BY DEF Renamed
  <1>2. UNION {Renamed(f, d) : d \in Below(c)} = UNION {Renamed(h, d) : d \in Below(c)}
    BY <1>1
  <1> QED
    BY <1>2 DEF AssignedAt

Moved(f, d) == {Instance(Import(d)) \o s : s \in f[d]}
StatesAt(c, f) == files[FileOf(c)].states \cup UNION {Moved(f, d) : d \in Below(c)}

LEMMA StatesSame ==
  ASSUME NEW c, NEW f, NEW h, \A d \in Below(c) : f[d] = h[d]
  PROVE  StatesAt(c, f) = StatesAt(c, h)
  <1>1. \A d \in Below(c) : Moved(f, d) = Moved(h, d)
    BY DEF Moved
  <1>2. UNION {Moved(f, d) : d \in Below(c)} = UNION {Moved(h, d) : d \in Below(c)}
    BY <1>1
  <1> QED
    BY <1>2 DEF StatesAt

(* The three together, for one proof that there are such functions.         *)
AllAt(c, f) ==
  [scope    |-> ScopeAt(c, [d \in Below(c) |-> f[d].scope]),
   assigned |-> AssignedAt(c, [d \in Below(c) |-> f[d].assigned]),
   states   |-> StatesAt(c, [d \in Below(c) |-> f[d].states])]

LEMMA AllExist ==
  ASSUME Outer, Located
  PROVE  \E f : f = [c \in Chain |-> AllAt(c, f)]
  <1> DEFINE Level(k, f) == f = [c \in Tall(k) |-> AllAt(c, f)]
             T == {k \in Nat : ~ \E f : Level(k, f)}
  <1>1. ASSUME T # {} PROVE FALSE
    <2>1. T \in SUBSET Nat
      OBVIOUS
    <2>2. PICK k \in T : \A l \in T : k <= l
      BY <1>1, <2>1, LeastNumber
    <2>3. CASE k = 0
      <3> DEFINE f == [c \in {} |-> AllAt(c, {})]
      <3>1. Level(0, f)
        BY TallFacts
      <3> QED
        BY <2>2, <2>3, <3>1
    <2>4. CASE k # 0
      <3>0. k \in Nat
        BY <2>2
      <3>1. k - 1 \in Nat /\ k - 1 + 1 = k /\ ~(k <= k - 1)
        BY <2>4, <3>0
      <3>2. k - 1 \notin T
        BY <2>2, <3>1
      <3>3. PICK f : Level(k - 1, f)
        BY <3>1, <3>2
      <3> DEFINE h == [c \in Tall(k) |-> AllAt(c, f)]
      <3>4. \A c \in Tall(k - 1) : f[c] = AllAt(c, f)
        BY <3>3
      <3>5. \A c \in Tall(k) : h[c] = AllAt(c, f)
        OBVIOUS
      <3>6. Tall(k - 1) \subseteq Tall(k) /\ \A c \in Tall(k) : \A d \in Below(c) : d \in Tall(k - 1)
        BY <3>1, TallFacts
      <3> HIDE DEF h
      <3>7. \A c \in Tall(k) : \A d \in Below(c) : h[d] = f[d]
        BY <3>4, <3>5, <3>6
      <3>8. \A c \in Tall(k) : AllAt(c, h) = AllAt(c, f)
        <4> TAKE c \in Tall(k)
        <4>1. /\ [d \in Below(c) |-> h[d].scope] = [d \in Below(c) |-> f[d].scope]
              /\ [d \in Below(c) |-> h[d].assigned] = [d \in Below(c) |-> f[d].assigned]
              /\ [d \in Below(c) |-> h[d].states] = [d \in Below(c) |-> f[d].states]
          BY <3>7
        <4> QED
          BY <4>1, Zenon DEF AllAt
      <3>9. Level(k, h)
        BY <3>8 DEF h
      <3> QED
        BY <2>2, <3>9
    <2> QED
      BY <2>3, <2>4
  <1>2. PICK f : Level(Cardinality(Modules) + 2, f)
    BY <1>1, TallFacts
  <1> QED
    BY <1>2, TallFacts

LEMMA EachExists ==
  ASSUME Outer, Located
  PROVE  /\ \E f : f = [c \in Chain |-> ScopeAt(c, f)]
         /\ \E f : f = [c \in Chain |-> AssignedAt(c, f)]
         /\ \E f : f = [c \in Chain |-> StatesAt(c, f)]
  <1>1. PICK f : f = [c \in Chain |-> AllAt(c, f)]
    BY AllExist
  <1>2. \A c \in Chain :
          /\ f[c].scope = ScopeAt(c, [d \in Below(c) |-> f[d].scope])
          /\ f[c].assigned = AssignedAt(c, [d \in Below(c) |-> f[d].assigned])
          /\ f[c].states = StatesAt(c, [d \in Below(c) |-> f[d].states])
    <2> TAKE c \in Chain
    <2>1. f[c] = AllAt(c, f)
      BY <1>1
    <2> QED
      BY <2>1, SMT DEF AllAt
  <1>3. \A c \in Chain : \A d \in Below(c) : d \in Chain
    BY BelowChains
  <1>4. \E h : h = [c \in Chain |-> ScopeAt(c, h)]
    <2> DEFINE h == [c \in Chain |-> f[c].scope]
    <2>1. \A c \in Chain : \A d \in Below(c) : [e \in Below(c) |-> f[e].scope][d] = h[d]
      BY <1>3
    <2>2. \A c \in Chain : h[c] = f[c].scope
      OBVIOUS
    <2>3. h = [c \in Chain |-> h[c]]
      OBVIOUS
    <2> HIDE DEF h
    <2>4. \A c \in Chain : ScopeAt(c, [d \in Below(c) |-> f[d].scope]) = ScopeAt(c, h)
      BY <2>1, ScopeSame
    <2>5. h = [c \in Chain |-> ScopeAt(c, h)]
      BY <1>2, <2>2, <2>3, <2>4
    <2> QED
      BY <2>5
  <1>5. \E h : h = [c \in Chain |-> AssignedAt(c, h)]
    <2> DEFINE h == [c \in Chain |-> f[c].assigned]
    <2>1. \A c \in Chain : \A d \in Below(c) : [e \in Below(c) |-> f[e].assigned][d] = h[d]
      BY <1>3
    <2>2. \A c \in Chain : h[c] = f[c].assigned
      OBVIOUS
    <2>3. h = [c \in Chain |-> h[c]]
      OBVIOUS
    <2> HIDE DEF h
    <2>4. \A c \in Chain : AssignedAt(c, [d \in Below(c) |-> f[d].assigned]) = AssignedAt(c, h)
      BY <2>1, AssignedSame
    <2>5. h = [c \in Chain |-> AssignedAt(c, h)]
      BY <1>2, <2>2, <2>3, <2>4
    <2> QED
      BY <2>5
  <1>6. \E h : h = [c \in Chain |-> StatesAt(c, h)]
    <2> DEFINE h == [c \in Chain |-> f[c].states]
    <2>1. \A c \in Chain : \A d \in Below(c) : [e \in Below(c) |-> f[e].states][d] = h[d]
      BY <1>3
    <2>2. \A c \in Chain : h[c] = f[c].states
      OBVIOUS
    <2>3. h = [c \in Chain |-> h[c]]
      OBVIOUS
    <2> HIDE DEF h
    <2>4. \A c \in Chain : StatesAt(c, [d \in Below(c) |-> f[d].states]) = StatesAt(c, h)
      BY <2>1, StatesSame
    <2>5. h = [c \in Chain |-> StatesAt(c, h)]
      BY <1>2, <2>2, <2>3, <2>4
    <2> QED
      BY <2>5
  <1> QED
    BY <1>4, <1>5, <1>6

LEMMA ScopeIs ==
  ASSUME Outer, Located, NEW c \in Chain
  PROVE  Scope[c] = ScopeAt(c, Scope)
  <1> DEFINE Step(f) == [e \in Chain |->
        LET own == files[FileOf(e)].defs
            got == UNION {{<<Target(Import(d), v), f[d][v]>> : v \in DOMAIN f[d]} : d \in Below(e)}
        IN  [n \in DOMAIN own \cup {g[1] : g \in got} |->
               IF n \in DOMAIN own THEN own[n] ELSE (CHOOSE g \in got : g[1] = n)[2]]]
             s == CHOOSE f : f = Step(f)
  <1>1. \E f : f = Step(f)
    <2>1. PICK f : f = [e \in Chain |-> ScopeAt(e, f)]
      BY EachExists
    <2>2. f = Step(f)
      BY <2>1, Zenon DEF ScopeAt, Bringing, Offers
    <2> QED
      BY <2>2, Zenon
  <1>2. s = Step(s)
    BY <1>1, Zenon
  <1>3. Scope = [e \in Chain |-> s[e]]
    BY Zenon DEF Scope
  <1> HIDE DEF s
  <1>4. \A e \in Chain : s[e] = ScopeAt(e, s)
    BY <1>2, Zenon DEF ScopeAt, Bringing, Offers
  <1>5. \A e \in Chain : Scope[e] = s[e]
    BY <1>3
  <1>6. \A d \in Below(c) : Scope[d] = s[d]
    BY <1>5, BelowChains
  <1>7. ScopeAt(c, Scope) = ScopeAt(c, s)
    BY <1>6, ScopeSame
  <1> QED
    BY <1>4, <1>5, <1>7

LEMMA AssignedIs ==
  ASSUME Outer, Located, NEW c \in Chain
  PROVE  Assigned[c] = AssignedAt(c, Assigned)
  <1> DEFINE Step(f) == [e \in Chain |->
        files[FileOf(e)].writes
          \cup UNION {{IF v \in DOMAIN Scope[d] THEN Target(Import(d), v) ELSE v : v \in f[d]} :
                         d \in Below(e)}]
             s == CHOOSE f : f = Step(f)
  <1>1. \E f : f = Step(f)
    <2>1. PICK f : f = [e \in Chain |-> AssignedAt(e, f)]
      BY EachExists
    <2>2. f = Step(f)
      BY <2>1, Zenon DEF AssignedAt, Renamed
    <2> QED
      BY <2>2, Zenon
  <1>2. s = Step(s)
    BY <1>1, Zenon
  <1>3. Assigned = [e \in Chain |-> s[e]]
    BY Zenon DEF Assigned
  <1> HIDE DEF s
  <1>4. \A e \in Chain : s[e] = AssignedAt(e, s)
    BY <1>2, Zenon DEF AssignedAt, Renamed
  <1>5. \A e \in Chain : Assigned[e] = s[e]
    BY <1>3
  <1>6. \A d \in Below(c) : Assigned[d] = s[d]
    BY <1>5, BelowChains
  <1>7. AssignedAt(c, Assigned) = AssignedAt(c, s)
    BY <1>6, AssignedSame
  <1> QED
    BY <1>4, <1>5, <1>7

LEMMA StatesIs ==
  ASSUME Outer, Located, NEW c \in Chain
  PROVE  States[c] = StatesAt(c, States)
  <1> DEFINE Step(f) == [e \in Chain |->
        files[FileOf(e)].states
          \cup UNION {{Instance(Import(d)) \o s : s \in f[d]} : d \in Below(e)}]
             s == CHOOSE f : f = Step(f)
  <1>1. \E f : f = Step(f)
    <2>1. PICK f : f = [e \in Chain |-> StatesAt(e, f)]
      BY EachExists
    <2>2. f = Step(f)
      BY <2>1, Zenon DEF StatesAt, Moved
    <2> QED
      BY <2>2, Zenon
  <1>2. s = Step(s)
    BY <1>1, Zenon
  <1>3. States = [e \in Chain |-> s[e]]
    BY Zenon DEF States
  <1> HIDE DEF s
  <1>4. \A e \in Chain : s[e] = StatesAt(e, s)
    BY <1>2, Zenon DEF StatesAt, Moved
  <1>5. \A e \in Chain : States[e] = s[e]
    BY <1>3
  <1>6. \A d \in Below(c) : States[d] = s[d]
    BY <1>5, BelowChains
  <1>7. StatesAt(c, States) = StatesAt(c, s)
    BY <1>6, StatesSame
  <1> QED
    BY <1>4, <1>5, <1>7

(* The variable v of the instance d becomes n.                              *)
Binds(d, v, n) == v \in DOMAIN Scope[d] /\ Target(Import(d), v) = n

LEMMA ScopeFacts ==
  ASSUME Outer, Located, NEW c \in Chain
  PROVE  LET own == files[FileOf(c)].defs
         IN  /\ Scope[c] = [n \in DOMAIN Scope[c] |-> Scope[c][n]]
             /\ \A n : n \in DOMAIN Scope[c] <=>
                         n \in DOMAIN own \/ \E d \in Below(c) : \E v : Binds(d, v, n)
             /\ \A n \in DOMAIN own : Scope[c][n] = own[n]
             /\ \A n \in DOMAIN Scope[c] : n \notin DOMAIN own =>
                  \E d \in Below(c) : \E v : Binds(d, v, n) /\ Scope[c][n] = Scope[d][v]
  <1> DEFINE own == files[FileOf(c)].defs
             A(d) == {<<Target(Import(d), v), Scope[d][v]>> : v \in DOMAIN Scope[d]}
             got == UNION {A(d) : d \in Below(c)}
             S == Scope[c]
  <1>1. S = [n \in DOMAIN own \cup {g[1] : g \in got} |->
               IF n \in DOMAIN own THEN own[n] ELSE (CHOOSE g \in got : g[1] = n)[2]]
    BY ScopeIs, Zenon DEF ScopeAt, Bringing, Offers
  <1>2. \A g : g \in got <=> \E d \in Below(c) : \E v \in DOMAIN Scope[d] :
                                g = <<Target(Import(d), v), Scope[d][v]>>
    OBVIOUS
  <1> HIDE DEF got, A, own, S
  <1>3. /\ S = [n \in DOMAIN S |-> S[n]]
        /\ DOMAIN S = DOMAIN own \cup {g[1] : g \in got}
        /\ \A n \in DOMAIN own : S[n] = own[n]
        /\ \A n \in DOMAIN S : n \notin DOMAIN own => S[n] = (CHOOSE g \in got : g[1] = n)[2]
    BY <1>1
  <1>4. \A n : n \in {g[1] : g \in got} <=> \E d \in Below(c) : \E v : Binds(d, v, n)
    <2> TAKE n
    <2>1. ASSUME NEW g \in got, g[1] = n PROVE \E d \in Below(c) : \E v : Binds(d, v, n)
      <3>1. PICK d \in Below(c) : \E v \in DOMAIN Scope[d] : g = <<Target(Import(d), v), Scope[d][v]>>
        BY <1>2
      <3>2. PICK v \in DOMAIN Scope[d] : g = <<Target(Import(d), v), Scope[d][v]>>
        BY <3>1
      <3>3. Binds(d, v, n)
        BY <2>1, <3>2 DEF Binds
      <3> QED
        BY <3>3
    <2>2. ASSUME NEW d \in Below(c), NEW v, Binds(d, v, n) PROVE \E g \in got : g[1] = n
      <3>1. <<Target(Import(d), v), Scope[d][v]>> \in got
        BY <1>2, <2>2 DEF Binds
      <3> QED
        BY <2>2, <3>1 DEF Binds
    <2> QED
      BY <2>1, <2>2
  <1>5. ASSUME NEW n \in DOMAIN S, n \notin DOMAIN own
        PROVE  \E d \in Below(c) : \E v : Binds(d, v, n) /\ S[n] = Scope[d][v]
    <2>1. \E g \in got : g[1] = n
      BY <1>3, <1>5
    <2> DEFINE g == CHOOSE x \in got : x[1] = n
    <2>2. g \in got /\ g[1] = n
      BY <2>1
    <2>3. S[n] = g[2]
      BY <1>3, <1>5
    <2> HIDE DEF g
    <2>4. PICK d \in Below(c) : \E v \in DOMAIN Scope[d] : g = <<Target(Import(d), v), Scope[d][v]>>
      BY <1>2, <2>2
    <2>5. PICK v \in DOMAIN Scope[d] : g = <<Target(Import(d), v), Scope[d][v]>>
      BY <2>4
    <2>6. Binds(d, v, n) /\ S[n] = Scope[d][v]
      BY <2>2, <2>3, <2>5 DEF Binds
    <2> QED
      BY <2>6
  <1> QED
    BY <1>3, <1>4, <1>5 DEF S, own

-------------------------------------------------------------------------------
(* What a program has taken over, while nothing is reported.                *)

(* The imports a program has passed.                                        *)
Done(fr) == {Append(fr.chain, k) : k \in 1..fr.next - 1}

LEMMA DoneFacts ==
  ASSUME Outer, Located, NEW fr, Framed(files, fr), fr.chain \in Chain, FileOf(fr.chain) = fr.file
  PROVE  /\ \A d : d \in Done(fr) <=> d \in Below(fr.chain) /\ Last(d) < fr.next
         /\ fr.next > Len(Imports(fr.file)) => Done(fr) = Below(fr.chain)
  <1> DEFINE c == fr.chain
             f == fr.file
  <1>1. /\ fr.next \in 1..Len(Imports(f)) + 1 /\ DOMAIN Imports(f) = 1..Len(Imports(f))
        /\ Len(Imports(f)) \in Nat
    BY FileFacts DEF Framed, Imports
  <1>2. \A d \in Below(c) : Last(d) \in DOMAIN Imports(f) /\ d = Append(c, Last(d))
    BY BelowChains
  <1>3. \A k \in DOMAIN Imports(f) : Append(c, k) \in Below(c)
    BY DEF Below
  <1>4. \A k \in DOMAIN Imports(f) : Last(Append(c, k)) = k
    <2> TAKE k \in DOMAIN Imports(f)
    <2>1. k \in Nat /\ c \in Seq(Nat)
      BY <1>1 DEF Framed
    <2> QED
      BY <2>1, LongerChain
  <1> HIDE DEF c, f
  <1>5. \A k \in 1..fr.next - 1 : k \in DOMAIN Imports(f) /\ k < fr.next
    BY <1>1
  <1>6. \A d : d \in Done(fr) <=> d \in Below(c) /\ Last(d) < fr.next
    <2>1. ASSUME NEW d \in Done(fr) PROVE d \in Below(c) /\ Last(d) < fr.next
      <3>1. PICK k \in 1..fr.next - 1 : d = Append(c, k)
        BY DEF Done, c
      <3> QED
        BY <1>3, <1>4, <1>5, <3>1
    <2>2. ASSUME NEW d \in Below(c), Last(d) < fr.next PROVE d \in Done(fr)
      <3>1. d = Append(c, Last(d)) /\ Last(d) \in 1..fr.next - 1
        BY <1>1, <1>2, <2>2
      <3> QED
        BY <3>1 DEF Done, c
    <2> QED
      BY <2>1, <2>2
  <1>7. ASSUME fr.next > Len(Imports(f)) PROVE Done(fr) = Below(c)
    <2>1. \A d \in Below(c) : Last(d) < fr.next
      BY <1>1, <1>2, <1>7
    <2> QED
      BY <1>6, <2>1
  <1> QED
    BY <1>6, <1>7 DEF c, f

LEMMA DoneNext ==
  ASSUME NEW fr, fr.next \in Nat, fr.next > 0,
         NEW e, e.chain = fr.chain, e.next = fr.next + 1
  PROVE  Done(e) = Done(fr) \cup {Append(fr.chain, fr.next)}
  <1>1. \A k : k \in 1..e.next - 1 <=> k \in 1..fr.next - 1 \/ k = fr.next
    OBVIOUS
  <1> QED
    BY <1>1 DEF Done

(* Declarations are records.                                                *)
Typed(d) == d = [role |-> d.role, type |-> d.type, init |-> d.init]

Recorded(fr) ==
  /\ fr.defs = [n \in DOMAIN fr.defs |-> fr.defs[n]]
  /\ \A n \in DOMAIN fr.defs : Typed(fr.defs[n])

(* The variable v of the instance d may become the variable n.              *)
Fits(fr, d, v, n) ==
  LET own == files[fr.file].defs
  IN  IF n \in DOMAIN own
        THEN own[n].role \in Targets[Scope[d][v].role] /\ own[n].type = Scope[d][v].type
        ELSE fr.defs[n] = Scope[d][v]

Declaring(fr) ==
  \A n : n \in DOMAIN fr.defs <=>
           n \in DOMAIN files[fr.file].defs \/ \E d \in Done(fr) : \E v : Binds(d, v, n)
Fitting(fr) == \A d \in Done(fr) : \A v, n : Binds(d, v, n) => Fits(fr, d, v, n)

(* Two instances share no input the program does not declare.               *)
Sharing(fr) ==
  \A d, e \in Done(fr) : \A v, w, n :
    /\ Binds(d, v, n) /\ Binds(e, w, n)
    /\ n \notin DOMAIN files[fr.file].defs /\ Scope[d][v].role = "input"
    => d = e

Writing(fr) ==
  fr.writes = files[fr.file].writes \cup UNION {Renamed(Assigned, d) : d \in Done(fr)}

Brought(d) == {[owner |-> Import(d).at, path |-> Instance(Import(d)) \o s] : s \in States[d]}
Grafting(fr) == fr.grafts = UNION {Brought(d) : d \in Done(fr)}

Ready(fr) == Declaring(fr) /\ Fitting(fr) /\ Sharing(fr) /\ Writing(fr) /\ Grafting(fr)

(* A program without imports left is what its instance offers.              *)
LEMMA WholeFrame ==
  ASSUME Outer, Located, NEW fr, Framed(files, fr), Kept(files, fr), Recorded(fr),
         fr.chain \in Chain, FileOf(fr.chain) = fr.file, fr.next > Len(Imports(fr.file)), Ready(fr)
  PROVE  /\ fr.defs = Scope[fr.chain]
         /\ fr.writes = Assigned[fr.chain]
         /\ Tree(fr) = States[fr.chain]
         /\ \A n \in DOMAIN Scope[fr.chain] : Agree(Scope, fr.chain, n)
  <1> DEFINE c == fr.chain
             own == files[FileOf(c)].defs
             S == Scope[c]
  <1>1. Done(fr) = Below(c) /\ c \in Chain /\ files[fr.file].defs = own
    BY DoneFacts
  <1>2. /\ S = [n \in DOMAIN S |-> S[n]]
        /\ \A n : n \in DOMAIN S <=> n \in DOMAIN own \/ \E d \in Below(c) : \E v : Binds(d, v, n)
        /\ \A n \in DOMAIN own : S[n] = own[n]
        /\ \A n \in DOMAIN S : n \notin DOMAIN own =>
             \E d \in Below(c) : \E v : Binds(d, v, n) /\ S[n] = Scope[d][v]
    BY <1>1, ScopeFacts
  <1> HIDE DEF c, own, S
  <1>3. \A n : n \in DOMAIN fr.defs <=> n \in DOMAIN S
    BY <1>1, <1>2 DEF Ready, Declaring
  <1>4. ASSUME NEW n \in DOMAIN S PROVE fr.defs[n] = S[n]
    <2>1. CASE n \in DOMAIN own
      BY <1>1, <1>2, <2>1 DEF Kept
    <2>2. CASE n \notin DOMAIN own
      <3>1. PICK d \in Below(c) : \E v : Binds(d, v, n) /\ S[n] = Scope[d][v]
        BY <1>2, <2>2
      <3>2. PICK v : Binds(d, v, n) /\ S[n] = Scope[d][v]
        BY <3>1
      <3>3. Fits(fr, d, v, n)
        BY <1>1, <3>2 DEF Ready, Fitting
      <3> QED
        BY <1>1, <2>2, <3>2, <3>3 DEF Fits
    <2> QED
      BY <2>1, <2>2
  <1>5. fr.defs = S
    <2>1. fr.defs = [n \in DOMAIN fr.defs |-> fr.defs[n]] /\ DOMAIN fr.defs = DOMAIN S
      BY <1>3 DEF Recorded
    <2> QED
      BY ONLY <1>2, <1>4, <2>1
  <1>6. fr.writes = Assigned[c]
    <2>1. Assigned[c] = AssignedAt(c, Assigned)
      BY <1>1, AssignedIs
    <2>2. fr.file = FileOf(c)
      BY DEF c
    <2> QED
      BY <1>1, <2>1, <2>2, Zenon DEF Ready, Writing, AssignedAt
  <1>7. Tree(fr) = States[c]
    <2>1. States[c] = files[fr.file].states \cup UNION {Moved(States, d) : d \in Below(c)}
      <3>1. fr.file = FileOf(c)
        BY DEF c
      <3> QED
        BY <1>1, <3>1, StatesIs DEF StatesAt
    <2>2. fr.grafts = UNION {Brought(d) : d \in Below(c)}
      BY <1>1 DEF Ready, Grafting
    <2>3. ASSUME NEW d, NEW p PROVE p \in Moved(States, d) <=> \E g \in Brought(d) : g.path = p
      <3> DEFINE G(s) == [owner |-> Import(d).at, path |-> Instance(Import(d)) \o s]
      <3>1. \A s : G(s).path = Instance(Import(d)) \o s
        OBVIOUS
      <3>2. Brought(d) = {G(s) : s \in States[d]}
        BY DEF Brought
      <3> HIDE DEF G
      <3>3. (\E g \in Brought(d) : g.path = p) <=> \E s \in States[d] : G(s).path = p
        BY <3>2
      <3> QED
        BY <3>1, <3>3 DEF Moved
    <2>4. {g.path : g \in fr.grafts} = UNION {Moved(States, d) : d \in Below(c)}
      <3>1. \A g : g \in fr.grafts <=> \E d \in Below(c) : g \in Brought(d)
        BY <2>2
      <3>2. \A p : p \in {g.path : g \in fr.grafts} <=> \E d \in Below(c) : p \in Moved(States, d)
        BY <2>3, <3>1
      <3>3. \A p : p \in UNION {Moved(States, d) : d \in Below(c)}
                     <=> \E d \in Below(c) : p \in Moved(States, d)
        OBVIOUS
      <3> QED
        BY <3>2, <3>3
    <2> QED
      BY <2>1, <2>4 DEF Tree
  <1>8. ASSUME NEW n \in DOMAIN S PROVE Agree(Scope, c, n)
    <2> DEFINE Claim(d) == {<<d, Scope[d][v]>> : v \in {w \in DOMAIN Scope[d] : Target(Import(d), w) = n}}
               claims == UNION {Claim(d) : d \in Below(c)}
    <2>1. \A d : \A x \in Claim(d) : \E v : Binds(d, v, n) /\ x = <<d, Scope[d][v]>>
      BY DEF Binds
    <2>2. claims = Claims(Scope, c, n)
      BY Zenon DEF Claims
    <2> HIDE DEF Claim
    <2>3. ASSUME NEW x \in claims
          PROVE  \E d \in Below(c) : \E v : Binds(d, v, n) /\ Fits(fr, d, v, n) /\ x = <<d, Scope[d][v]>>
      <3>1. PICK d \in Below(c) : x \in Claim(d)
        OBVIOUS
      <3>2. PICK v : Binds(d, v, n) /\ x = <<d, Scope[d][v]>>
        BY <2>1, <3>1
      <3>3. Fits(fr, d, v, n)
        BY <1>1, <3>2 DEF Ready, Fitting
      <3> QED
        BY <3>2, <3>3
    <2> HIDE DEF claims
    <2>4. CASE n \in DOMAIN own
      <3>1. \A x \in claims : own[n].role \in Targets[x[2].role] /\ own[n].type = x[2].type
        <4> TAKE x \in claims
        <4>1. PICK d \in Below(c) : \E v : Binds(d, v, n) /\ Fits(fr, d, v, n) /\ x = <<d, Scope[d][v]>>
          BY <2>3
        <4>2. PICK v : Binds(d, v, n) /\ Fits(fr, d, v, n) /\ x = <<d, Scope[d][v]>>
          BY <4>1
        <4> QED
          BY <1>1, <2>4, <4>2 DEF Fits
      <3> QED
        BY <2>2, <2>4, <3>1 DEF Agree, own
    <2>5. CASE n \notin DOMAIN own
      <3>1. ASSUME NEW x \in claims, NEW y \in claims
            PROVE  x[2] = y[2] /\ (x[2].role = "input" => x = y)
        <4>1. PICK d \in Below(c) : \E v : Binds(d, v, n) /\ Fits(fr, d, v, n) /\ x = <<d, Scope[d][v]>>
          BY <2>3
        <4>2. PICK v : Binds(d, v, n) /\ Fits(fr, d, v, n) /\ x = <<d, Scope[d][v]>>
          BY <4>1
        <4>3. PICK e \in Below(c) : \E w : Binds(e, w, n) /\ Fits(fr, e, w, n) /\ y = <<e, Scope[e][w]>>
          BY <2>3
        <4>4. PICK w : Binds(e, w, n) /\ Fits(fr, e, w, n) /\ y = <<e, Scope[e][w]>>
          BY <4>3
        <4>5. Scope[d][v] = fr.defs[n] /\ Scope[e][w] = fr.defs[n]
          BY <1>1, <2>5, <4>2, <4>4 DEF Fits
        <4>6. Scope[d][v].role = "input" => d = e
          BY <1>1, <2>5, <4>2, <4>4 DEF Ready, Sharing
        <4> QED
          BY <4>2, <4>4, <4>5, <4>6
      <3> QED
        BY <2>2, <2>5, <3>1 DEF Agree, own
    <2> QED
      BY <2>4, <2>5
  <1> QED
    BY <1>5, <1>6, <1>7, <1>8 DEF c, S

(* What the events of an import may belong to.                              *)
LEMMA VisibleIs ==
  ASSUME Outer, Located, NEW h, Framed(files, h), h.chain \in Chain, FileOf(h.chain) = h.file,
         Grafting(h)
  PROVE  LET b == Here(h)
             item == Import(b)
         IN  HasEventTargets(b) <=> ~Ambiguous(item) /\ Dangling(item, h) = {}
  <1> DEFINE b == Here(h)
             item == Import(b)
             earlier == {d \in Below(h.chain) : Last(d) < h.next /\ ~IsPrefix(Import(d).at, item.at)}
             Far2(d) == {Instance(Import(d)) \o s : s \in States[d]}
             places == files[h.file].states \cup UNION {Far2(d) : d \in earlier}
  <1>1. Front(b) = h.chain /\ Last(b) = h.next
    <2>1. h.chain \in Seq(Nat) /\ h.next \in Nat
      BY DEF Framed
    <2> QED
      BY <2>1, LongerChain DEF Here
  <1>2. \A d : d \in earlier <=> d \in Done(h) /\ ~IsPrefix(Import(d).at, item.at)
    BY DoneFacts
  <1> HIDE DEF b, item
  <1>3. \A p : p \in {g.path : g \in {x \in h.grafts : ~IsPrefix(x.owner, item.at)}}
                 <=> \E d \in earlier : p \in Far2(d)
    <2> TAKE p
    <2> HIDE DEF earlier
    <2> DEFINE G(d, s) == [owner |-> Import(d).at, path |-> Instance(Import(d)) \o s]
    <2>1. \A d, s : G(d, s).path = Instance(Import(d)) \o s /\ G(d, s).owner = Import(d).at
      OBVIOUS
    <2>2. \A d : Brought(d) = {G(d, s) : s \in States[d]}
      BY DEF Brought
    <2> HIDE DEF G
    <2>3. \A g : g \in h.grafts <=> \E d \in Done(h) : \E s \in States[d] : g = G(d, s)
      <3>1. h.grafts = UNION {Brought(d) : d \in Done(h)}
        BY DEF Grafting
      <3>2. \A g : g \in h.grafts <=> \E d \in Done(h) : g \in Brought(d)
        BY <3>1
      <3>3. \A g, d : g \in Brought(d) <=> \E s \in States[d] : g = G(d, s)
        BY <2>2
      <3> QED
        BY <3>2, <3>3
    <2>4. ASSUME NEW g \in h.grafts, ~IsPrefix(g.owner, item.at), p = g.path
          PROVE  \E d \in earlier : p \in Far2(d)
      <3>1. PICK d \in Done(h) : \E s \in States[d] : g = G(d, s)
        BY <2>3
      <3>2. PICK s \in States[d] : g = G(d, s)
        BY <3>1
      <3>3. d \in earlier
        BY <1>2, <2>1, <2>4, <3>2
      <3>4. p = Instance(Import(d)) \o s
        BY <2>1, <2>4, <3>2
      <3>5. p \in Far2(d)
        BY <3>4
      <3> HIDE DEF Far2
      <3> QED
        BY <3>3, <3>5
    <2>5. ASSUME NEW d \in earlier, p \in Far2(d)
          PROVE  \E g \in h.grafts : ~IsPrefix(g.owner, item.at) /\ p = g.path
      <3>1. PICK s \in States[d] : p = Instance(Import(d)) \o s
        BY <2>5
      <3>2. G(d, s) \in h.grafts
        BY <1>2, <2>3
      <3> QED
        BY <1>2, <2>1, <3>1, <3>2
    <2> QED
      BY <2>4, <2>5
  <1> HIDE DEF Far2
  <1>4. Visible(item, h) = places
    <2>1. \A p : p \in UNION {Far2(d) : d \in earlier} <=> \E d \in earlier : p \in Far2(d)
      OBVIOUS
    <2>2. {g.path : g \in {x \in h.grafts : ~IsPrefix(x.owner, item.at)}} = UNION {Far2(d) : d \in earlier}
      BY <1>3, <2>1
    <2> QED
      BY <2>2 DEF Visible
  <1>5. HasEventTargets(b) <=>
          /\ \A p \in DOMAIN item.events : Front(EventTarget(item, p)) \in places
          /\ \A p, q \in DOMAIN item.events : EventTarget(item, p) = EventTarget(item, q) => p = q
    BY <1>1, Zenon DEF HasEventTargets, item, Far2
  <1> HIDE DEF places
  <1>6. Dangling(item, h) = {} <=> \A p \in DOMAIN item.events : Front(EventTarget(item, p)) \in places
    BY <1>4 DEF Dangling
  <1>7. ~Ambiguous(item) <=>
          \A p, q \in DOMAIN item.events : EventTarget(item, p) = EventTarget(item, q) => p = q
    BY DEF Ambiguous
  <1> QED
    BY <1>5, <1>6, <1>7 DEF b, item

(* A module that fits is taken over as its instance.                        *)
LEMMA TakenReady ==
  ASSUME Outer, Located,
         NEW h, Framed(files, h), Declared(files, h), Recorded(h), Ready(h), h.chain \in Chain,
         FileOf(h.chain) = h.file,
         NEW m, Recorded(m), m.defs = Scope[Here(h)], m.writes = Assigned[Here(h)],
         Tree(m) = States[Here(h)],
         ~Misnamed(Current(h), DOMAIN m.defs), ~Clash(h, m), Kept(files, h),
         NEW e, e.file = h.file, e.chain = h.chain, e.next = h.next + 1,
         e.defs = MergedDefs(Current(h), h, m),
         e.writes = h.writes \cup {IF v \in DOMAIN m.defs THEN Target(Current(h), v) ELSE v : v \in m.writes},
         e.grafts = h.grafts \cup Grafted(Current(h), m)
  PROVE  Ready(e)
  <1> DEFINE b == Here(h)
             item == Current(h)
             own == files[h.file].defs
             Gets(n) == \E v \in DOMAIN m.defs : Target(item, v) = n
  <1>1. item = Import(b)
    BY CurrentImport
  <1>2. Done(e) = Done(h) \cup {b}
    <2>1. h.next \in Nat /\ h.next > 0
      BY DEF Framed
    <2> QED
      BY <2>1, DoneNext DEF Here
  <1>3. \A d \in Done(h) : d # b
    <2>1. \A d \in Done(h) : Last(d) < h.next
      BY DoneFacts
    <2>2. Last(b) = h.next /\ h.next \in Nat
      <3>1. h.chain \in Seq(Nat) /\ h.next \in Nat
        BY DEF Framed
      <3> QED
        BY <3>1, LongerChain DEF Here
    <2> QED
      BY <2>1, <2>2
  <1>4. \A v, n : Binds(b, v, n) <=> v \in DOMAIN m.defs /\ Target(item, v) = n
    BY <1>1 DEF Binds
  <1> HIDE DEF b, item
  <1>5. /\ e.defs = [n \in DOMAIN e.defs |-> e.defs[n]]
        /\ \A n : n \in DOMAIN e.defs <=> n \in DOMAIN h.defs \/ Gets(n)
        /\ \A n \in DOMAIN h.defs : e.defs[n] = h.defs[n]
        /\ \A n : n \notin DOMAIN h.defs /\ Gets(n) =>
             e.defs[n] = m.defs[CHOOSE v \in Preimage(item, m, n) : TRUE]
    <2>1. e.defs = MergedDefs(item, h, m)
      BY DEF item
    <2>2. DOMAIN MergedDefs(item, h, m) = DOMAIN h.defs \cup {Target(item, v) : v \in DOMAIN m.defs}
      BY DEF MergedDefs
    <2>3. \A n : n \in {Target(item, v) : v \in DOMAIN m.defs} <=> Gets(n)
      OBVIOUS
    <2>4. \A n \in DOMAIN h.defs : e.defs[n] = h.defs[n]
      BY <2>1 DEF MergedDefs
    <2>5. \A n : n \notin DOMAIN h.defs /\ Gets(n) =>
             e.defs[n] = m.defs[CHOOSE v \in Preimage(item, m, n) : TRUE]
      BY <2>1, <2>3 DEF MergedDefs
    <2>6. e.defs = [n \in DOMAIN e.defs |-> e.defs[n]]
      BY <2>1 DEF MergedDefs
    <2> QED
      BY <2>1, <2>2, <2>3, <2>4, <2>5, <2>6
  <1>6. ASSUME NEW v \in DOMAIN m.defs, Target(item, v) \notin DOMAIN h.defs
        PROVE  e.defs[Target(item, v)] = m.defs[v]
    <2> DEFINE n == Target(item, v)
    <2>1. \A w \in DOMAIN m.defs : Target(item, w) = n => w = v
      BY DEF Misnamed, item
    <2>2. Preimage(item, m, n) = {v}
      BY <2>1 DEF Preimage
    <2>3. (CHOOSE w \in Preimage(item, m, n) : TRUE) = v
      BY <2>2
    <2>4. Gets(n)
      OBVIOUS
    <2> HIDE DEF n, Gets
    <2>5. n \notin DOMAIN h.defs
      BY <1>6 DEF n
    <2> QED
      BY <1>5, <2>3, <2>4, <2>5 DEF n
  <1>7. ASSUME NEW v \in DOMAIN m.defs, Target(item, v) \in DOMAIN h.defs
        PROVE  LET old == h.defs[Target(item, v)]
               IN  /\ old.role \in Targets[m.defs[v].role] /\ old.type = m.defs[v].type
                   /\ Target(item, v) \notin DOMAIN own =>
                        /\ old = m.defs[v] /\ m.defs[v].role # "input"
    <2> DEFINE n == Target(item, v)
               old == h.defs[n]
               new == m.defs[v]
    <2>1. ~Conflicts(h, n, new)
      BY <1>7 DEF Clash, item
    <2>2. Typed(old) /\ Typed(new)
      BY <1>7 DEF Recorded
    <2> HIDE DEF old, new, n
    <2>3. old.role \in Targets[new.role] /\ old.type = new.type
      BY <2>1 DEF Conflicts, old
    <2>4. n \notin DOMAIN own => old.role = new.role /\ new.role # "input" /\ old.init = new.init
      BY <2>1 DEF Conflicts, old, Explicit
    <2>5. n \notin DOMAIN own => old = new
      BY <2>2, <2>3, <2>4 DEF Typed
    <2> QED
      BY <2>3, <2>4, <2>5 DEF old, new, n
  <1>8. DOMAIN own \subseteq DOMAIN h.defs /\ \A n \in DOMAIN own : h.defs[n] = own[n]
    BY DEF Declared, Kept
  <1>9. Declaring(e)
    <2> HIDE DEF own
    <2>1. \A n : n \in DOMAIN h.defs <=> n \in DOMAIN own \/ \E d \in Done(h) : \E v : Binds(d, v, n)
      BY DEF Ready, Declaring, own
    <2>2. \A n : Gets(n) <=> \E v : Binds(b, v, n)
      BY <1>4
    <2> HIDE DEF Gets
    <2>3. \A n : n \in DOMAIN e.defs <=>
            n \in DOMAIN own \/ (\E d \in Done(h) : \E v : Binds(d, v, n)) \/ \E v : Binds(b, v, n)
      BY <1>5, <2>1, <2>2
    <2>4. \A n : n \in DOMAIN e.defs <=> n \in DOMAIN own \/ \E d \in Done(e) : \E v : Binds(d, v, n)
      BY <1>2, <2>3
    <2> QED
      BY <2>4 DEF Declaring, own
  <1>10. ASSUME NEW d \in Done(e), NEW v, NEW n, Binds(d, v, n)
         PROVE  Fits(e, d, v, n) /\ (d = b \/ (d \in Done(h) /\ n \in DOMAIN h.defs /\ Fits(h, d, v, n)))
    <2>1. CASE d = b
      <3>1. v \in DOMAIN m.defs /\ Target(item, v) = n /\ Scope[d][v] = m.defs[v]
        BY <1>4, <1>10, <2>1 DEF b
      <3>2. CASE n \in DOMAIN own
        BY <1>7, <1>8, <2>1, <3>1, <3>2 DEF Fits
      <3>3. CASE n \notin DOMAIN own
        <4>1. e.defs[n] = m.defs[v]
          BY <1>5, <1>6, <1>7, <3>1, <3>3
        <4> QED
          BY <2>1, <3>1, <3>3, <4>1 DEF Fits
      <3> QED
        BY <3>2, <3>3
    <2>2. CASE d # b
      <3>1. d \in Done(h)
        BY <1>2, <2>2
      <3>2. Fits(h, d, v, n) /\ n \in DOMAIN h.defs
        BY <1>10, <3>1 DEF Ready, Fitting, Declaring
      <3>3. e.defs[n] = h.defs[n]
        BY <1>5, <3>2
      <3> QED
        BY <3>1, <3>2, <3>3 DEF Fits
    <2> QED
      BY <2>1, <2>2
  <1>11. Fitting(e)
    BY <1>10 DEF Fitting
  <1>12. Sharing(e)
    <2> SUFFICES ASSUME NEW d \in Done(e), NEW f \in Done(e), NEW v, NEW w, NEW n,
                        Binds(d, v, n), Binds(f, w, n), n \notin DOMAIN own, Scope[d][v].role = "input"
                 PROVE  d = f
      BY DEF Sharing
    <2>1. CASE d = b /\ f = b
      BY <2>1
    <2>2. CASE d # b /\ f # b
      <3>1. d \in Done(h) /\ f \in Done(h)
        BY <1>2, <2>2
      <3> QED
        BY <3>1 DEF Ready, Sharing
    <2>3. Scope[f][w] = Scope[d][v]
      <3>1. Fits(e, d, v, n) /\ Fits(e, f, w, n)
        BY <1>10
      <3> QED
        BY <3>1 DEF Fits
    <2>4. ASSUME NEW x \in Done(h), NEW y, NEW z, Binds(x, y, n), Binds(b, z, n), Scope[b][z].role = "input"
          PROVE  FALSE
      <3>1. n \in DOMAIN h.defs
        BY <1>2, <1>3, <1>10, <2>4
      <3>2. z \in DOMAIN m.defs /\ Target(item, z) = n /\ Scope[b][z] = m.defs[z]
        BY <1>4, <2>4 DEF b
      <3> QED
        BY <1>7, <2>4, <3>1, <3>2
    <2>5. d \in Done(h) \/ d = b
      BY <1>2
    <2>6. f \in Done(h) \/ f = b
      BY <1>2
    <2> QED
      BY <2>1, <2>2, <2>3, <2>4, <2>5, <2>6
  <1>13. Writing(e)
    <2>1. {IF v \in DOMAIN m.defs THEN Target(item, v) ELSE v : v \in m.writes} = Renamed(Assigned, b)
      BY <1>1 DEF Renamed, b
    <2> DEFINE A(d) == Renamed(Assigned, d)
               U == UNION {A(d) : d \in Done(h)}
               V == UNION {A(d) : d \in Done(e)}
    <2>2. e.writes = h.writes \cup A(b)
      BY <2>1, Zenon DEF item
    <2>3. h.writes = files[h.file].writes \cup U
      BY Zenon DEF Ready, Writing
    <2> HIDE DEF A
    <2>4. V = U \cup A(b)
      BY ONLY <1>2
    <2> HIDE DEF U, V
    <2>5. e.writes = files[e.file].writes \cup V
      BY ONLY <2>2, <2>3, <2>4, e.file = h.file
    <2> QED
      BY <2>5, Zenon DEF Writing, A, V
  <1>14. Grafting(e)
    <2>1. Grafted(item, m) = Brought(b)
      BY <1>1 DEF Grafted, Brought, b
    <2> DEFINE U == UNION {Brought(d) : d \in Done(h)}
               V == UNION {Brought(d) : d \in Done(e)}
    <2>2. e.grafts = h.grafts \cup Brought(b)
      BY <2>1, Zenon DEF item
    <2>3. h.grafts = U
      BY Zenon DEF Ready, Grafting
    <2>4. V = U \cup Brought(b)
      BY ONLY <1>2
    <2>5. e.grafts = V
      BY ONLY <2>2, <2>3, <2>4
    <2> QED
      BY <2>5, Zenon DEF Grafting
  <1> QED
    BY <1>9, <1>11, <1>12, <1>13, <1>14 DEF Ready

-------------------------------------------------------------------------------
(* Steps that report nothing, and the others.                               *)

LEMMA QuietSteps ==
  ASSUME IInv, [Next]_vars, Reporting, reported' = {}
  PROVE  /\ reported = {}
         /\ \/ Load
            \/ Merge /\ Gains
            \/ Stays
  <1>1. Len(stack) \in Nat /\ Len(stack) > 0 /\ Top = stack[Len(stack)]
    BY TopFacts DEF Top
  <1>2. ASSUME NEW c, NEW kind, Report(c, kind) PROVE FALSE
    BY <1>2 DEF Report
  <1>3. ~AliasConflict /\ ~NotFound /\ ~Circular /\ ~Unreadable
    BY <1>2 DEF AliasConflict, NotFound, Circular, Unreadable, Skip
  <1>4. ~RejectWrites /\ ~RejectNames /\ ~RejectBinding
    BY <1>2 DEF RejectWrites, RejectNames, RejectBinding, Drop
  <1>5. ~MergeReporting /\ ~Crash
    BY <1>2 DEF MergeReporting, Crash
  <1>6. ASSUME RejectNested PROVE FALSE
    <2>1. reported = {} /\ Living /\ reported # Top.since
      BY <1>6 DEF RejectNested, Returning, Living
    <2>2. SawBefore(reported, Top)
      BY <1>1, <2>1 DEF Reporting
    <2> QED
      BY <2>1, <2>2 DEF SawBefore
  <1>7. ASSUME Merge PROVE reported = {} /\ Gains
    <2>1. /\ Named /\ Len(stack) > 1 /\ reported' = reported
          /\ Return(Extended(Current(Host), Host, Top))
      BY <1>7 DEF Merge, Binding, Named, Clean, Returning
    <2>2. Shape(Len(stack) - 1, GoesOn(Extended(Current(Host), Host, Top)))
      BY <2>1, ReturnShape
    <2> QED
      BY <2>1, <2>2 DEF Gains, OnlyAbout
  <1>8. Load => reported = {}
    BY DEF Load
  <1>9. (Finish \/ Over \/ UNCHANGED vars) => Stays /\ reported = {}
    BY DEF Finish, Over, vars, Stays, fixed
  <1> QED
    BY <1>3, <1>4, <1>5, <1>6, <1>7, <1>8, <1>9 DEF Next

LEMMA LoudSteps ==
  ASSUME [Next]_vars, reported = {}, reported' # {}
  PROVE  \/ AliasConflict \/ NotFound \/ Circular \/ Unreadable
         \/ RejectWrites \/ RejectNames \/ RejectBinding \/ MergeReporting \/ Crash
  <1>1. (Load \/ RejectNested \/ Merge \/ Finish \/ Over \/ UNCHANGED vars) => reported' = reported
    BY DEF Load, RejectNested, Merge, Finish, Over, vars
  <1> QED
    BY <1>1 DEF Next

(* An import is written where no other child of the state has its alias, as *)
(* far as those before it are concerned.                                    *)
Backward(c) ==
  LET item == Import(c)
      f == FileOf(Front(c))
  IN  /\ Append(item.at, item.alias) \notin files[f].states
      /\ \A k \in 1..Last(c) - 1 : Imports(f)[k].at # item.at \/ Imports(f)[k].alias # item.alias

(* Nothing is wrong with an instance.                                       *)
Fine(c) ==
  /\ ~Misnamed(Import(c), DOMAIN Scope[c])
  /\ \A v \in Assigned[c] \cap DOMAIN Scope[c] : Scope[c][v].role \notin Readonly
  /\ HasEventTargets(c)
  /\ \A n \in DOMAIN Scope[c] : Agree(Scope, c, n)

LEMMA SameFine ==
  ASSUME UNCHANGED fixed
  PROVE  /\ \A c : FileOf(c)' = FileOf(c) /\ Import(c)' = Import(c)
         /\ Located' <=> Located
         /\ Sound' <=> Sound
         /\ Scope' = Scope
         /\ \A fr : Ready(fr)' <=> Ready(fr)
         /\ \A c : Backward(c)' <=> Backward(c)
         /\ \A c : Fine(c)' <=> Fine(c)
         /\ \A fr : AliasTaken(fr)' <=> AliasTaken(fr)
  <1>1. files' = files /\ entry' = entry
    BY DEF fixed
  <1>2. \A c : FileOf(c)' = FileOf(c) /\ Import(c)' = Import(c)
    BY <1>1, SameMeaning
  <1>3. Chain' = Chain /\ \A c : Readable(c)' <=> Readable(c)
    BY SameChains
  <1>4. \A f : Imports(f)' = Imports(f)
    BY <1>1 DEF Imports
  <1>5. \A c : Below(c)' = Below(c)
    BY <1>2, <1>4 DEF Below
  <1>6. \A c : HasOwnAlias(c)' <=> HasOwnAlias(c)
    BY <1>1, <1>2, <1>4 DEF HasOwnAlias
  <1>7. Located' <=> Located
    BY <1>3, <1>6 DEF Located
  <1>8. Scope' = Scope
    BY ONLY <1>1, SMT DEF Scope, Chain, Below, Readable, Cyclic,
       FileOf, Import, Imports, Modules
  <1>9. Assigned' = Assigned
    BY ONLY <1>1, SMT DEF Assigned, Scope, Chain, Below, Readable, Cyclic,
       FileOf, Import, Imports, Modules
  <1>10. States' = States
    BY ONLY <1>1, SMT DEF States, Chain, Below, Readable, Cyclic,
       FileOf, Import, Imports, Modules
  <1>11. \A c : HasEventTargets(c)' <=> HasEventTargets(c)
    BY ONLY <1>1, SMT DEF HasEventTargets, States, Chain, Below, Readable, Cyclic,
       FileOf, Import, Imports, Modules
  <1>12. \A c, n : Claims(Scope, c, n)' = Claims(Scope, c, n)
    BY <1>2, <1>5, <1>8, SMT DEF Claims
  <1>13. \A c, n : Agree(Scope, c, n)' <=> Agree(Scope, c, n)
    BY <1>1, <1>2, <1>8, <1>12, SMT DEF Agree
  <1>14. \A c : Fine(c)' <=> Fine(c)
    BY <1>2, <1>8, <1>9, <1>11, <1>13 DEF Fine
  <1>15. Sound' <=> Sound
    BY <1>2, <1>3, <1>7, <1>8, <1>9, <1>11, <1>13 DEF Sound
  <1>16. \A fr : Ready(fr)' <=> Ready(fr)
    <2>1. \A d, v, n : Binds(d, v, n)' <=> Binds(d, v, n)
      BY <1>2, <1>8 DEF Binds
    <2>2. \A fr, d, v, n : Fits(fr, d, v, n)' <=> Fits(fr, d, v, n)
      BY <1>1, <1>8 DEF Fits
    <2>3. \A d : Brought(d)' = Brought(d) /\ Renamed(Assigned, d)' = Renamed(Assigned, d)
      BY <1>2, <1>8, <1>9, <1>10 DEF Brought, Renamed
    <2>4. \A fr : Writing(fr)' <=> Writing(fr)
      BY <1>1, <2>3 DEF Writing
    <2>5. \A fr : Grafting(fr)' <=> Grafting(fr)
      BY <2>3 DEF Grafting
    <2>6. \A fr : Declaring(fr)' <=> Declaring(fr)
      BY <1>1, <2>1 DEF Declaring
    <2>7. \A fr : Fitting(fr)' <=> Fitting(fr)
      BY <2>1, <2>2 DEF Fitting
    <2>8. \A fr : Sharing(fr)' <=> Sharing(fr)
      BY <1>1, <1>8, <2>1 DEF Sharing
    <2> QED
      BY <2>4, <2>5, <2>6, <2>7, <2>8 DEF Ready
  <1>17. \A c : Backward(c)' <=> Backward(c)
    BY <1>1, <1>2, <1>4 DEF Backward
  <1>18. \A fr : AliasTaken(fr)' <=> AliasTaken(fr)
    BY <1>1, <1>4 DEF AliasTaken, Current
  <1> QED
    BY <1>2, <1>7, <1>8, <1>14, <1>15, <1>16, <1>17, <1>18

-------------------------------------------------------------------------------
(* The assembly that reports nothing, and what it is about to take over.    *)

AliasFree == \A n \in 1..Len(stack) - 1 : ~AliasTaken(stack[n])

AllRecorded == \A n \in 1..Len(stack) : Recorded(stack[n])

Found == reported = {} => \A n \in 1..Len(stack) : \A d \in stack[n].kept : Readable(d) /\ Backward(d)

Exact ==
  reported = {} /\ Located =>
    \A n \in 1..Len(stack) : Ready(stack[n]) /\ \A d \in stack[n].kept : Fine(d)

(* The import a program is at leads to an instance.                         *)
LEMMA HereChain ==
  ASSUME IInv, Standing, AllRead, NEW n \in 1..Len(stack),
         stack[n].next <= Len(Imports(stack[n].file))
  PROVE  LET h == Here(stack[n])
         IN  /\ h \in Chain /\ h # <<>> /\ h \in Seq(Nat)
             /\ Front(h) = stack[n].chain /\ Last(h) = stack[n].next
             /\ FileOf(Front(h)) = stack[n].file
             /\ stack[n].next \in DOMAIN Imports(stack[n].file)
             /\ h \in Below(stack[n].chain)
  <1> DEFINE fr == stack[n]
             c == fr.chain
             k == fr.next
             h == Here(fr)
  <1>1. Outer /\ c \in Chain
    BY OnChains DEF IInv
  <1>2. /\ Framed(files, fr) /\ c \in Seq(Nat) /\ Len(c) = n - 1 /\ FileOf(c) = fr.file
        /\ k \in Nat
    BY StandFacts
  <1>3. k \in DOMAIN Imports(fr.file)
    BY <1>1, <1>2, FileFacts DEF Framed, Imports
  <1>4. c = <<>> \/ Readable(c)
    <2>1. CASE n = 1
      BY <1>2, <2>1, EmptySeq
    <2>2. CASE n # 1
      <3>1. n \in 2..Len(stack)
        BY <2>2, TopFacts
      <3> QED
        BY <3>1 DEF AllRead
    <2> QED
      BY <2>1, <2>2
  <1> HIDE DEF fr, c, k
  <1>5. h = Append(c, k)
    BY DEF Here, c, k
  <1> HIDE DEF h
  <1>6. /\ h \in Seq(Nat) /\ h # <<>> /\ Front(h) = c /\ Last(h) = k
    BY <1>2, <1>5, LongerChain
  <1>7. Leads(h)
    BY <1>1, <1>2, <1>3, <1>4, <1>5, LeadsGrow, ChainIs
  <1>8. h \in Chain
    BY <1>1, <1>6, <1>7, ChainIs
  <1>9. h \in Below(c)
    BY <1>2, <1>3, <1>5 DEF Below
  <1> QED
    BY <1>2, <1>3, <1>6, <1>8, <1>9 DEF fr, c, k, h

(* A module about to be returned is its instance.                           *)
LEMMA Returns ==
  ASSUME IInv, Standing, AllRead, AllRecorded, Exact, Located, reported = {}, Returning
  PROVE  LET b == Here(Host)
         IN  /\ Top.chain = b /\ b \in Chain /\ b # <<>> /\ Current(Host) = Import(b)
             /\ Top.defs = Scope[b] /\ Top.writes = Assigned[b] /\ Tree(Top) = States[b]
             /\ \A n \in DOMAIN Scope[b] : Agree(Scope, b, n)
             /\ HasEventTargets(b) <=> ~Ambiguous(Current(Host)) /\ Dangling(Current(Host), Host) = {}
             /\ Sane(files, Host) /\ Recorded(Host) /\ Recorded(Top) /\ Ready(Host)
             /\ Host.chain \in Chain /\ FileOf(Host.chain) = Host.file
             /\ b \in Below(Host.chain) /\ Last(b) = Host.next
  <1> DEFINE b == Here(Host)
             m == Len(stack)
  <1>1. /\ m \in Nat /\ m > 1 /\ m \in 1..m /\ m - 1 \in 1..m /\ Outer
        /\ Top = stack[m] /\ Host = stack[m - 1]
        /\ Sane(files, Top) /\ Sane(files, Host) /\ Linked(files, Host, Top)
        /\ Top.next > Len(Imports(Top.file))
    BY TopFacts DEF Top, Host, IInv, Returning
  <1>2. /\ FileOf(Top.chain) = Top.file /\ FileOf(Host.chain) = Host.file
        /\ Top.chain \in Chain /\ Host.chain \in Chain
    BY <1>1, StandFacts, OnChains
  <1>3. Recorded(Top) /\ Recorded(Host) /\ Ready(Top) /\ Ready(Host)
    BY <1>1 DEF AllRecorded, Exact
  <1>4. Top.chain = b /\ Host.next <= Len(Imports(Host.file))
    <2>1. Top.chain = b /\ Host.next \in 1..Len(Imports(Host.file))
      BY <1>1, Zenon DEF Linked, Here, Imports
    <2>2. Len(Imports(Host.file)) \in Nat
      BY <1>1, FileFacts DEF Sane, Framed, Imports
    <2> QED
      BY ONLY <2>1, <2>2
  <1>5. b # <<>> /\ b \in Below(Host.chain) /\ Last(b) = Host.next
    BY <1>1, <1>4, HereChain
  <1>6. Current(Host) = Import(b)
    BY <1>1, <1>2, CurrentImport DEF Sane
  <1>7. /\ Top.defs = Scope[b] /\ Top.writes = Assigned[b] /\ Tree(Top) = States[b]
        /\ \A n \in DOMAIN Scope[b] : Agree(Scope, b, n)
    <2>1. Framed(files, Top) /\ Kept(files, Top)
      BY <1>1 DEF Sane
    <2> QED
      BY <1>1, <1>2, <1>3, <1>4, <2>1, WholeFrame
  <1>8. HasEventTargets(b) <=> ~Ambiguous(Current(Host)) /\ Dangling(Current(Host), Host) = {}
    <2>1. Framed(files, Host) /\ Grafting(Host)
      BY <1>1, <1>3 DEF Sane, Ready
    <2>2. HasEventTargets(b) <=> ~Ambiguous(Import(b)) /\ Dangling(Import(b), Host) = {}
      BY <1>1, <1>2, <2>1, VisibleIs
    <2> QED
      BY <1>6, <2>2
  <1> QED
    BY <1>1, <1>2, <1>3, <1>4, <1>5, <1>6, <1>7, <1>8

(* What is reported of a sound program by a loop over its imports.          *)
LEMMA NothingToSkip ==
  ASSUME IInv, Standing, AllRead, Located
  PROVE  ~AliasConflict /\ ~NotFound /\ ~Circular /\ ~Unreadable
  <1> DEFINE m == Len(stack)
             h == Here(Top)
             f == Current(Top).file
  <1>1. SUFFICES ASSUME Importing
                 PROVE  ~AliasTaken(Top) /\ f \in DOMAIN files /\ ~OnPath(f) /\ ~files[f].broken
    BY DEF AliasConflict, NotFound, Circular, Unreadable, Locating
  <1>2. /\ m \in Nat /\ m > 0 /\ m \in 1..m /\ Top = stack[m] /\ Outer
        /\ Top.next <= Len(Imports(Top.file))
    BY <1>1, TopFacts DEF Top, Importing, IInv
  <1>3. /\ Framed(files, Top) /\ FileOf(Top.chain) = Top.file
        /\ Top.chain \in Seq(Nat) /\ Len(Top.chain) = m - 1 /\ Top.next \in Nat
    BY <1>2, StandFacts
  <1>4. /\ h \in Chain /\ h # <<>> /\ Last(h) = Top.next /\ FileOf(Front(h)) = Top.file
        /\ Top.next \in DOMAIN Imports(Top.file)
    BY <1>2, HereChain
  <1>5. Import(h) = Current(Top) /\ FileOf(h) = f /\ h \in Seq(Nat) /\ Len(h) = m
    BY <1>2, <1>3, CurrentImport
  <1>6. Readable(h) /\ HasOwnAlias(h)
    BY <1>4 DEF Located
  <1>7. ~AliasTaken(Top)
    <2> DEFINE item == Current(Top)
               own == Imports(Top.file)
    <2>1. /\ Append(item.at, item.alias) \notin files[Top.file].states
          /\ \A k \in DOMAIN own \ {Top.next} : <<own[k].at, own[k].alias>> # <<item.at, item.alias>>
      BY <1>4, <1>5, <1>6, Zenon DEF HasOwnAlias
    <2>2. DOMAIN own = 1..Len(own) /\ Len(own) \in Nat
      BY <1>2, <1>3, FileFacts DEF Framed, Imports
    <2> HIDE DEF item, own
    <2>3. \A k \in 1..Top.next - 1 : ~(own[k].at = item.at /\ own[k].alias = item.alias)
      <3> TAKE k \in 1..Top.next - 1
      <3>1. k \in DOMAIN own \ {Top.next}
        BY <1>3, <1>4, <2>2 DEF own
      <3> QED
        BY <2>1, <3>1
    <2> QED
      BY <2>1, <2>3 DEF AliasTaken, item, own
  <1>8. f \in DOMAIN files /\ ~files[f].broken /\ ~Cyclic(h)
    BY <1>5, <1>6 DEF Readable, Modules
  <1>9. ASSUME OnPath(f) PROVE FALSE
    <2>1. CASE f = entry
      <3>1. entry # None /\ entry = Main
        BY <1>2, <1>8, <2>1, FilesAssumption DEF Outer
      <3>2. Prefix(h, 0) = <<>> /\ FileOf(<<>>) = Main
        <4>1. <<>> \in Seq(Nat) /\ 0 \in Nat
          BY EmptySeq
        <4> QED
          BY <1>5, <4>1, WholePrefix, FileOfGrows
      <3> HIDE DEF h, f
      <3>3. 0 \in (IF entry = None THEN 1 ELSE 0)..Len(h) - 1
        BY <1>2, <1>5, <3>1
      <3>4. FileOf(Prefix(h, 0)) = FileOf(h)
        BY <1>5, <2>1, <3>1, <3>2
      <3> QED
        BY <1>8, <3>3, <3>4 DEF Cyclic
    <2>2. CASE \E n \in 2..Len(stack) : stack[n].file = f
      <3>1. PICK n \in 2..Len(stack) : stack[n].file = f
        BY <2>2
      <3>2. n \in 1..m /\ m \in n..m /\ n - 1 \in 0..m - 1 /\ n - 1 \in 1..m - 1
        BY <1>2
      <3>3. Prefix(Top.chain, n - 1) = stack[n].chain
        BY <1>2, <3>2, ChainsNest
      <3>4. Prefix(h, n - 1) = Prefix(Top.chain, n - 1)
        BY <1>3, <3>2, LongerChain DEF Here
      <3>5. FileOf(Prefix(h, n - 1)) = f
        BY <3>1, <3>2, <3>3, <3>4, StandFacts
      <3> HIDE DEF h, f
      <3>6. n - 1 \in (IF entry = None THEN 1 ELSE 0)..Len(h) - 1
        BY <1>2, <1>5, <3>2
      <3>7. FileOf(Prefix(h, n - 1)) = FileOf(h)
        BY <1>5, <3>5
      <3> QED
        BY <1>8, <3>6, <3>7 DEF Cyclic
    <2> QED
      BY <1>9, <2>1, <2>2 DEF OnPath
  <1> QED
    BY <1>7, <1>8, <1>9

(* What Sound says of one instance.                                         *)
LEMMA SoundFacts ==
  ASSUME Sound
  PROVE  /\ Located
         /\ \A c \in Chain : c # <<>> => Fine(c)
         /\ \A c \in Chain : \A n \in DOMAIN Scope[c] : Agree(Scope, c, n)
  BY Zenon DEF Sound, Fine

(* A module whose variables clash with those of the program that imports it *)
(* makes the program unsound.                                               *)
LEMMA NothingClashes ==
  ASSUME Outer, Located, NEW h, Sane(files, h), Ready(h), h.chain \in Chain, FileOf(h.chain) = h.file,
         NEW b \in Below(h.chain), Last(b) = h.next, Current(h) = Import(b),
         NEW m, m.defs = Scope[b], Sane(files, m),
         \A n \in DOMAIN Scope[h.chain] : Agree(Scope, h.chain, n)
  PROVE  ~Clash(h, m)
  <1> DEFINE c == h.chain
             own == files[FileOf(c)].defs
  <1>1. SUFFICES ASSUME NEW v \in DOMAIN m.defs, Target(Current(h), v) \in DOMAIN h.defs
                 PROVE  ~Conflicts(h, Target(Current(h), v), m.defs[v])
    BY DEF Clash
  <1> DEFINE n == Target(Current(h), v)
             new == m.defs[v]
             old == h.defs[n]
  <1>2. Binds(b, v, n) /\ new = Scope[b][v] /\ n \in DOMAIN h.defs
    BY <1>1 DEF Binds
  <1>3. n \in DOMAIN Scope[c]
    BY <1>2, ScopeFacts
  <1>4. new.role \in Role
    BY DEF Sane, Declared
  <1>5. DOMAIN files[h.file].defs = DOMAIN own /\ \A k \in DOMAIN own : h.defs[k] = own[k]
    BY DEF Sane, Kept
  <1> DEFINE claims == Claims(Scope, c, n)
             Claim(d) == {<<d, Scope[d][w]>> : w \in {u \in DOMAIN Scope[d] : Target(Import(d), u) = n}}
  <1>6. claims = UNION {Claim(d) : d \in Below(c)}
    BY Zenon DEF Claims
  <1>7. \A d, w : Binds(d, w, n) => <<d, Scope[d][w]>> \in Claim(d)
    BY DEF Binds
  <1> HIDE DEF Claim, claims
  <1>8. \A d \in Below(c) : \A w : Binds(d, w, n) => <<d, Scope[d][w]>> \in claims
    BY <1>6, <1>7
  <1>9. Agree(Scope, c, n)
    BY <1>3
  <1> HIDE DEF n, new, old
  <1>10. CASE n \in DOMAIN own
    <2>1. \A x \in claims : own[n].role \in Targets[x[2].role] /\ own[n].type = x[2].type
      BY <1>9, <1>10, Zenon DEF Agree, claims
    <2>2. <<b, new>> \in claims
      BY <1>2, <1>8
    <2>3. own[n].role \in Targets[new.role] /\ own[n].type = new.type
      BY <2>1, <2>2
    <2>4. h.defs[n] = own[n]
      BY <1>5, <1>10
    <2>5. n \in Explicit(h)
      BY <1>5, <1>10 DEF Explicit
    <2> HIDE DEF own
    <2> QED
      BY <2>3, <2>4, <2>5 DEF Conflicts, n, new
  <1>11. CASE n \notin DOMAIN own
    <2>1. \A x, y \in claims : x[2] = y[2] /\ (x[2].role = "input" => x = y)
      BY <1>9, <1>11, Zenon DEF Agree, claims
    <2>2. PICK d \in Done(h) : \E w : Binds(d, w, n)
      BY <1>2, <1>5, <1>11 DEF Ready, Declaring
    <2>3. PICK w : Binds(d, w, n)
      BY <2>2
    <2>4. d \in Below(c) /\ d # b
      <3>1. d \in Below(c) /\ Last(d) < h.next
        BY DoneFacts DEF Sane
      <3>2. h.next \in Nat
        BY DEF Sane, Framed
      <3> QED
        BY <3>1, <3>2
    <2>5. h.defs[n] = Scope[d][w]
      BY <1>5, <1>11, <2>3 DEF Ready, Fitting, Fits
    <2>6. <<b, new>> \in claims /\ <<d, h.defs[n]>> \in claims
      BY <1>2, <1>8, <2>3, <2>4, <2>5
    <2>7. h.defs[n] = new /\ (new.role = "input" => FALSE)
      BY <2>1, <2>4, <2>6
    <2>8. new.role \in Targets[new.role]
      BY <1>4 DEF Role, Targets
    <2> HIDE DEF own, claims
    <2> QED
      BY <2>7, <2>8 DEF Conflicts, n, new
  <1> QED
    BY <1>10, <1>11 DEF n, new

(* A sound program is not reported of.                                      *)
LEMMA NothingToReject ==
  ASSUME IInv, Standing, AllRead, AllRecorded, Exact, Sound, reported = {}
  PROVE  ~RejectWrites /\ ~RejectNames /\ ~RejectBinding /\ ~MergeReporting /\ ~Crash
  <1> DEFINE b == Here(Host)
  <1>1. Located
    BY SoundFacts
  <1>2. ASSUME Returning
        PROVE  /\ Current(Host) = Import(b) /\ Top.defs = Scope[b] /\ Top.writes = Assigned[b]
               /\ HasEventTargets(b) <=> ~Ambiguous(Current(Host)) /\ Dangling(Current(Host), Host) = {}
               /\ Fine(b)
               /\ ~Clash(Host, Top)
    <2>1. /\ b \in Chain /\ b # <<>> /\ Current(Host) = Import(b)
          /\ Top.defs = Scope[b] /\ Top.writes = Assigned[b]
          /\ HasEventTargets(b) <=> ~Ambiguous(Current(Host)) /\ Dangling(Current(Host), Host) = {}
          /\ Sane(files, Host) /\ Ready(Host)
          /\ Host.chain \in Chain /\ FileOf(Host.chain) = Host.file
          /\ b \in Below(Host.chain) /\ Last(b) = Host.next
      BY <1>1, <1>2, Returns
    <2>2. Fine(b)
      BY <2>1, SoundFacts
    <2>3. \A n \in DOMAIN Scope[Host.chain] : Agree(Scope, Host.chain, n)
      BY <2>1, SoundFacts
    <2>4. Outer /\ Sane(files, Top)
      BY TopFacts DEF IInv
    <2> HIDE DEF b
    <2>5. ~Clash(Host, Top)
      BY <1>1, <2>1, <2>3, <2>4, NothingClashes
    <2> QED
      BY <2>1, <2>2, <2>5 DEF b
  <1> HIDE DEF b
  <1>3. ASSUME Returning PROVE ~WritesReadonly(Top)
    BY <1>2, <1>3 DEF WritesReadonly, Fine
  <1>4. ASSUME Returning PROVE ~Misnamed(Current(Host), DOMAIN Top.defs)
    BY <1>2, <1>4 DEF Fine
  <1>5. ASSUME Returning
        PROVE  ~Ambiguous(Current(Host)) /\ Dangling(Current(Host), Host) = {}
    BY <1>2, <1>5 DEF Fine
  <1>6. ~RejectWrites
    BY <1>3 DEF RejectWrites
  <1>7. ~RejectNames
    BY <1>4 DEF RejectNames, Clean
  <1>8. ~RejectBinding
    BY <1>2 DEF RejectBinding, Named, Clean
  <1>9. ~MergeReporting
    BY <1>5 DEF MergeReporting, Binding, Named, Clean
  <1>10. ~Crash
    <2>1. Crashes(Current(Host), Host, Top) => Dangling(Current(Host), Host) # {}
      BY DEF Crashes
    <2> QED
      BY <1>5, <2>1 DEF Crash, Binding, Named, Clean
  <1> QED
    BY <1>6, <1>7, <1>8, <1>9, <1>10

-------------------------------------------------------------------------------
(* What has been taken over stays sound.                                    *)

(* An import in progress has an alias of its own.                           *)
LEMMA AliasFreeNext ==
  ASSUME IInv, [Next]_vars, AliasFree
  PROVE  AliasFree'
  <1>1. Len(stack) \in Nat /\ Len(stack) > 0 /\ Top = stack[Len(stack)]
    BY TopFacts DEF Top
  <1>2. UNCHANGED fixed
    BY StepEffects
  <1>3. \A fr : AliasTaken(fr)' <=> AliasTaken(fr)
    BY <1>2, SameFine
  <1>4. ASSUME NEW m \in 1..Len(stack), NEW e, Shape(m, e)
        PROVE  \A n \in 1..Len(stack') - 1 : ~AliasTaken(stack'[n])
    <2> TAKE n \in 1..Len(stack') - 1
    <2>1. n \in 1..m - 1 /\ n \in 1..Len(stack) - 1
      BY <1>1, <1>4 DEF Shape
    <2> QED
      BY <1>4, <2>1 DEF Shape, AliasFree
  <1>5. \A n \in 1..Len(stack') - 1 : ~AliasTaken(stack'[n])
    <2>1. ASSUME NEW m \in Nat, Loses(m) PROVE \A n \in 1..Len(stack') - 1 : ~AliasTaken(stack'[n])
      BY <1>4, <2>1, LosesFields
    <2>2. ASSUME Gains PROVE \A n \in 1..Len(stack') - 1 : ~AliasTaken(stack'[n])
      BY <1>4, <2>2, GainsFields
    <2>3. ASSUME Load PROVE \A n \in 1..Len(stack') - 1 : ~AliasTaken(stack'[n])
      <3>1. Shape(Len(stack) + 1, Opened(Current(Top).file, Here(Top), reported))
        BY <2>3, LoadShape DEF Load
      <3>2. ~AliasTaken(Top)
        BY <2>3 DEF Load, Locating
      <3> TAKE n \in 1..Len(stack') - 1
      <3>3. /\ stack'[n] = stack[n]
            /\ n = Len(stack) \/ n \in 1..Len(stack) - 1
        BY <1>1, <3>1 DEF Shape
      <3> QED
        BY <1>1, <3>2, <3>3 DEF AliasFree
    <2>4. Crash \/ Stays => stack' = stack
      BY DEF Crash, Stays
    <2> QED
      BY <2>1, <2>2, <2>3, <2>4, StepEffects DEF AliasFree
  <1> QED
    BY <1>3, <1>5 DEF AliasFree

LEMMA OpenedRecorded ==
  ASSUME Outer, NEW f \in DOMAIN files, NEW c, NEW before
  PROVE  Recorded(Opened(f, c, before))
  <1> DEFINE defs == files[f].defs
             fr == Opened(f, c, before)
  <1>1. files \in FileSystems
    BY DEF Outer
  <1>2. defs = [v \in DOMAIN defs |-> defs[v]] /\ \A v \in DOMAIN defs : Typed(defs[v])
    <2>1. defs = [v \in DOMAIN defs |-> defs[v]]
      BY <1>1, FilesAssumption
    <2>2. ASSUME NEW v \in DOMAIN defs PROVE Typed(defs[v])
      <3> DEFINE d == files[f].defs[v]
      <3>1. \A g \in DOMAIN files : \A w \in DOMAIN files[g].defs :
              LET x == files[g].defs[w]
              IN  x.role \in Role /\ x = [role |-> x.role, type |-> x.type, init |-> x.init]
        BY <1>1, FilesAssumption, Zenon
      <3>2. d = [role |-> d.role, type |-> d.type, init |-> d.init]
        BY <3>1, Zenon
      <3> QED
        BY <3>2, Zenon DEF Typed
    <2> QED
      BY <2>1, <2>2
  <1>3. fr.defs = defs
    BY DEF Opened
  <1> HIDE DEF fr, defs
  <1>4. Recorded(fr)
    BY <1>2, <1>3 DEF Recorded
  <1> QED
    BY <1>4 DEF fr

(* The declarations of a program are records.                               *)
LEMMA RecordedNext ==
  ASSUME IInv, [Next]_vars, AllRecorded
  PROVE  AllRecorded'
  <1>1. /\ Len(stack) \in Nat /\ Len(stack) > 0 /\ Outer
        /\ Top = stack[Len(stack)] /\ Host = stack[Len(stack) - 1] /\ Len(stack) \in 1..Len(stack)
    BY TopFacts DEF Top, Host, IInv
  <1>2. ASSUME NEW m \in 1..Len(stack) + 1, NEW e, Shape(m, e), Recorded(e)
        PROVE  \A n \in 1..Len(stack') : Recorded(stack'[n])
    <2> TAKE n \in 1..Len(stack')
    <2>1. n = m \/ (n \in 1..m - 1 /\ n \in 1..Len(stack))
      BY <1>1, <1>2 DEF Shape
    <2> QED
      BY <1>2, <2>1 DEF Shape, AllRecorded
  <1>3. ASSUME NEW m \in Nat, Loses(m) PROVE \A n \in 1..Len(stack') : Recorded(stack'[n])
    <2> DEFINE e == GoesOn(stack[m])
    <2>1. m \in 1..Len(stack) /\ Shape(m, e) /\ e.defs = stack[m].defs
      BY <1>3, LosesFields
    <2> HIDE DEF e
    <2>2. Recorded(e)
      BY <2>1 DEF Recorded, AllRecorded
    <2> QED
      BY <1>1, <1>2, <2>1, <2>2
  <1>4. ASSUME Gains PROVE \A n \in 1..Len(stack') : Recorded(stack'[n])
    <2> DEFINE e == GoesOn(Extended(Current(Host), Host, Top))
               m == Len(stack) - 1
               item == Current(Host)
    <2>1. m \in 1..Len(stack) /\ Shape(m, e) /\ stack[m] = Host /\ e.defs = MergedDefs(item, Host, Top)
      BY <1>4, GainsFields
    <2> HIDE DEF e, m, item
    <2>2. /\ e.defs = [n \in DOMAIN e.defs |-> e.defs[n]]
          /\ \A n \in DOMAIN e.defs :
               \/ n \in DOMAIN Host.defs /\ e.defs[n] = Host.defs[n]
               \/ \E v \in DOMAIN Top.defs : e.defs[n] = Top.defs[v]
      <3>1. e.defs = [n \in DOMAIN e.defs |-> e.defs[n]]
        BY <2>1 DEF MergedDefs
      <3>2. ASSUME NEW n \in DOMAIN e.defs, n \notin DOMAIN Host.defs
            PROVE  \E v \in DOMAIN Top.defs : e.defs[n] = Top.defs[v]
        <4>1. \E v \in DOMAIN Top.defs : Target(item, v) = n
          BY <2>1, <3>2 DEF MergedDefs
        <4>2. e.defs[n] = Top.defs[CHOOSE v \in Preimage(item, Top, n) : TRUE]
          BY <2>1, <3>2 DEF MergedDefs
        <4>3. (CHOOSE v \in Preimage(item, Top, n) : TRUE) \in Preimage(item, Top, n)
          BY <4>1 DEF Preimage
        <4> QED
          BY <4>2, <4>3 DEF Preimage
      <3>3. \A n \in DOMAIN Host.defs : e.defs[n] = Host.defs[n]
        BY <2>1 DEF MergedDefs
      <3> QED
        BY <3>1, <3>2, <3>3
    <2>3. Recorded(Host) /\ Recorded(Top)
      BY <1>1, <2>1 DEF AllRecorded
    <2>4. Recorded(e)
      <3>1. \A n \in DOMAIN e.defs : Typed(e.defs[n])
        BY <2>2, <2>3 DEF Recorded
      <3> QED
        BY <2>2, <3>1 DEF Recorded
    <2> QED
      BY <1>1, <1>2, <2>1, <2>4
  <1>5. ASSUME Load PROVE \A n \in 1..Len(stack') : Recorded(stack'[n])
    <2> DEFINE e == Opened(Current(Top).file, Here(Top), reported)
    <2>1. Shape(Len(stack) + 1, e) /\ Current(Top).file \in DOMAIN files
      BY <1>5, LoadShape DEF Load, Locating
    <2>2. Recorded(e)
      BY <1>1, <2>1, OpenedRecorded
    <2> HIDE DEF e
    <2>3. Len(stack) + 1 \in 1..Len(stack) + 1
      BY <1>1
    <2> QED
      BY <1>2, <2>1, <2>2, <2>3
  <1>6. Crash \/ Stays => stack' = stack
    BY DEF Crash, Stays
  <1>7. \A n \in 1..Len(stack') : Recorded(stack'[n])
    BY <1>3, <1>4, <1>5, <1>6, StepEffects DEF AllRecorded
  <1> QED
    BY <1>7 DEF AllRecorded, Recorded

(* What has been taken over could be read and has its own alias.            *)
LEMMA FoundNext ==
  ASSUME IInv, [Next]_vars, Standing, AllRead, Reporting, AliasFree, Found
  PROVE  Found'
  <1> DEFINE Holds(fr) == \A d \in fr.kept : Readable(d) /\ Backward(d)
  <1>1. /\ Len(stack) \in Nat /\ Len(stack) > 0 /\ Outer
        /\ Top = stack[Len(stack)] /\ Host = stack[Len(stack) - 1] /\ Len(stack) \in 1..Len(stack)
    BY TopFacts DEF Top, Host, IInv
  <1>2. UNCHANGED fixed
    BY StepEffects
  <1>3. (\A c : Readable(c)' <=> Readable(c)) /\ \A c : Backward(c)' <=> Backward(c)
    BY <1>2, SameChains, SameFine
  <1>4. (\A n \in 1..Len(stack') : Holds(stack'[n])) => Found'
    BY <1>3 DEF Found
  <1>5. SUFFICES ASSUME reported' = {} PROVE \A n \in 1..Len(stack') : Holds(stack'[n])
    BY <1>4 DEF Found
  <1>6. /\ reported = {} /\ (Load \/ (Merge /\ Gains) \/ Stays)
        /\ \A n \in 1..Len(stack) : Holds(stack[n])
    BY <1>5, QuietSteps DEF Found
  <1>7. ASSUME NEW m \in 1..Len(stack) + 1, NEW e, Shape(m, e), Holds(e)
        PROVE  \A n \in 1..Len(stack') : Holds(stack'[n])
    <2> TAKE n \in 1..Len(stack')
    <2>1. n = m \/ (n \in 1..m - 1 /\ n \in 1..Len(stack))
      BY <1>1, <1>7 DEF Shape
    <2> HIDE DEF Holds
    <2> QED
      BY <1>6, <1>7, <2>1 DEF Shape
  <1>8. CASE Gains
    <2> DEFINE e == GoesOn(Extended(Current(Host), Host, Top))
               m == Len(stack) - 1
               b == Top.chain
    <2>1. /\ m \in Nat /\ m \in 1..Len(stack) /\ Shape(m, e) /\ stack[m] = Host
          /\ e.kept = Host.kept \cup Top.kept \cup {b} /\ Here(Host) = b
      BY <1>8, GainsFields
    <2>2. Readable(b)
      <3>1. Len(stack) \in 2..Len(stack)
        BY <1>1, <2>1
      <3> QED
        BY <1>1, <3>1 DEF AllRead
    <2>3. Backward(b)
      <3>1. m \in 1..Len(stack) - 1 /\ Len(stack) > 1
        BY <1>1, <2>1
      <3>2. ~AliasTaken(Host)
        BY <2>1, <3>1 DEF AliasFree
      <3>3. Linked(files, Host, Top) /\ Sane(files, Host)
        BY <3>1, TopFacts
      <3>4. Host.next <= Len(Imports(Host.file))
        <4>1. Host.next \in 1..Len(Imports(Host.file))
          BY <3>3 DEF Linked, Imports
        <4>2. Len(Imports(Host.file)) \in Nat
          BY <1>1, <3>3, FileFacts DEF Sane, Framed, Imports
        <4> QED
          BY ONLY <4>1, <4>2
      <3>5. Last(b) = Host.next /\ FileOf(Front(b)) = Host.file
        BY <2>1, <3>4, HereChain
      <3>6. Import(b) = Current(Host)
        <4>1. FileOf(Host.chain) = Host.file
          BY <2>1, StandFacts
        <4> QED
          BY <2>1, <3>3, <4>1, CurrentImport DEF Sane
      <3> HIDE DEF b
      <3> QED
        BY <3>2, <3>5, <3>6 DEF AliasTaken, Backward
    <2>4. Holds(Host) /\ Holds(Top)
      BY <1>1, <1>6, <2>1
    <2> HIDE DEF e, b
    <2>5. Holds(e)
      BY <2>1, <2>2, <2>3, <2>4
    <2> HIDE DEF Holds, m
    <2>6. m \in 1..Len(stack) + 1
      BY <1>1, <2>1
    <2> QED
      BY <1>7, <2>1, <2>5, <2>6
  <1>9. CASE Load
    <2> DEFINE e == Opened(Current(Top).file, Here(Top), reported)
    <2>1. Shape(Len(stack) + 1, e)
      BY <1>9, LoadShape DEF Load
    <2>2. Holds(e)
      BY DEF Opened
    <2> HIDE DEF e, Holds
    <2>3. Len(stack) + 1 \in 1..Len(stack) + 1
      BY <1>1
    <2> QED
      BY <1>7, <2>1, <2>2, <2>3
  <1>10. CASE Stays
    BY <1>6, <1>10 DEF Stays
  <1> QED
    BY <1>6, <1>8, <1>9, <1>10

LEMMA OpenedReady ==
  ASSUME NEW f, NEW c, NEW before
  PROVE  Ready(Opened(f, c, before)) /\ Opened(f, c, before).kept = {}
  <1> DEFINE fr == Opened(f, c, before)
  <1>1. /\ fr.file = f /\ fr.next = 1 /\ fr.defs = files[f].defs /\ fr.writes = files[f].writes
        /\ fr.grafts = {} /\ fr.kept = {}
    BY DEF Opened
  <1> HIDE DEF fr
  <1>2. Done(fr) = {}
    BY <1>1 DEF Done
  <1>3. Declaring(fr) /\ Fitting(fr) /\ Sharing(fr)
    BY <1>1, <1>2 DEF Declaring, Fitting, Sharing
  <1>4. Writing(fr) /\ Grafting(fr)
    BY <1>1, <1>2 DEF Writing, Grafting
  <1>5. Ready(fr) /\ fr.kept = {}
    BY <1>1, <1>3, <1>4 DEF Ready
  <1> QED
    BY <1>5 DEF fr

(* As long as nothing is reported, every program on the way is what the     *)
(* instances it has taken over make of it.                                  *)
LEMMA ExactNext ==
  ASSUME IInv, [Next]_vars, Standing, AllRead, Reporting, AllRecorded, Exact
  PROVE  Exact'
  <1> DEFINE Holds(fr) == Ready(fr) /\ \A d \in fr.kept : Fine(d)
  <1>1. /\ Len(stack) \in Nat /\ Len(stack) > 0 /\ Outer
        /\ Top = stack[Len(stack)] /\ Host = stack[Len(stack) - 1] /\ Len(stack) \in 1..Len(stack)
    BY TopFacts DEF Top, Host, IInv
  <1>2. UNCHANGED fixed
    BY StepEffects
  <1>3. /\ \A fr : Ready(fr)' <=> Ready(fr)
        /\ \A c : Fine(c)' <=> Fine(c)
        /\ Located' <=> Located
    BY <1>2, SameFine
  <1>4. (\A n \in 1..Len(stack') : Holds(stack'[n])) => Exact'
    BY <1>3 DEF Exact
  <1>5. SUFFICES ASSUME reported' = {}, Located PROVE \A n \in 1..Len(stack') : Holds(stack'[n])
    BY <1>3, <1>4 DEF Exact
  <1>6. /\ reported = {} /\ (Load \/ (Merge /\ Gains) \/ Stays)
        /\ \A n \in 1..Len(stack) : Holds(stack[n])
    BY <1>5, QuietSteps DEF Exact
  <1>7. ASSUME NEW m \in 1..Len(stack) + 1, NEW e, Shape(m, e), Holds(e)
        PROVE  \A n \in 1..Len(stack') : Holds(stack'[n])
    <2> TAKE n \in 1..Len(stack')
    <2>1. n = m \/ (n \in 1..m - 1 /\ n \in 1..Len(stack))
      BY <1>1, <1>7 DEF Shape
    <2> HIDE DEF Holds
    <2> QED
      BY <1>6, <1>7, <2>1 DEF Shape
  <1>8. CASE Merge /\ Gains
    <2> DEFINE e == GoesOn(Extended(Current(Host), Host, Top))
               m == Len(stack) - 1
               b == Here(Host)
    <2>1. /\ m \in Nat /\ m \in 1..Len(stack) /\ Shape(m, e)
          /\ e.file = Host.file /\ e.chain = Host.chain /\ e.next = Host.next + 1
          /\ e.defs = MergedDefs(Current(Host), Host, Top)
          /\ e.writes = Host.writes \cup {IF v \in DOMAIN Top.defs THEN Target(Current(Host), v) ELSE v :
                                            v \in Top.writes}
          /\ e.grafts = Host.grafts \cup Grafted(Current(Host), Top)
          /\ e.kept = Host.kept \cup Top.kept \cup {b} /\ stack[m] = Host
      BY <1>8, GainsFields
    <2>2. /\ Returning /\ ~WritesReadonly(Top) /\ ~Misnamed(Current(Host), DOMAIN Top.defs)
          /\ ~Clash(Host, Top)
          /\ ~Ambiguous(Current(Host)) /\ Dangling(Current(Host), Host) = {}
      BY <1>8 DEF Merge, Binding, Named, Clean
    <2>3. /\ Current(Host) = Import(b)
          /\ Top.defs = Scope[b] /\ Top.writes = Assigned[b] /\ Tree(Top) = States[b]
          /\ \A n \in DOMAIN Scope[b] : Agree(Scope, b, n)
          /\ HasEventTargets(b)
          /\ Sane(files, Host) /\ Recorded(Host) /\ Recorded(Top) /\ Ready(Host)
          /\ Host.chain \in Chain /\ FileOf(Host.chain) = Host.file
      BY <1>5, <1>6, <2>2, Returns
    <2>4. Framed(files, Host) /\ Declared(files, Host) /\ Kept(files, Host)
      BY <2>3 DEF Sane
    <2> HIDE DEF e, m
    <2>5. Ready(e)
      BY <1>1, <1>5, <2>1, <2>2, <2>3, <2>4, TakenReady
    <2> HIDE DEF b
    <2>6. Fine(b)
      BY <2>2, <2>3 DEF Fine, WritesReadonly
    <2>7. Holds(Host) /\ Holds(Top)
      BY <1>1, <1>6, <2>1
    <2>8. Holds(e)
      BY <2>1, <2>5, <2>6, <2>7
    <2> HIDE DEF Holds
    <2>9. m \in 1..Len(stack) + 1
      BY <1>1, <2>1
    <2> QED
      BY <1>7, <2>1, <2>8, <2>9
  <1>9. CASE Load
    <2> DEFINE e == Opened(Current(Top).file, Here(Top), reported)
    <2>1. Shape(Len(stack) + 1, e)
      BY <1>9, LoadShape DEF Load
    <2>2. Holds(e)
      BY OpenedReady
    <2> HIDE DEF e, Holds
    <2>3. Len(stack) + 1 \in 1..Len(stack) + 1
      BY <1>1
    <2> QED
      BY <1>7, <2>1, <2>2, <2>3
  <1>10. CASE Stays
    BY <1>6, <1>10 DEF Stays
  <1> QED
    BY <1>6, <1>8, <1>9, <1>10

(* Nothing is reported of a sound program.                                  *)
Refused == reported # {} => ~Sound

LEMMA RefusedNext ==
  ASSUME IInv, [Next]_vars, Standing, AllRead, AllRecorded, Exact, Refused
  PROVE  Refused'
  <1>1. Sound' <=> Sound
    BY StepEffects, SameFine
  <1>2. ASSUME reported' # {}, Sound PROVE FALSE
    <2>1. reported = {} /\ Located
      BY <1>2, SoundFacts DEF Refused
    <2> QED
      BY <1>2, <2>1, LoudSteps, NothingToSkip, NothingToReject
  <1> QED
    BY <1>1, <1>2 DEF Refused

(* A call that raises has reported why.                                     *)
Ended == mode \in {"raised", "crashed"} => reported # {}

LEMMA EndedNext ==
  ASSUME [Next]_vars, Ended
  PROVE  Ended'
  <1>1. ASSUME NEW c, NEW kind, Report(c, kind) PROVE Ended'
    BY <1>1 DEF Report, Ended
  <1>2. ASSUME AliasConflict \/ NotFound \/ Circular \/ Unreadable PROVE Ended'
    BY <1>1, <1>2 DEF AliasConflict, NotFound, Circular, Unreadable, Skip
  <1>3. ASSUME RejectWrites \/ RejectNames \/ RejectBinding PROVE Ended'
    BY <1>1, <1>3 DEF RejectWrites, RejectNames, RejectBinding, Drop
  <1>4. ASSUME MergeReporting PROVE Ended'
    BY <1>1, <1>4 DEF MergeReporting
  <1>5. ASSUME Crash PROVE Ended'
    BY <1>5 DEF Crash, Ended
  <1>6. ASSUME Load \/ RejectNested \/ Merge \/ Over \/ UNCHANGED vars PROVE Ended'
    BY <1>6 DEF Load, RejectNested, Merge, Over, vars, Ended
  <1>7. ASSUME Finish PROVE Ended'
    BY <1>7 DEF Finish, Ended
  <1> QED
    BY <1>2, <1>3, <1>4, <1>5, <1>6, <1>7 DEF Next

LEMMA InitAccepted == Init => AliasFree /\ AllRecorded /\ Found /\ Exact /\ Refused /\ Ended
  <1> SUFFICES ASSUME Init PROVE AliasFree /\ AllRecorded /\ Found /\ Exact /\ Refused /\ Ended
    OBVIOUS
  <1> DEFINE e == Opened(Main, <<>>, {})
  <1>1. Outer
    BY InitIInv DEF IInv
  <1>2. Main \in DOMAIN files
    BY <1>1, FilesAssumption DEF Outer
  <1>3. Recorded(e) /\ Ready(e) /\ e.kept = {}
    BY <1>1, <1>2, OpenedRecorded, OpenedReady
  <1>4. Len(stack) = 1 /\ stack[1] = e /\ reported = {} /\ mode = "assembling"
    <2>1. stack = <<e>>
      BY DEF Init
    <2> HIDE DEF e
    <2> QED
      BY <2>1 DEF Init
  <1> HIDE DEF e
  <1>5. \A n \in 1..Len(stack) : stack[n] = e
    BY <1>4
  <1>6. AliasFree
    BY <1>4 DEF AliasFree
  <1>7. AllRecorded
    BY <1>3, <1>5 DEF AllRecorded
  <1>8. Found /\ Exact
    BY <1>3, <1>5 DEF Found, Exact
  <1>9. Refused /\ Ended
    BY <1>4 DEF Refused, Ended
  <1> QED
    BY <1>6, <1>7, <1>8, <1>9

-------------------------------------------------------------------------------
(* What is accepted.                                                        *)

(* An alias that no import before it and none after it has is its own.      *)
LEMMA OwnAlias ==
  ASSUME Outer, \A d \in Chain \ {<<>>} : Readable(d) /\ Backward(d), NEW c \in Chain, c # <<>>
  PROVE  HasOwnAlias(c)
  <1> DEFINE p == Front(c)
             own == Imports(FileOf(p))
             item == Import(c)
  <1>1. c \in Seq(Nat) /\ Leads(c) /\ Len(c) \in Nat /\ Len(c) > 0
    <2>1. c \in Seq(Nat) /\ Leads(c)
      BY ChainIs
    <2>2. Len(c) \in Nat /\ Len(c) # 0
      BY <2>1, EmptySeq, LenProperties
    <2> QED
      BY <2>1, <2>2
  <1>2. p \in Seq(Nat) /\ Last(c) \in Nat /\ c = Append(p, Last(c))
    BY <1>1, FrontFacts
  <1>3. Leads(p) /\ (p = <<>> \/ Readable(p)) /\ Last(c) \in DOMAIN own
    <2> DEFINE k == Last(c)
    <2> HIDE DEF p, k
    <2>1. p \in Seq(Nat) /\ k \in Nat /\ Leads(Append(p, k))
      BY <1>1, <1>2 DEF k
    <2> QED
      BY <2>1, LeadsGrow DEF k
  <1>4. DOMAIN own = 1..Len(own) /\ Len(own) \in Nat
    BY <1>3, ReachedFile
  <1>5. /\ Append(item.at, item.alias) \notin files[FileOf(p)].states
        /\ \A k \in 1..Last(c) - 1 : own[k].at # item.at \/ own[k].alias # item.alias
    BY Zenon DEF Backward
  <1>6. ASSUME NEW k \in DOMAIN own, k > Last(c)
        PROVE  own[k].at # item.at \/ own[k].alias # item.alias
    <2> DEFINE s == Append(p, k)
    <2>1. k \in Nat
      BY <1>4
    <2>2. s \in Seq(Nat) /\ s # <<>> /\ Front(s) = p /\ Last(s) = k
      BY <1>2, <2>1, LongerChain
    <2>3. Leads(s)
      BY <1>2, <1>3, <2>1, LeadsGrow
    <2>4. s \in Chain
      BY <2>2, <2>3, ChainIs
    <2>5. Backward(s)
      BY <2>2, <2>4
    <2>6. Import(s) = own[k]
      BY <2>2 DEF Import
    <2>7. item = own[Last(c)]
      BY DEF Import
    <2> HIDE DEF p, own, item, s
    <2>8. \A j \in 1..k - 1 : Imports(FileOf(p))[j].at # own[k].at \/ Imports(FileOf(p))[j].alias # own[k].alias
      BY <2>2, <2>5, <2>6, Zenon DEF Backward
    <2>9. Last(c) \in 1..k - 1
      BY <1>3, <1>4, <1>6, <2>1
    <2> QED
      BY <2>7, <2>8, <2>9 DEF own
  <1> HIDE DEF p, own, item
  <1>7. \A k \in DOMAIN own \ {Last(c)} : <<own[k].at, own[k].alias>> # <<item.at, item.alias>>
    <2> TAKE k \in DOMAIN own \ {Last(c)}
    <2>1. k \in 1..Last(c) - 1 \/ k > Last(c)
      BY <1>3, <1>4
    <2>2. own[k].at # item.at \/ own[k].alias # item.alias
      BY <1>5, <1>6, <2>1
    <2> QED
      BY <2>2
  <1> QED
    BY <1>5, <1>7, Zenon DEF HasOwnAlias, p, own, item

(* A program of which nothing is reported is sound, and it declares what it *)
(* means.                                                                   *)
LEMMA AcceptedSound ==
  ASSUME IInv, Standing, AllRead, Keeping, Contents, Finished, AllRecorded, Found, Exact,
         mode = "done", reported = {}
  PROVE  Sound /\ stack[1].defs = Scope[<<>>]
  <1> DEFINE fr == stack[1]
  <1>1. /\ Len(stack) = 1 /\ 1 \in 1..Len(stack) /\ fr.chain = <<>>
        /\ fr.next > Len(Imports(fr.file)) /\ Outer /\ Sane(files, fr)
    BY EntryProgram DEF Finished, Top, IInv
  <1>2. FileOf(<<>>) = fr.file /\ <<>> \in Chain
    BY <1>1, StandFacts, OnChains
  <1>3. fr.kept = Chain \ {<<>>}
    <2>1. fr.kept = {c \in Chain \ {<<>>} : \A n \in 1..Len(c) :
                       ~\E r \in reported : IsPrefix(Prefix(c, n), r.at)
                                            /\ (r.at = Prefix(c, n) => r.kind # "event")}
      BY KeptIsWhole, Zenon DEF NothingHalfImported
    <2> QED
      BY <2>1
  <1>4. \A d \in Chain \ {<<>>} : Readable(d) /\ Backward(d)
    BY <1>1, <1>3 DEF Found
  <1>5. Located
    BY <1>1, <1>4, OwnAlias DEF Located
  <1>6. Ready(fr) /\ \A d \in Chain \ {<<>>} : Fine(d)
    BY <1>1, <1>3, <1>5 DEF Exact
  <1>7. Recorded(fr) /\ Framed(files, fr) /\ Kept(files, fr)
    BY <1>1 DEF AllRecorded, Sane
  <1>8. fr.defs = Scope[<<>>] /\ \A n \in DOMAIN Scope[<<>>] : Agree(Scope, <<>>, n)
    <2> HIDE DEF fr
    <2>1. fr.chain \in Chain /\ FileOf(fr.chain) = fr.file
      BY <1>1, <1>2
    <2>2. fr.defs = Scope[fr.chain] /\ \A n \in DOMAIN Scope[fr.chain] : Agree(Scope, fr.chain, n)
      BY <1>1, <1>5, <1>6, <1>7, <2>1, WholeFrame
    <2> QED
      BY <1>1, <2>2
  <1>9. \A c \in Chain : \A n \in DOMAIN Scope[c] : Agree(Scope, c, n)
    BY <1>6, <1>8 DEF Fine
  <1>10. Sound
    <2>1. \A c \in Chain \ {<<>>} :
            /\ ~Misnamed(Import(c), DOMAIN Scope[c])
            /\ \A v \in Assigned[c] \cap DOMAIN Scope[c] : Scope[c][v].role \notin Readonly
            /\ HasEventTargets(c)
      BY <1>6, Zenon DEF Fine
    <2> QED
      BY <1>5, <1>9, <2>1, Zenon DEF Sound
  <1> QED
    BY <1>8, <1>10 DEF fr

(* Whatever the order of its imports, a program is assembled without a      *)
(* report exactly if it is sound: every file on the way is found and leads  *)
(* back to none before it, no alias is taken twice, names, roles, types and *)
(* initial values agree, nothing writes what is read only and every mapped  *)
(* event has a place to go. Its variables are then what the chains of       *)
(* imports say they are. No call raises of a sound program, not even in     *)
(* strict mode, where the first report raises.                              *)
THEOREM SoundIsAccepted == Spec => []AcceptsWhatIsSound
  <1> DEFINE Inv == /\ IInv /\ Standing /\ Tracked
                    /\ AllRead /\ Reporting /\ Keeping /\ Contents /\ Finished
                    /\ AliasFree /\ AllRecorded /\ Found /\ Exact /\ Refused /\ Ended
  <1>1. Init => Inv
    BY InitIInv, InitTracked, InitKept, InitAccepted
  <1>2. ASSUME Inv, [Next]_vars PROVE Inv'
    <2>1. IInv' /\ Standing' /\ Tracked' /\ AllRead' /\ Reporting' /\ Keeping' /\ Contents' /\ Finished'
      BY <1>2, NextIInv, ReachedNext, TrackedNext, AllReadNext, ReportingNext, KeepingNext,
         ContentsNext, FinishedNext
    <2>2. AliasFree' /\ AllRecorded' /\ Found' /\ Exact' /\ Refused' /\ Ended'
      BY <1>2, AliasFreeNext, RecordedNext, FoundNext, ExactNext, RefusedNext, EndedNext
    <2> QED
      BY <2>1, <2>2
  <1>3. Inv => AcceptsWhatIsSound
    <2> SUFFICES ASSUME Inv PROVE AcceptsWhatIsSound
      OBVIOUS
    <2>1. mode = "done" /\ reported = {} => Sound /\ stack[1].defs = Scope[<<>>]
      BY AcceptedSound
    <2>2. reported # {} => ~Sound
      BY DEF Refused
    <2>3. mode \in {"raised", "crashed"} => reported # {}
      BY DEF Ended
    <2> QED
      BY <2>1, <2>2, <2>3 DEF AcceptsWhatIsSound
  <1> QED
    BY <1>1, <1>2, <1>3, PTL DEF Spec

================================================================================
