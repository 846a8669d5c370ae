-------------------------- MODULE CycleProtocolProofs --------------------------
(***************************************************************************)
(* Proofs about CycleProtocol for every number of inputs, every choice of  *)
(* sequences and end policies, and every history size.                     *)
(***************************************************************************)
EXTENDS CycleProtocol, SequenceTheorems, TLAPS

(* A sample that exists is one of the sequence's.                          *)
LEMMA SampleFacts ==
  ASSUME NEW p \in Provider, NEW step \in Nat, ~Exhausted(p, step)
  PROVE  SequenceIndex(p, step) \in Samples(p)
<1>1. Length[p] \in Nat /\ End[p] \in EndPolicy /\ (Length[p] = 0 => End[p] = "error")
  BY ParameterAssumption
<1>2. CASE step < Length[p]
  BY <1>1, <1>2 DEF SequenceIndex, Samples
<1>3. CASE step >= Length[p]
  <2>1. Length[p] > 0
    BY <1>1, <1>3 DEF Exhausted
  <2>2. step % Length[p] \in 0..(Length[p] - 1)
    BY <1>1, <2>1
  <2> QED BY <1>1, <1>3, <2>1, <2>2 DEF SequenceIndex, Samples
<1> QED BY <1>1, <1>2, <1>3

(* The history kept is the end of the whole one.                           *)
LEMMA RecentFacts ==
  ASSUME NEW S, NEW s \in Seq(S), keep \in Sizes
  PROVE  /\ Recent(s) \in Seq(S)
         /\ Len(Recent(s)) = IF keep = Unlimited \/ Len(s) <= keep
                             THEN Len(s) ELSE keep
         /\ \A i \in 1..Len(Recent(s)) : Recent(s)[i] = s[Len(s) - Len(Recent(s)) + i]
<1>1. CASE keep = Unlimited \/ Len(s) <= keep
  BY <1>1 DEF Recent
<1>2. CASE ~(keep = Unlimited \/ Len(s) <= keep)
  <2> DEFINE m == Len(s) - keep + 1
  <2>1. keep \in Nat /\ Len(s) \in Nat /\ Len(s) > keep
    BY <1>2, ParameterAssumption
  <2>2. m \in 1..(Len(s) + 1) /\ Recent(s) = SubSeq(s, m, Len(s))
    BY <1>2, <2>1 DEF Recent
  <2>3. Recent(s) \in Seq(S)
    BY <2>1, <2>2, SubSeqProperties
  <2>4. Len(Recent(s)) = keep
    BY <2>1, <2>2, SubSeqProperties
  <2>5. \A i \in 1..keep : Recent(s)[i] = s[m + i - 1]
    BY <2>1, <2>2, SubSeqProperties
  <2> QED BY <1>2, <2>1, <2>3, <2>4, <2>5
<1> QED BY <1>1, <1>2

--------------------------------------------------------------------------------

LEMMA InitTypeOK == Init => TypeOK
<1> SUFFICES ASSUME Init PROVE TypeOK
  OBVIOUS
<1>1. source \in [Provider -> Source]
      /\ \A p \in Provider : source[p].cached \in Samples(p) \cup {NoSample}
  BY DEF Init, Source
<1>2. cursor \in 1..(N + 1)
  BY ParameterAssumption DEF Init
<1>3. prepared \in Prepared /\ inputs \in [Provider -> Nat \cup {Override, NoSample}]
  BY DEF Init, Prepared
<1>4. history \in Seq(Entry)
  BY DEF Init
<1> QED BY <1>1, <1>2, <1>3, <1>4 DEF Init, TypeOK, Phase

LEMMA AbortTypeOK ==
  ASSUME TypeOK, Abort, error' \in BOOLEAN, poisoned' \in BOOLEAN,
         source' \in [Provider -> Source],
         \A p \in Provider : source'[p].cached \in Samples(p) \cup {NoSample}
  PROVE  TypeOK'
BY DEF TypeOK, Abort, recorded, call, Phase

(* Reading takes a sample the source has.                                  *)
LEMMA ReadTypeOK ==
  ASSUME TypeOK, Read
  PROVE  TypeOK'
<1> DEFINE p == cursor
           sample == IF Cached(p) THEN source[p].cached ELSE SequenceIndex(p, source[p].step)
<1>1. p \in Provider /\ source[p] \in Source /\ source[p].step \in Nat
  BY DEF Read, Reading, TypeOK, Source
<1>2. sample \in Samples(p)
  <2>1. CASE Cached(p)
    BY <1>1, <2>1 DEF TypeOK, Cached
  <2>2. CASE ~Cached(p)
    BY <1>1, <2>2, SampleFacts DEF Read
  <2> QED BY <2>1, <2>2
<1>3. sample \in Nat
  BY <1>1, <1>2, ParameterAssumption DEF Samples
<1>4. source' = [source EXCEPT ![p].cached = sample]
      /\ inputs' = [inputs EXCEPT ![p] = IF p \in overrides THEN Override ELSE sample]
  BY DEF Read
<1> HIDE DEF sample
<1>5. source' \in [Provider -> Source]
      /\ \A q \in Provider : source'[q].cached \in Samples(q) \cup {NoSample}
  BY <1>1, <1>2, <1>3, <1>4 DEF TypeOK, Source
<1>6. inputs' \in [Provider -> Nat \cup {Override, NoSample}]
  BY <1>1, <1>3, <1>4 DEF TypeOK
<1>7. cursor' \in 1..(N + 1)
  BY <1>1, ParameterAssumption DEF Read, Provider
<1> QED BY <1>5, <1>6, <1>7 DEF TypeOK, Read, recorded

LEMMA SteppedTypeOK ==
  ASSUME TypeOK, NEW p \in Provider
  PROVE  /\ Stepped(p) \in [Provider -> Source]
         /\ \A q \in Provider : Stepped(p)[q].cached \in Samples(q) \cup {NoSample}
BY DEF TypeOK, Stepped, Source

LEMMA PrepareTypeOK ==
  ASSUME TypeOK, NEW at \in Boundary \cup {Ended}, NEW delta \in BOOLEAN,
         NEW reported \in Nat, Prepare(at, delta, reported)
  PROVE  TypeOK'
<1>1. prepared' \in Prepared
  BY DEF Prepare, Prepared
<1>2. cursor' \in 1..(N + 1)
  BY ParameterAssumption DEF Prepare
<1> QED BY <1>1, <1>2 DEF TypeOK, Prepare, recorded, Phase

LEMMA PublishTypeOK ==
  ASSUME TypeOK, Publish
  PROVE  TypeOK'
<1> DEFINE entry == [cycle |-> count + 1, at |-> prepared.at, delta |-> prepared.delta,
                     inputs |-> inputs]
<1>1. entry \in Entry
  BY DEF TypeOK, Entry, Prepared
<1>2. Append(history, entry) \in Seq(Entry)
  BY <1>1 DEF TypeOK
<1>3. history' \in Seq(Entry)
  BY <1>2, RecentFacts DEF Publish, TypeOK
<1> QED BY <1>3 DEF TypeOK, Publish, call, Prepared, Phase

LEMMA NextTypeOK == TypeOK /\ [Next]_vars => TypeOK'
<1> SUFFICES ASSUME TypeOK, [Next]_vars PROVE TypeOK'
  OBVIOUS
<1>1. CASE Call
  BY <1>1, ParameterAssumption DEF Call, TypeOK, recorded, Phase, Provider
<1>2. CASE Read
  BY <1>2, ReadTypeOK
<1>3. CASE ReadFails \/ PassRaises \/ Interrupted
  BY <1>3, AbortTypeOK DEF ReadFails, PassRaises, Interrupted, TypeOK
<1>4. CASE ValidationSucceeds
  BY <1>4 DEF ValidationSucceeds, TypeOK, recorded, call, Phase
<1>5. CASE PreparesDelta
  BY <1>5, PrepareTypeOK DEF PreparesDelta, TypeOK
<1>6. CASE PreparesCommit
  <2>1. PICK at \in Boundary \cup {Ended} : Prepare(at, FALSE, errors)
    BY <1>6 DEF PreparesCommit
  <2> QED BY <2>1, PrepareTypeOK DEF TypeOK
<1>7. CASE HandlerRaises
  BY <1>7, AbortTypeOK DEF HandlerRaises, TypeOK
<1>8. CASE HandlerLogged
  BY <1>8 DEF HandlerLogged, TypeOK, recorded, call
<1>9. CASE Advance
  <2>1. cursor' \in 1..(N + 1)
    BY <1>9, ParameterAssumption DEF Advance, Advancing, Provider
  <2> QED BY <1>9, <2>1, SteppedTypeOK DEF Advance, Advancing, TypeOK, recorded, call
<1>10. CASE AdvanceFails
  <2>1. cursor \in Provider /\ Abort /\ error' \in BOOLEAN /\ poisoned' \in BOOLEAN
        /\ source' \in {source, Stepped(cursor)}
    BY <1>10 DEF AdvanceFails, Advancing, TypeOK
  <2>2. source' \in [Provider -> Source]
        /\ \A p \in Provider : source'[p].cached \in Samples(p) \cup {NoSample}
    BY <2>1, SteppedTypeOK DEF TypeOK
  <2> QED BY <2>1, <2>2, AbortTypeOK
<1>11. CASE Publish
  BY <1>11, PublishTypeOK
<1>12. CASE ClearHandlers
  BY <1>12 DEF ClearHandlers, TypeOK, recorded, call
<1>13. CASE Resize
  BY <1>13 DEF Resize, TypeOK, call
<1>14. CASE UNCHANGED vars
  BY <1>14 DEF vars, TypeOK
<1> QED
  BY <1>1, <1>2, <1>3, <1>4, <1>5, <1>6, <1>7, <1>8, <1>9, <1>10, <1>11, <1>12, <1>13, <1>14
     DEF Next, Step

(* The variables keep their types: in particular what a source caches is   *)
(* always a sample of its sequence, whatever its end policy.               *)
THEOREM TypeCorrect == Spec => []TypeOK
BY InitTypeOK, NextTypeOK, PTL DEF Spec

--------------------------------------------------------------------------------

LEMMA InitIInv == Init => IInv
BY InitTypeOK DEF Init, IInv, SourceSteps, CacheIsCurrent, Cached, InputsAreCurrent, InFlight

(* A call that ends early leaves the sources at the step of this cycle.    *)
LEMMA AbortIInv ==
  ASSUME TypeOK', Abort, CacheIsCurrent',
         ~poisoned' => \A p \in Provider : source'[p].step = count
  PROVE  IInv'
BY DEF Abort, recorded, IInv, SourceSteps, InputsAreCurrent, InFlight

(* The steps that end a call before any source has been advanced.          *)
LEMMA EarlyIInv ==
  ASSUME IInv, TypeOK', Abort, phase \in {"reading", "committing"},
         UNCHANGED <<poisoned, source>>
  PROVE  IInv'
<1>1. \A p \in Provider : source'[p].step = count
  BY DEF IInv, SourceSteps, InFlight, Stopped
<1>2. CacheIsCurrent'
  BY DEF IInv, CacheIsCurrent, Cached
<1> QED BY <1>1, <1>2, AbortIInv

LEMMA ReadIInv ==
  ASSUME IInv, TypeOK', Read
  PROVE  IInv'
<1> DEFINE p == cursor
           sample == IF Cached(p) THEN source[p].cached ELSE SequenceIndex(p, source[p].step)
<1>1. /\ TypeOK /\ p \in Provider /\ phase = "reading" /\ phase' = "reading"
      /\ p \in Nat /\ cursor' = p + 1
      /\ source' = [source EXCEPT ![p].cached = sample]
      /\ inputs' = [inputs EXCEPT ![p] = IF p \in overrides THEN Override ELSE sample]
      /\ UNCHANGED <<boundary, count, history, errors, error, poisoned, overrides, saved>>
  BY DEF Read, Reading, recorded, IInv, Provider
<1>2. sample = SequenceIndex(p, source[p].step)
  BY <1>1 DEF IInv, CacheIsCurrent
<1> HIDE DEF sample
<1>3. ~poisoned /\ \A q \in Provider : source[q].step = count
  BY <1>1 DEF IInv, SourceSteps, InFlight, Stopped
<1>4. \A q \in Provider : source'[q].step = source[q].step
  BY <1>1 DEF TypeOK, Source
<1>5. SourceSteps'
  BY <1>1, <1>3, <1>4 DEF SourceSteps
<1>6. CacheIsCurrent'
  <2> SUFFICES ASSUME NEW q \in Provider, Cached(q)'
               PROVE  source'[q].cached = SequenceIndex(q, source'[q].step)
    BY DEF CacheIsCurrent
  <2>1. CASE q = p
    BY <1>1, <1>2, <1>4, <2>1 DEF TypeOK, Source
  <2>2. CASE q # p
    BY <1>1, <1>4, <2>2 DEF IInv, CacheIsCurrent, Cached, TypeOK
  <2> QED BY <2>1, <2>2
<1>7. InputsAreCurrent'
  <2> SUFFICES ASSUME NEW q \in Provider, q < p + 1
               PROVE  inputs'[q] = IF q \in overrides THEN Override
                                   ELSE SequenceIndex(q, count)
    BY <1>1 DEF InputsAreCurrent
  <2>1. CASE q = p
    BY <1>1, <1>2, <1>3, <2>1 DEF TypeOK
  <2>2. CASE q # p
    <3>1. q < p
      BY <1>1, <2>2 DEF Provider
    <3> QED BY <1>1, <2>2, <3>1 DEF IInv, InputsAreCurrent, TypeOK
  <2> QED BY <2>1, <2>2
<1>8. InFlight'
  BY <1>1 DEF IInv, InFlight, Stopped
<1> QED BY <1>5, <1>6, <1>7, <1>8 DEF IInv

LEMMA PrepareIInv ==
  ASSUME IInv, TypeOK', Validating \/ phase = "committing",
         NEW at, NEW delta \in BOOLEAN, NEW reported, Prepare(at, delta, reported),
         IF delta THEN at = boundary /\ reported = saved ELSE saved <= reported
  PROVE  IInv'
<1>1. /\ phase \in {"reading", "committing"} /\ phase' = "advancing" /\ cursor' = 1
      /\ prepared' = [at |-> at, delta |-> delta, errors |-> reported]
      /\ UNCHANGED <<boundary, count, errors, error, poisoned, source, overrides, inputs, saved>>
  BY DEF Prepare, recorded, Validating
<1>2. SourceSteps'
  BY <1>1 DEF IInv, SourceSteps, Provider
<1>3. CacheIsCurrent'
  BY <1>1 DEF IInv, CacheIsCurrent, Cached
<1>4. \A p \in Provider : phase # "reading" \/ p < cursor
  BY <1>1, ParameterAssumption DEF Validating, Provider
<1>5. InputsAreCurrent'
  BY <1>1, <1>4 DEF IInv, InputsAreCurrent
<1>6. InFlight'
  BY <1>1 DEF IInv, InFlight, Stopped
<1> QED BY <1>2, <1>3, <1>5, <1>6 DEF IInv

LEMMA AdvanceIInv ==
  ASSUME IInv, TypeOK', Advance
  PROVE  IInv'
<1> DEFINE p == cursor
<1>1. /\ TypeOK /\ p \in Provider /\ p \in Nat /\ cursor' = p + 1
      /\ phase = "advancing" /\ phase' = "advancing"
      /\ source' = Stepped(p)
      /\ UNCHANGED <<boundary, count, errors, error, poisoned, overrides, inputs, saved, prepared>>
  BY DEF Advance, Advancing, recorded, call, IInv, Provider
<1>2. ~poisoned /\ \A q \in Provider : source[q].step = IF q < p THEN count + 1 ELSE count
  BY <1>1 DEF IInv, SourceSteps, InFlight, Stopped
<1>3. /\ source'[p].step = source[p].step + 1 /\ source'[p].cached = NoSample
      /\ \A q \in Provider \ {p} : source'[q] = source[q]
  BY <1>1 DEF TypeOK, Stepped
<1>4. SourceSteps'
  <2> SUFFICES ASSUME NEW q \in Provider
               PROVE  source'[q].step = IF q < p + 1 THEN count + 1 ELSE count
    BY <1>1 DEF SourceSteps
  <2>1. q \in Nat
    BY DEF Provider
  <2>2. CASE q = p
    BY <1>1, <1>2, <1>3, <2>1, <2>2
  <2>3. CASE q # p
    <3>1. q < p + 1 <=> q < p
      BY <1>1, <2>1, <2>3
    <3> QED BY <1>2, <1>3, <2>3, <3>1
  <2> QED BY <2>2, <2>3
<1>5. CacheIsCurrent'
  <2> SUFFICES ASSUME NEW q \in Provider, source'[q].cached # NoSample
               PROVE  source'[q].cached = SequenceIndex(q, source'[q].step)
    BY DEF CacheIsCurrent, Cached
  <2>1. q # p
    BY <1>3
  <2> QED BY <1>3, <2>1 DEF IInv, CacheIsCurrent, Cached
<1>6. InputsAreCurrent'
  BY <1>1 DEF IInv, InputsAreCurrent
<1>7. InFlight'
  BY <1>1 DEF IInv, InFlight, Stopped
<1> QED BY <1>4, <1>5, <1>6, <1>7 DEF IInv

LEMMA AdvanceFailsIInv ==
  ASSUME IInv, TypeOK', AdvanceFails
  PROVE  IInv'
<1>1. /\ TypeOK /\ cursor \in Provider /\ Abort /\ poisoned'
      /\ source' \in {source, Stepped(cursor)}
  BY DEF AdvanceFails, Advancing, IInv
<1>2. CacheIsCurrent'
  BY <1>1 DEF IInv, CacheIsCurrent, Cached, Stepped, TypeOK
<1> QED BY <1>1, <1>2, AbortIInv

LEMMA PublishIInv ==
  ASSUME IInv, TypeOK', Publish
  PROVE  IInv'
<1>1. /\ phase = "advancing" /\ phase' = "idle" /\ cursor = N + 1 /\ count' = count + 1
      /\ UNCHANGED <<poisoned, source>>
  BY DEF Publish
<1>2. SourceSteps'
  BY <1>1, ParameterAssumption DEF IInv, SourceSteps, Provider
<1>3. CacheIsCurrent'
  BY <1>1 DEF IInv, CacheIsCurrent, Cached
<1> QED BY <1>1, <1>2, <1>3 DEF IInv, InputsAreCurrent, InFlight

(* Every step keeps the invariant, if Ctrl+C cannot hit while the sources  *)
(* advance.                                                                *)
LEMMA NextIInv ==
  ASSUME "advancing" \notin Interruptible
  PROVE  IInv /\ [Next]_vars => IInv'
<1> SUFFICES ASSUME IInv, [Next]_vars PROVE IInv'
  OBVIOUS
<1>0. TypeOK /\ TypeOK'
  BY NextTypeOK DEF IInv
<1>1. CASE Call
  <2>1. /\ phase = "idle" /\ phase' = "reading" /\ cursor' = 1 /\ saved' = errors /\ ~Stopped
        /\ UNCHANGED <<boundary, count, errors, error, poisoned, source>>
    BY <1>1 DEF Call, recorded
  <2>2. SourceSteps' /\ CacheIsCurrent'
    BY <2>1 DEF IInv, SourceSteps, CacheIsCurrent, Cached
  <2>3. InputsAreCurrent'
    BY <2>1 DEF InputsAreCurrent, Provider
  <2>4. InFlight'
    BY <1>0, <2>1 DEF InFlight, Stopped, TypeOK
  <2> QED BY <1>0, <2>2, <2>3, <2>4 DEF IInv
<1>2. CASE Read
  BY <1>0, <1>2, ReadIInv
<1>3. CASE ReadFails \/ PassRaises \/ HandlerRaises
  <2>1. Abort /\ phase \in {"reading", "committing"} /\ UNCHANGED <<poisoned, source>>
    BY <1>3 DEF ReadFails, Reading, PassRaises, Validating, HandlerRaises
  <2> QED BY <1>0, <2>1, EarlyIInv
<1>4. CASE Interrupted
  <2>1. Abort /\ phase \in {"reading", "committing"} /\ UNCHANGED <<poisoned, source>>
    BY <1>4, ParameterAssumption DEF Interrupted
  <2> QED BY <1>0, <2>1, EarlyIInv
<1>5. CASE ValidationSucceeds
  <2>1. /\ phase = "reading" /\ phase' = "committing" /\ cursor = N + 1
        /\ UNCHANGED <<boundary, count, errors, error, poisoned, source, cursor, overrides,
                       inputs, saved, prepared>>
    BY <1>5 DEF ValidationSucceeds, Validating, recorded, call
  <2>2. SourceSteps' /\ CacheIsCurrent'
    BY <2>1 DEF IInv, SourceSteps, CacheIsCurrent, Cached
  <2>3. InputsAreCurrent'
    BY <2>1, ParameterAssumption DEF IInv, InputsAreCurrent, Provider
  <2>4. InFlight'
    BY <2>1 DEF IInv, InFlight, Stopped
  <2> QED BY <1>0, <2>2, <2>3, <2>4 DEF IInv
<1>6. CASE PreparesDelta
  BY <1>0, <1>6, PrepareIInv DEF PreparesDelta
<1>7. CASE PreparesCommit
  <2>1. PICK at \in Boundary \cup {Ended} : Prepare(at, FALSE, errors)
    BY <1>7 DEF PreparesCommit
  <2>2. phase = "committing" /\ saved <= errors
    BY <1>7 DEF PreparesCommit, IInv, InFlight
  <2> QED BY <1>0, <2>1, <2>2, PrepareIInv
<1>8. CASE HandlerLogged
  <2>1. /\ phase = "committing" /\ phase' = "committing" /\ errors' = errors + 1
        /\ UNCHANGED <<boundary, count, error, poisoned, source, cursor, overrides, inputs,
                       saved, prepared>>
    BY <1>8 DEF HandlerLogged, recorded, call
  <2>2. SourceSteps' /\ CacheIsCurrent' /\ InputsAreCurrent'
    BY <2>1 DEF IInv, SourceSteps, CacheIsCurrent, Cached, InputsAreCurrent
  <2>3. InFlight'
    BY <1>0, <2>1 DEF IInv, InFlight, Stopped, TypeOK
  <2> QED BY <1>0, <2>2, <2>3 DEF IInv
<1>9. CASE Advance
  BY <1>0, <1>9, AdvanceIInv
<1>10. CASE AdvanceFails
  BY <1>0, <1>10, AdvanceFailsIInv
<1>11. CASE Publish
  BY <1>0, <1>11, PublishIInv
<1>12. CASE ClearHandlers
  BY <1>0, <1>12 DEF ClearHandlers, recorded, call, IInv, SourceSteps, CacheIsCurrent, Cached,
                     InputsAreCurrent, InFlight
<1>13. CASE Resize
  BY <1>0, <1>13 DEF Resize, call, IInv, SourceSteps, CacheIsCurrent, Cached, InputsAreCurrent,
                     InFlight
<1>14. CASE UNCHANGED vars
  BY <1>0, <1>14 DEF vars, IInv, SourceSteps, CacheIsCurrent, Cached, InputsAreCurrent,
                     InFlight, Stopped
<1> QED
  BY <1>1, <1>2, <1>3, <1>4, <1>5, <1>6, <1>7, <1>8, <1>9, <1>10, <1>11, <1>12, <1>13, <1>14
     DEF Next, Step

(* Between calls every source stands at the step of the next cycle unless  *)
(* the runtime is poisoned, provided no interrupt hits the advancement.    *)
THEOREM SourcesInLockstep ==
  ASSUME "advancing" \notin Interruptible
  PROVE  Spec => []Lockstep
<1>1. IInv => Lockstep
  BY DEF IInv, SourceSteps, Lockstep
<1> QED BY <1>1, InitIInv, NextIInv, PTL DEF Spec

--------------------------------------------------------------------------------

LEMMA PublishHistory ==
  ASSUME TypeOK, HistoryIsRecent, Publish
  PROVE  HistoryIsRecent'
<1> DEFINE entry == [cycle |-> count + 1, at |-> prepared.at, delta |-> prepared.delta,
                     inputs |-> inputs]
           whole == Append(history, entry)
           kept == Len(history')
<1>1. /\ count \in Nat /\ count' = count + 1 /\ history \in Seq(Entry)
      /\ history' = Recent(whole) /\ entry \in Entry
  BY DEF TypeOK, Publish, Entry, Prepared
<1>2. /\ whole \in Seq(Entry) /\ Len(whole) = Len(history) + 1 /\ Len(history) \in Nat
      /\ whole[Len(history) + 1] = entry
      /\ \A i \in 1..Len(history) : whole[i] = history[i]
  BY <1>1
<1> HIDE DEF whole
<1>3. /\ history' \in Seq(Entry) /\ kept \in Nat /\ keep \in Sizes
      /\ kept = IF keep = Unlimited \/ Len(whole) <= keep THEN Len(whole)
                ELSE keep
      /\ \A i \in 1..kept : history'[i] = whole[Len(whole) - kept + i]
  <2>1. keep \in Sizes
    BY DEF TypeOK
  <2>2. /\ Recent(whole) \in Seq(Entry)
        /\ Len(Recent(whole)) = IF keep = Unlimited \/ Len(whole) <= keep
                                THEN Len(whole) ELSE keep
        /\ \A i \in 1..Len(Recent(whole)) :
             Recent(whole)[i] = whole[Len(whole) - Len(Recent(whole)) + i]
    BY <1>2, <2>1, RecentFacts
  <2> QED BY <1>1, <2>1, <2>2
<1>4. /\ keep = Unlimited \/ keep \in Nat
      /\ \A size \in Sizes \ {Unlimited} : size \in Nat
      /\ keep \in Sizes
      /\ Len(history) <= count
      /\ \A i \in 1..Len(history) : history[i].cycle = count - Len(history) + i
      /\ Len(history) = count \/ \E size \in Sizes \ {Unlimited} : size <= Len(history)
  <2>1. keep \in Sizes /\ Sizes \subseteq Nat \cup {Unlimited}
    BY ParameterAssumption DEF TypeOK
  <2>2. DOMAIN history = 1..Len(history)
    BY <1>1
  <2> QED BY <2>1, <2>2 DEF HistoryIsRecent
<1>5. /\ kept <= Len(whole)
      /\ kept <= count + 1
      /\ kept = count + 1 \/ \E size \in Sizes \ {Unlimited} : size <= kept
  <2>1. CASE keep = Unlimited \/ Len(whole) <= keep
    BY <1>1, <1>2, <1>3, <1>4, <2>1
  <2>2. CASE ~(keep = Unlimited \/ Len(whole) <= keep)
    <3>1. kept = keep /\ keep \in Sizes \ {Unlimited} /\ keep \in Nat
      BY <1>3, <1>4, <2>2
    <3>2. keep < Len(whole)
      BY <1>2, <2>2, <3>1
    <3> HIDE DEF kept
    <3> QED BY <1>1, <1>2, <1>4, <3>1, <3>2
  <2> QED BY <2>1, <2>2
<1>6. \A i \in 1..kept : history'[i].cycle = count + 1 - kept + i
  <2> SUFFICES ASSUME NEW i \in 1..kept PROVE history'[i].cycle = count + 1 - kept + i
    OBVIOUS
  <2> DEFINE j == Len(history) + 1 - kept + i
  <2>1. j \in 1..(Len(history) + 1) /\ history'[i] = whole[j]
    <3>1. Len(whole) = Len(history) + 1 /\ kept \in Nat /\ kept <= Len(whole)
          /\ Len(history) \in Nat /\ history'[i] = whole[Len(whole) - kept + i]
      BY <1>2, <1>3, <1>5
    <3> HIDE DEF kept
    <3> QED BY <3>1
  <2>2. CASE j = Len(history) + 1
    <3>1. i = kept /\ history'[i] = entry
      BY <1>2, <1>3, <2>1, <2>2
    <3>2. history'[i].cycle = count + 1
      BY <3>1
    <3> HIDE DEF kept
    <3> QED BY <1>1, <1>3, <3>1, <3>2
  <2>3. CASE j # Len(history) + 1
    <3>1. j \in 1..Len(history) /\ history'[i] = history[j]
      BY <1>2, <2>1, <2>3
    <3>2. history'[i].cycle = count - Len(history) + j
      BY <1>4, <3>1
    <3> HIDE DEF kept
    <3> QED BY <1>1, <1>2, <1>3, <3>2
  <2> QED BY <2>2, <2>3
<1>7. DOMAIN history' = 1..kept
  BY <1>3
<1> QED BY <1>1, <1>5, <1>6, <1>7 DEF HistoryIsRecent

(* The history is a run of the latest cycles in order, and has lost a cycle *)
(* only to a history_size, whatever sizes it gets and when.                 *)
THEOREM HistoryComplete == Spec => []HistoryIsRecent
<1>1. Init => HistoryIsRecent
  BY ParameterAssumption DEF Init, HistoryIsRecent
<1>2. TypeOK /\ HistoryIsRecent /\ [Next]_vars => HistoryIsRecent'
  <2> SUFFICES ASSUME TypeOK, HistoryIsRecent, [Next]_vars PROVE HistoryIsRecent'
    OBVIOUS
  <2>1. CASE Publish
    BY <2>1, PublishHistory
  <2>2. CASE ~Publish
    <3>1. UNCHANGED <<count, history>>
      BY <2>2 DEF Next, Step, Call, Read, ReadFails, ValidationSucceeds, PreparesDelta,
                  PreparesCommit, Prepare, PassRaises, HandlerRaises, HandlerLogged, Advance,
                  AdvanceFails, Interrupted, ClearHandlers, Resize, Abort, recorded, vars
    <3> QED BY <3>1 DEF HistoryIsRecent
  <2> QED BY <2>1, <2>2
<1> QED BY <1>1, <1>2, TypeCorrect, PTL DEF Spec

--------------------------------------------------------------------------------
(* The refinement.  reported is what AtomicCycle sees of the errors.       *)

reported == IF phase = "idle" THEN errors ELSE saved

(* A call that ends early changes nothing but, perhaps, to fail for good.  *)
LEMMA AbortRefines ==
  ASSUME Abort, phase # "idle"
  PROVE  UNCHANGED <<boundary, count, history, keep, reported>>
BY DEF Abort, recorded, call, reported

LEMMA PublishRefines ==
  ASSUME IInv, Publish
  PROVE  A!Commit \/ A!Delta
<1>1. /\ phase = "advancing" /\ phase' = "idle" /\ boundary' = prepared.at
      /\ errors' = prepared.errors /\ count' = count + 1 /\ UNCHANGED <<error, poisoned, keep>>
      /\ history' = Recent(Append(history, [cycle |-> count + 1, at |-> prepared.at,
                                            delta |-> prepared.delta, inputs |-> inputs]))
  BY DEF Publish
<1>2. /\ overrides \in SUBSET Provider /\ prepared.at \in Boundary \cup {Ended}
      /\ prepared.delta \in BOOLEAN /\ ~(error \/ poisoned) /\ boundary # Ended
  BY <1>1 DEF IInv, TypeOK, Prepared, InFlight, Stopped
<1>3. inputs = A!Inputs(overrides, count)
  BY <1>1 DEF IInv, TypeOK, InputsAreCurrent, A!Inputs
<1>4. \A s : A!Recent(s) = Recent(s)
  BY DEF A!Recent, Recent
<1>5. A!Recorded(prepared.at, prepared.delta)
  BY <1>1, <1>2, <1>3, <1>4 DEF A!Recorded
<1>6. CASE prepared.delta
  <2>1. prepared.at = boundary /\ prepared.errors = saved /\ prepared.delta = TRUE
    BY <1>1, <1>2, <1>6 DEF IInv, InFlight
  <2> QED BY <1>1, <1>5, <2>1 DEF A!Delta
<1>7. CASE ~prepared.delta
  <2>1. saved <= prepared.errors /\ saved \in Nat /\ prepared.errors \in Nat
        /\ prepared.delta = FALSE
    BY <1>1, <1>2, <1>7 DEF IInv, TypeOK, Prepared, InFlight
  <2> QED BY <1>1, <1>2, <1>5, <2>1 DEF A!Commit
<1> QED BY <1>6, <1>7

LEMMA StepRefines == IInv /\ [Next]_vars => [A!Next]_(A!vars)
<1> SUFFICES ASSUME IInv, [Next]_vars PROVE A!Next \/ UNCHANGED A!vars
  OBVIOUS
<1>1. CASE UNCHANGED <<boundary, count, history, keep, reported, error, poisoned>>
  BY <1>1 DEF A!vars, reported
<1>2. CASE Call
  BY <1>1, <1>2 DEF Call, recorded, reported
<1>3. CASE Read \/ ValidationSucceeds \/ HandlerLogged \/ Advance
  BY <1>1, <1>3 DEF Read, Reading, ValidationSucceeds, Validating, HandlerLogged, Advance,
                    Advancing, recorded, call, reported
<1>4. CASE PreparesDelta \/ PreparesCommit
  BY <1>1, <1>4 DEF PreparesDelta, PreparesCommit, Prepare, Validating, recorded, reported
<1>5. CASE ReadFails \/ PassRaises
  <2>1. Abort /\ phase # "idle" /\ UNCHANGED <<error, poisoned>>
    BY <1>5 DEF ReadFails, Reading, PassRaises, Validating
  <2> QED BY <1>1, <2>1, AbortRefines
<1>6. CASE HandlerRaises \/ AdvanceFails
  <2>1. Abort /\ phase # "idle" /\ (error' \/ poisoned')
    BY <1>6 DEF HandlerRaises, AdvanceFails, Advancing
  <2>2. UNCHANGED <<boundary, count, history, keep, reported>>
    BY <2>1, AbortRefines
  <2> QED BY <2>1, <2>2 DEF A!Next, A!Fail, reported
<1>7. CASE Interrupted
  <2>1. Abort /\ phase # "idle" /\ UNCHANGED <<error, poisoned>>
    BY <1>7, ParameterAssumption DEF Interrupted
  <2> QED BY <1>1, <2>1, AbortRefines
<1>8. CASE Publish
  BY <1>8, PublishRefines DEF A!Next
<1>9. CASE ClearHandlers
  BY <1>9 DEF ClearHandlers, recorded, call, A!Next, A!ClearHandlers
<1>10. CASE Resize
  BY <1>10 DEF Resize, call, A!Next, A!Resize, TypeOK, IInv
<1>11. CASE UNCHANGED vars
  BY <1>1, <1>11 DEF vars, reported
<1> QED
  BY <1>2, <1>3, <1>4, <1>5, <1>6, <1>7, <1>8, <1>9, <1>10, <1>11 DEF Next, Step

(* cycle() implements the atomic cycle: it records one cycle on the samples *)
(* of that cycle or leaves no trace, provided no interrupt hits the         *)
(* advancement of the sources.                                              *)
THEOREM CycleIsAtomic ==
  ASSUME "advancing" \notin Interruptible
  PROVE  Spec => Atomic
<1>1. Init => A!Init
  BY DEF Init, A!Init
<1> QED BY <1>1, InitIInv, NextIInv, StepRefines, PTL DEF Spec, Atomic, A!Spec

================================================================================
