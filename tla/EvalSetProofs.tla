--------------------------- MODULE EvalSetProofs ---------------------------
(***************************************************************************)
(* Lemmas about the case set, for any number of writers, any cap and any   *)
(* cases: what every operation of the store keeps.  HealingEvidenceProofs  *)
(* applies them to the steps of the whole system.                          *)
(***************************************************************************)
EXTENDS EvalSet, MetricBatchProofs

-----------------------------------------------------------------------------
(* Operators *)

\* The oldest of some cases is one of them.
LEMMA OldestIsOne ==
  ASSUME NEW S, S # {}, \A c \in S : c.id \in Nat
  PROVE  Oldest(S) \in S
<1> DEFINE T == {c.id : c \in S}
<1>1. T \in SUBSET Nat /\ T # {}
  OBVIOUS
<1>2. PICK least \in T : \A q \in T : least <= q
  BY <1>1, LeastNatural
<1>3. PICK c \in S : c.id = least
  BY <1>2
<1>4. \A d \in S : c.id <= d.id
  BY <1>2, <1>3
<1> QED
  BY <1>4, Zenon DEF Oldest

-----------------------------------------------------------------------------
(* The store *)

Calling == {w \in Writers : writer[w].pc = "calling"}

\* The lock: one writer is between its look-up and its file.
OneWrites ==
  \A v, w \in Writers : writer[v].pc = "writing" /\ writer[w].pc = "writing" => v = w

\* What has been numbered, or will be if it is not a duplicate.
Numbered ==
  /\ created + Cardinality(Calling) <= MaxCaptures
  /\ \A w \in Writers : writer[w].pc = "writing" => writer[w].id # 0

\* A number names one case, and the case being written has the latest one.
Named ==
  /\ \A c, d \in cases : c.id = d.id => c = d
  /\ \A c \in cases : c.id <= created
  /\ \A w \in Writers : writer[w].pc = "writing" =>
       writer[w].id = created /\ \A c \in cases : c.id < created

\* The cap, with room for the case that is being written.
Room ==
  CaseMax > 0 => /\ Cardinality(cases) <= CaseMax
                 /\ ~Unlocked => Cardinality(cases) + 1 <= CaseMax

Distinct ==
  /\ \A c, d \in cases : Same(c, d) => c = d
  /\ \A c \in cases : \A w \in Writers : writer[w].pc = "writing" => ~Same(c, writer[w])

StoreInv ==
  CasesTypeOK /\ IsFiniteSet(cases) /\ OneWrites /\ Numbered /\ Named /\ Room /\ Distinct

\* What the store's operations amount to, whoever calls them.
StoreStep ==
  \/ \E w \in Writers, key \in SUBSET Keys, kind \in {"failure", "win"}, input \in BOOLEAN,
        b \in [Metrics -> Scores \cup {NoScore}] : Capture(w, key, kind, input, b)
  \/ \E w \in Writers : Enter(w) \/ Write(w)
  \/ \E id \in 1..MaxCaptures : AttachInput(id) \/ RemoveCase(id)
  \/ CasesRestart
  \/ UNCHANGED caseVars

LEMMA NoCaptureType ==
  NoCapture \in WriterState /\ NoCapture.pc = "idle"
BY CaseLimits DEF NoCapture, WriterState, NoScore

LEMMA CallingIsFinite == IsFiniteSet(Calling) /\ Cardinality(Calling) \in Nat
<1>1. Calling \in SUBSET Writers
  BY DEF Calling
<1>2. IsFiniteSet(Calling)
  BY <1>1, FS_Subset, WritersAreFinite
<1> QED
  BY <1>2, FS_CardinalityType

LEMMA CaptureStep ==
  ASSUME StoreInv, NEW w \in Writers, NEW key \in SUBSET Keys, NEW kind \in {"failure", "win"},
         NEW input \in BOOLEAN, NEW b \in [Metrics -> Scores \cup {NoScore}],
         Capture(w, key, kind, input, b)
  PROVE  StoreInv'
<1> DEFINE x == [pc |-> "calling", id |-> 0, key |-> key, kind |-> kind,
                 replayable |-> input, baseline |-> b]
<1>0. /\ cases \in SUBSET CaseRecord /\ writer \in [Writers -> WriterState]
      /\ created \in 0..MaxCaptures /\ MaxCaptures \in Nat \ {0}
      /\ removed \in SUBSET (1..MaxCaptures)
  BY CaseLimits DEF StoreInv, CasesTypeOK
<1>1. /\ writer[w].pc = "idle" /\ writer' = [writer EXCEPT ![w] = x]
      /\ created + Cardinality(Calling) < MaxCaptures
      /\ UNCHANGED <<cases, created, removed>>
  BY DEF Capture, Calling
<1>2. x \in WriterState /\ x.pc = "calling"
  BY <1>0 DEF WriterState
<1> HIDE DEF x
<1>3. writer' \in [Writers -> WriterState] /\ writer'[w].pc = "calling"
      /\ \A v \in Writers \ {w} : writer'[v] = writer[v]
  BY <1>0, <1>1, <1>2
<1>4. CasesTypeOK'
  BY <1>0, <1>1, <1>3 DEF CasesTypeOK
<1>5. OneWrites'
  BY <1>3 DEF StoreInv, OneWrites
<1>6. Numbered'
  <2>1. Calling' = Calling \cup {w} /\ w \notin Calling
    BY <1>1, <1>3 DEF Calling
  <2>2. Cardinality(Calling') = Cardinality(Calling) + 1
    BY <2>1, CallingIsFinite, FS_AddElement
  <2>3. created + (Cardinality(Calling) + 1) <= MaxCaptures
    BY <1>0, <1>1, CallingIsFinite
  <2>4. \A v \in Writers : writer'[v].pc = "writing" => writer'[v].id # 0
    BY <1>3 DEF StoreInv, Numbered
  <2> QED
    BY <1>1, <2>2, <2>3, <2>4 DEF Numbered
<1>7. Room'
  BY <1>1, <1>3 DEF StoreInv, Room, Unlocked
<1>8. Distinct'
  BY <1>1, <1>3 DEF StoreInv, Distinct, Same
<1>9. Named'
  BY <1>1, <1>3 DEF StoreInv, Named
<1> QED
  BY <1>1, <1>4, <1>5, <1>6, <1>7, <1>8, <1>9 DEF StoreInv

\* A writer whose case is turned down goes home.
LEMMA RefusedStep ==
  ASSUME StoreInv, NEW w \in Writers, writer[w].pc = "calling",
         writer' = [writer EXCEPT ![w] = NoCapture], UNCHANGED <<cases, created, removed>>
  PROVE  StoreInv'
<1>0. /\ cases \in SUBSET CaseRecord /\ writer \in [Writers -> WriterState]
      /\ created \in 0..MaxCaptures /\ removed \in SUBSET (1..MaxCaptures)
      /\ MaxCaptures \in Nat
  BY CaseLimits DEF StoreInv, CasesTypeOK
<1>1. writer' \in [Writers -> WriterState] /\ writer'[w].pc = "idle"
      /\ \A v \in Writers \ {w} : writer'[v] = writer[v]
  BY <1>0, NoCaptureType
<1>2. CasesTypeOK'
  BY <1>0, <1>1 DEF CasesTypeOK
<1>3. Numbered'
  <2>1. Calling' = Calling \ {w}
    BY <1>1 DEF Calling
  <2>2. Cardinality(Calling') <= Cardinality(Calling) /\ Cardinality(Calling') \in Nat
    <3>1. Calling \ {w} \in SUBSET Calling
      OBVIOUS
    <3> QED
      BY <2>1, <3>1, CallingIsFinite, FS_Subset, FS_CardinalityType
  <2>3. created + Cardinality(Calling) <= MaxCaptures
    BY DEF StoreInv, Numbered
  <2>4. created' + Cardinality(Calling') <= MaxCaptures
    BY <1>0, <2>2, <2>3, CallingIsFinite
  <2> QED
    BY <1>1, <2>4 DEF StoreInv, Numbered
<1>4. OneWrites' /\ Room' /\ Distinct' /\ Named'
  BY <1>1 DEF StoreInv, OneWrites, Room, Unlocked, Distinct, Same, Named
<1> QED
  BY <1>2, <1>3, <1>4 DEF StoreInv

LEMMA EnterStep ==
  ASSUME StoreInv, NEW w \in Writers, Enter(w)
  PROVE  StoreInv'
<1> DEFINE full == CaseMax > 0 /\ Cardinality(cases) >= CaseMax
           losers == OfKind("failure")
           out == IF full THEN {Oldest(losers)} ELSE {}
           x == [writer[w] EXCEPT !.pc = "writing", !.id = created + 1]
<1>0. /\ cases \in SUBSET CaseRecord /\ writer \in [Writers -> WriterState]
      /\ created \in 0..MaxCaptures /\ removed \in SUBSET (1..MaxCaptures)
      /\ MaxCaptures \in Nat /\ CaseMax \in Nat /\ IsFiniteSet(cases)
      /\ Cardinality(cases) \in Nat
  BY CaseLimits, FS_CardinalityType DEF StoreInv, CasesTypeOK
<1>1. writer[w].pc = "calling" /\ Unlocked /\ removed' = removed
  BY DEF Enter
<1>2. CASE writer' = [writer EXCEPT ![w] = NoCapture] /\ UNCHANGED <<cases, created>>
  BY <1>1, <1>2, RefusedStep
<1>3. CASE /\ ~(\E c \in cases : Same(c, writer[w])) /\ ~(full /\ losers = {})
           /\ cases' = IF full THEN cases \ {Oldest(losers)} ELSE cases
           /\ created' = created + 1
           /\ writer' = [writer EXCEPT ![w].pc = "writing", ![w].id = created + 1]
  <2>1. created + 1 <= MaxCaptures
    <3>1. w \in Calling
      BY <1>1 DEF Calling
    <3>2. Cardinality(Calling) # 0
      BY <3>1, CallingIsFinite, FS_EmptySet
    <3>3. created + Cardinality(Calling) <= MaxCaptures
      BY DEF StoreInv, Numbered
    <3> QED
      BY <1>0, <3>2, <3>3, CallingIsFinite
  <2>2. /\ x \in WriterState /\ x.pc = "writing" /\ x.id = created + 1
        /\ x.key = writer[w].key /\ x.kind = writer[w].kind
    <3>1. writer[w] \in WriterState /\ created + 1 \in 0..MaxCaptures
      BY <1>0, <2>1
    <3> QED
      BY <3>1 DEF WriterState
  <2>3. writer' = [writer EXCEPT ![w] = x]
    BY <1>0, <1>3, Zenon
  <2> HIDE DEF x
  <2>4. /\ writer' \in [Writers -> WriterState] /\ writer'[w] = x
        /\ \A v \in Writers \ {w} : writer'[v] = writer[v]
    BY <1>0, <2>2, <2>3
  <2>5. CasesTypeOK'
    BY <1>0, <1>1, <1>3, <2>1, <2>4 DEF CasesTypeOK
  <2>6. IsFiniteSet(cases') /\ Cardinality(cases') \in Nat
        /\ (CaseMax > 0 => Cardinality(cases') + 1 <= CaseMax)
    <3>1. CASE full
      <4>1. Oldest(losers) \in cases
        <5>1. losers # {} /\ \A c \in losers : c.id \in Nat
          BY <1>0, <1>3, <3>1 DEF OfKind, CaseRecord
        <5>2. Oldest(losers) \in losers
          BY <5>1, OldestIsOne
        <5> QED
          BY <5>2 DEF OfKind
      <4>2. cases' = cases \ {Oldest(losers)}
        BY <1>3, <3>1
      <4>3. IsFiniteSet(cases') /\ Cardinality(cases') = Cardinality(cases) - 1
        BY <1>0, <4>1, <4>2, FS_RemoveElement
      <4>4. Cardinality(cases) <= CaseMax /\ Cardinality(cases') \in Nat
        BY <3>1, <4>3, FS_CardinalityType DEF StoreInv, Room
      <4> QED
        BY <1>0, <4>3, <4>4
    <3>2. CASE ~full
      BY <1>0, <1>3, <3>2
    <3> QED
      BY <3>1, <3>2
  <2>7. Room'
    BY <1>0, <2>6 DEF Room
  <2>8. cases' \subseteq cases
    BY <1>3
  <2>9. \A v \in Writers : writer'[v].pc = "writing" => v = w
    BY <1>1, <2>4 DEF Unlocked
  <2>10. OneWrites'
    BY <2>9 DEF OneWrites
  <2>11. Distinct'
    <3>1. \A c \in cases' : ~Same(c, x)
      BY <1>3, <2>2, <2>8 DEF Same
    <3>2. \A c, d \in cases' : Same(c, d) => c = d
      BY <2>8 DEF StoreInv, Distinct
    <3> QED
      BY <2>4, <2>9, <3>1, <3>2 DEF Distinct, Same
  <2>12. Numbered'
    <3>1. Calling' = Calling \ {w} /\ w \in Calling
      BY <1>1, <2>2, <2>4 DEF Calling
    <3>2. Cardinality(Calling') = Cardinality(Calling) - 1
      BY <3>1, CallingIsFinite, FS_RemoveElement
    <3>3. created + Cardinality(Calling) <= MaxCaptures
      BY DEF StoreInv, Numbered
    <3>4. (created + 1) + (Cardinality(Calling) - 1) <= MaxCaptures
      BY <1>0, <3>3, CallingIsFinite
    <3>5. \A v \in Writers : writer'[v].pc = "writing" => writer'[v].id # 0
      BY <1>0, <2>2, <2>4, <2>9
    <3> QED
      BY <1>3, <3>2, <3>4, <3>5 DEF Numbered
  <2>13. Named'
    <3>1. \A c, d \in cases' : (c.id = d.id => c = d) /\ c.id <= created /\ c.id \in Nat
      BY <1>0, <2>8 DEF StoreInv, Named, CaseRecord
    <3>2. created \in Nat /\ created' = created + 1
      BY <1>0, <1>3
    <3>3. \A c \in cases' : c.id < created' /\ c.id <= created'
      BY <3>1, <3>2
    <3>4. writer'[w].id = created'
      BY <2>2, <2>4, <3>2
    <3> QED
      BY <2>9, <3>1, <3>3, <3>4 DEF Named
  <2> QED
    BY <2>5, <2>6, <2>7, <2>10, <2>11, <2>12, <2>13 DEF StoreInv
<1> QED
  BY <1>2, <1>3 DEF Enter

LEMMA WriteStep ==
  ASSUME StoreInv, NEW w \in Writers, Write(w)
  PROVE  StoreInv'
<1> DEFINE file == CaseFile(writer[w].id, writer[w].key, writer[w].kind, writer[w].replayable,
                            writer[w].baseline)
<1>0. /\ cases \in SUBSET CaseRecord /\ writer \in [Writers -> WriterState]
      /\ created \in 0..MaxCaptures /\ removed \in SUBSET (1..MaxCaptures)
      /\ MaxCaptures \in Nat /\ CaseMax \in Nat /\ IsFiniteSet(cases)
      /\ Cardinality(cases) \in Nat
  BY CaseLimits, FS_CardinalityType DEF StoreInv, CasesTypeOK
<1>1. /\ writer[w].pc = "writing" /\ cases' = cases \cup {file}
      /\ writer' = [writer EXCEPT ![w] = NoCapture] /\ UNCHANGED <<created, removed>>
  BY DEF Write
<1>2. writer[w] \in WriterState /\ writer[w].id # 0
  BY <1>0, <1>1 DEF StoreInv, Numbered
<1>3. /\ file \in CaseRecord /\ file.key = writer[w].key /\ file.kind = writer[w].kind
      /\ file.id = writer[w].id
  <2>1. /\ writer[w].id \in 0..MaxCaptures /\ writer[w].key \in SUBSET Keys
        /\ writer[w].kind \in {"failure", "win"} /\ writer[w].replayable \in BOOLEAN
        /\ writer[w].baseline \in [Metrics -> Scores \cup {NoScore}]
    BY <1>2 DEF WriterState
  <2>2. writer[w].id \in 1..MaxCaptures
    BY <1>0, <1>2, <2>1
  <2>3. file \in CaseRecord
    BY <2>1, <2>2, Zenon DEF CaseFile, CaseRecord
  <2> QED
    BY <2>3 DEF CaseFile
<1> HIDE DEF file
<1>4. /\ writer' \in [Writers -> WriterState] /\ writer'[w].pc = "idle"
      /\ \A v \in Writers \ {w} : writer'[v] = writer[v]
  BY <1>0, <1>1, NoCaptureType
<1>5. \A v \in Writers : writer'[v].pc # "writing"
  BY <1>1, <1>4 DEF StoreInv, OneWrites
<1>6. CasesTypeOK'
  BY <1>0, <1>1, <1>3, <1>4 DEF CasesTypeOK
<1>7. IsFiniteSet(cases') /\ Cardinality(cases') <= Cardinality(cases) + 1
      /\ Cardinality(cases') \in Nat
  <2>1. /\ IsFiniteSet(cases \cup {file})
        /\ Cardinality(cases \cup {file}) \in {Cardinality(cases), Cardinality(cases) + 1}
    BY <1>0, FS_AddElement
  <2> QED
    BY <1>0, <1>1, <2>1
<1>8. Room'
  <2>1. ~Unlocked /\ Unlocked'
    BY <1>1, <1>5 DEF Unlocked
  <2>2. CaseMax > 0 => Cardinality(cases) + 1 <= CaseMax
    BY <2>1 DEF StoreInv, Room
  <2>3. CaseMax > 0 => Cardinality(cases') <= CaseMax
    BY <1>0, <1>7, <2>2
  <2> QED
    BY <2>1, <2>3 DEF Room
<1>9. Numbered'
  <2>1. Calling' = Calling
    BY <1>1, <1>4 DEF Calling
  <2> QED
    BY <1>1, <1>5, <2>1 DEF StoreInv, Numbered
<1>10. OneWrites'
  BY <1>5 DEF OneWrites
<1>11. Distinct'
  <2>1. \A c \in cases : ~Same(c, file) /\ ~Same(file, c)
    BY <1>1, <1>3 DEF StoreInv, Distinct, Same
  <2>2. \A c, d \in cases' : Same(c, d) => c = d
    BY <1>1, <2>1 DEF StoreInv, Distinct
  <2> QED
    BY <1>5, <2>2 DEF Distinct
<1>12. Named'
  <2>1. file.id = created /\ \A c \in cases : c.id < created /\ c.id \in Nat
    BY <1>0, <1>1, <1>3 DEF StoreInv, Named, CaseRecord
  <2>2. created' = created /\ created \in Nat
    BY <1>0, <1>1
  <2>3. \A c \in cases : c.id # file.id
    BY <2>1, <2>2
  <2>4. \A c \in cases' : c.id <= created'
    BY <1>1, <2>1, <2>2
  <2>5. \A c, d \in cases' : c.id = d.id => c = d
    BY <1>1, <2>3 DEF StoreInv, Named
  <2> QED
    BY <1>5, <2>4, <2>5 DEF Named
<1> QED
  BY <1>6, <1>7, <1>8, <1>9, <1>10, <1>11, <1>12 DEF StoreInv

LEMMA EditStep ==
  ASSUME StoreInv, NEW id \in 1..MaxCaptures, AttachInput(id) \/ RemoveCase(id)
  PROVE  StoreInv'
<1>0. /\ cases \in SUBSET CaseRecord /\ writer \in [Writers -> WriterState]
      /\ created \in 0..MaxCaptures /\ removed \in SUBSET (1..MaxCaptures)
      /\ MaxCaptures \in Nat /\ CaseMax \in Nat /\ IsFiniteSet(cases)
      /\ Cardinality(cases) \in Nat
  BY CaseLimits, FS_CardinalityType DEF StoreInv, CasesTypeOK
<1>1. Unlocked /\ UNCHANGED <<writer, created>>
  BY DEF AttachInput, RemoveCase
<1>2. removed' \in SUBSET (1..MaxCaptures)
  BY <1>0 DEF AttachInput, RemoveCase
<1>3. OneWrites' /\ Numbered'
  BY <1>1 DEF StoreInv, OneWrites, Numbered, Calling
<1>4. /\ cases' \in SUBSET CaseRecord /\ IsFiniteSet(cases')
      /\ Cardinality(cases') \in Nat /\ Cardinality(cases') <= Cardinality(cases)
      /\ \A c, d \in cases' : Same(c, d) \/ c.id = d.id => c = d
      /\ \A c \in cases' : \E d \in cases : c.id = d.id
  <2>1. CASE AttachInput(id)
    <3>1. PICK c \in cases : cases' = (cases \ {c}) \cup {[c EXCEPT !.replayable = TRUE]}
      BY <2>1 DEF AttachInput
    <3> DEFINE d == [c EXCEPT !.replayable = TRUE]
    <3>2. d \in CaseRecord /\ d.key = c.key /\ d.kind = c.kind /\ d.id = c.id
      BY <1>0 DEF CaseRecord
    <3> HIDE DEF d
    <3>3. cases' = (cases \ {c}) \cup {d}
      BY <3>1 DEF d
    <3>4. IsFiniteSet(cases \ {c}) /\ Cardinality(cases \ {c}) = Cardinality(cases) - 1
      BY <1>0, FS_RemoveElement
    <3>5. IsFiniteSet(cases') /\ Cardinality(cases') <= Cardinality(cases \ {c}) + 1
          /\ Cardinality(cases') \in Nat
      <4> DEFINE rest == cases \ {c}
      <4>1. IsFiniteSet(rest) /\ Cardinality(rest) \in Nat /\ cases' = rest \cup {d}
        BY <1>0, <3>3, <3>4, FS_CardinalityType
      <4> HIDE DEF rest
      <4>2. /\ IsFiniteSet(rest \cup {d})
            /\ Cardinality(rest \cup {d}) = IF d \in rest THEN Cardinality(rest) ELSE Cardinality(rest) + 1
        BY <4>1, FS_AddElement
      <4>3. /\ Cardinality(rest \cup {d}) <= Cardinality(rest) + 1
            /\ Cardinality(rest \cup {d}) \in Nat
        BY <4>1, <4>2
      <4> QED
        BY <4>1, <4>2, <4>3 DEF rest
    <3>6. \A e \in cases \ {c} : ~Same(d, e) /\ ~Same(e, d) /\ d.id # e.id
      BY <3>2 DEF StoreInv, Distinct, Same, Named
    <3>7. \A e, f \in cases' : Same(e, f) \/ e.id = f.id => e = f
      BY <3>3, <3>6 DEF StoreInv, Distinct, Named
    <3>9. \A e \in cases' : \E f \in cases : e.id = f.id
      BY <3>2, <3>3
    <3>8. cases' \in SUBSET CaseRecord
      BY <1>0, <3>2, <3>3
    <3> QED
      BY <1>0, <3>4, <3>5, <3>7, <3>8, <3>9
  <2>2. CASE RemoveCase(id)
    <3>1. cases' \in SUBSET cases
      BY <2>2 DEF RemoveCase
    <3>2. /\ IsFiniteSet(cases') /\ Cardinality(cases') <= Cardinality(cases)
          /\ Cardinality(cases') \in Nat
      BY <1>0, <3>1, FS_Subset, FS_CardinalityType
    <3> QED
      BY <1>0, <3>1, <3>2 DEF StoreInv, Distinct, Named
  <2> QED
    BY <2>1, <2>2
<1>5. CasesTypeOK'
  BY <1>0, <1>1, <1>2, <1>4 DEF CasesTypeOK
<1>6. Room'
  BY <1>0, <1>1, <1>4 DEF StoreInv, Room, Unlocked
<1>7. Distinct' /\ Named'
  BY <1>1, <1>4 DEF StoreInv, Distinct, Named, Unlocked
<1> QED
  BY <1>3, <1>4, <1>5, <1>6, <1>7 DEF StoreInv

\* A dead process writes nothing; what it had taken away stays away.
LEMMA RestartStep ==
  ASSUME StoreInv, CasesRestart
  PROVE  StoreInv'
<1>0. /\ cases \in SUBSET CaseRecord /\ created \in 0..MaxCaptures
      /\ removed \in SUBSET (1..MaxCaptures) /\ MaxCaptures \in Nat
  BY CaseLimits DEF StoreInv, CasesTypeOK
<1>1. /\ \A w \in Writers : writer'[w] = NoCapture
      /\ writer' \in [Writers -> WriterState] /\ UNCHANGED <<cases, created, removed>>
  BY NoCaptureType DEF CasesRestart
<1>2. CasesTypeOK'
  BY <1>0, <1>1 DEF CasesTypeOK
<1>3. Numbered'
  <2>1. Calling' = {}
    BY <1>1, NoCaptureType DEF Calling
  <2>2. Cardinality(Calling') = 0
    BY <2>1, FS_EmptySet
  <2> QED
    BY <1>0, <1>1, <2>2, NoCaptureType DEF Numbered
<1>4. OneWrites' /\ Room' /\ Distinct' /\ Named'
  BY <1>1, NoCaptureType DEF StoreInv, OneWrites, Room, Unlocked, Distinct, Named
<1> QED
  BY <1>1, <1>2, <1>3, <1>4 DEF StoreInv

LEMMA StoreKeeps ==
  ASSUME StoreInv, StoreStep
  PROVE  StoreInv'
<1>1. CASE UNCHANGED caseVars
  BY <1>1
     DEF StoreInv, CasesTypeOK, OneWrites, Numbered, Named, Calling, Room, Unlocked, Distinct, Same,
         caseVars
<1> QED
  BY <1>1, CaptureStep, EnterStep, WriteStep, EditStep, RestartStep DEF StoreStep

\* The cap and the duplicates, as the runs state them.
LEMMA StoreIsBounded ==
  ASSUME StoreInv
  PROVE  CorpusBounded
<1> DEFINE coming == {w \in Writers : writer[w].pc = "writing"}
<1>0. /\ IsFiniteSet(cases) /\ Cardinality(cases) \in Nat /\ CaseMax \in Nat
  BY CaseLimits, FS_CardinalityType DEF StoreInv
<1>1. CASE coming = {}
  <2>1. Cardinality(coming) = 0
    BY <1>1, FS_EmptySet
  <2> QED
    BY <1>0, <1>1, <2>1 DEF CorpusBounded, StoreInv, Room, Distinct
<1>2. CASE coming # {}
  <2>1. PICK w \in Writers : coming = {w} /\ writer[w].pc = "writing"
    BY <1>2 DEF StoreInv, OneWrites
  <2>2. Cardinality(coming) = 1
    BY <2>1, FS_Singleton
  <2>3. CaseMax > 0 => Cardinality(cases) + 1 <= CaseMax
    BY <2>1 DEF StoreInv, Room, Unlocked
  <2> QED
    BY <1>0, <2>2, <2>3 DEF CorpusBounded, StoreInv, Distinct
<1> QED
  BY <1>1, <1>2

\* A win goes only when it is removed by name.
LEMMA StoreKeepsWins ==
  ASSUME StoreInv, StoreStep, NEW c \in cases, c.kind = "win"
  PROVE  c.id \in {d.id : d \in cases'} \/ c.id \in removed'
<1> SUFFICES ASSUME c \notin cases' PROVE c.id \in {d.id : d \in cases'} \/ c.id \in removed'
  OBVIOUS
<1>1. CASE \E w \in Writers : Enter(w)
  <2>1. cases \in SUBSET CaseRecord
    BY DEF StoreInv, CasesTypeOK
  <2>2. OfKind("failure") # {} /\ cases' = cases \ {Oldest(OfKind("failure"))}
    BY <1>1 DEF Enter
  <2>3. Oldest(OfKind("failure")) \in OfKind("failure")
    <3>1. \A d \in OfKind("failure") : d.id \in Nat
      BY <2>1 DEF OfKind, CaseRecord
    <3> QED
      BY <2>2, <3>1, OldestIsOne
  <2> QED
    BY <2>2, <2>3 DEF OfKind
<1>2. CASE \E id \in 1..MaxCaptures : AttachInput(id)
  <2>1. PICK e \in cases : cases' = (cases \ {e}) \cup {[e EXCEPT !.replayable = TRUE]}
    BY <1>2 DEF AttachInput
  <2>2. e = c /\ [e EXCEPT !.replayable = TRUE].id = e.id
    BY <2>1 DEF StoreInv, CasesTypeOK, CaseRecord
  <2> QED
    BY <2>1, <2>2
<1>3. CASE \E id \in 1..MaxCaptures : RemoveCase(id)
  BY <1>3 DEF RemoveCase
<1>4. CASE cases \subseteq cases'
  BY <1>4
<1>5. cases \subseteq cases' \/ (\E w \in Writers : Enter(w))
      \/ (\E id \in 1..MaxCaptures : AttachInput(id) \/ RemoveCase(id))
  BY DEF StoreStep, Capture, Write, CasesRestart, caseVars
<1> QED
  BY <1>1, <1>2, <1>3, <1>4, <1>5

=============================================================================
