----------------------- MODULE HealingEvidenceProofs -----------------------
(***************************************************************************)
(* What the evidence of the whole system is worth, proved for any number   *)
(* of turns, traces, cases and scenarios: the corpus stays bounded, keeps  *)
(* its wins, and holds no failure of the gated session that no notice in   *)
(* the mailbox accounts for; the gate behaves in the system as it does on  *)
(* its own; a verdict rests on cases that read the candidate, and a        *)
(* regression run replays the wins first.                                  *)
(***************************************************************************)
EXTENDS HealingEvidence, CaseReplayProofs, TrajectoryGateProofs

LEMMA InitStore ==
  ASSUME Init
  PROVE  StoreInv
<1>1. PICK s \in Scenarios : CasesInit(s.files)
  BY DEF Init
<1>2. /\ s.files \in SUBSET CaseRecord /\ IsFiniteSet(s.files)
      /\ Cardinality(s.files) \in Nat /\ Cardinality(s.files) <= MaxCaptures
      /\ CaseMax > 0 => Cardinality(s.files) <= CaseMax
      /\ \A c, d \in s.files : Same(c, d) \/ c.id = d.id => c = d
      /\ \A c \in s.files : c.id <= Cardinality(s.files)
  BY ScenariosStart, FS_CardinalityType
<1>3. /\ cases = s.files /\ created = Cardinality(s.files) /\ removed = {}
      /\ writer \in [Writers -> WriterState] /\ \A w \in Writers : writer[w].pc = "idle"
  BY <1>1, NoCaptureType DEF CasesInit
<1>4. MaxCaptures \in Nat /\ created \in 0..MaxCaptures
  BY <1>2, <1>3, CaseLimits
<1>5. CasesTypeOK
  BY <1>2, <1>3, <1>4 DEF CasesTypeOK
<1>6. Numbered
  <2>1. Cardinality(Calling) = 0
    BY <1>3, FS_EmptySet DEF Calling
  <2> QED
    BY <1>3, <1>4, <2>1 DEF Numbered
<1>7. OneWrites /\ Room /\ Distinct /\ Named
  BY <1>2, <1>3 DEF OneWrites, Room, Unlocked, Distinct, Named
<1> QED
  BY <1>2, <1>3, <1>5, <1>6, <1>7 DEF StoreInv

\* The notice of a turn is a set of keys, as Capture demands.
LEMMA NextStoreStep ==
  ASSUME [Next]_vars
  PROVE  StoreStep
<1>1. CASE \E t \in Turns : Keep(t)
  <2>1. PICK t \in Turns : Keep(t)
    BY <1>1
  <2>2. CASE UNCHANGED caseVars
    BY <2>2 DEF StoreStep
  <2>3. CASE ~UNCHANGED caseVars
    <3>1. PICK b \in Baselines, input \in BOOLEAN : Capture(t, KeyOf(t), "failure", input, b)
      BY <2>1, <2>3 DEF Keep
    <3>2. t \in Writers /\ KeyOf(t) \in SUBSET Keys /\ b \in [Metrics -> Scores \cup {NoScore}]
      BY <3>1, HostWrites, ScenariosStart DEF Capture
    <3> QED
      BY <3>1, <3>2 DEF StoreStep
  <2> QED
    BY <2>2, <2>3
<1>2. CASE HostCaptures
  <2>1. PICK b \in Baselines, kind \in {"failure", "win"} : Capture(Host, {kind}, kind, TRUE, b)
    BY <1>2 DEF HostCaptures
  <2>2. Host \in Writers /\ {kind} \in SUBSET Keys /\ b \in [Metrics -> Scores \cup {NoScore}]
    BY <2>1, HostWrites, ScenariosStart DEF Capture
  <2> QED
    BY <2>1, <2>2 DEF StoreStep
<1>3. CASE Store \/ HostEdits \/ Restart
  BY <1>3 DEF Store, HostEdits, Restart, StoreStep
<1>4. CASE \/ Gate \/ Rounds \/ Replay \/ UNCHANGED vars
           \/ \E t \in Turns : Due(t) \/ Post(t) \/ PostFails(t)
  BY <1>4 DEF Gate, Rounds, Replay, vars, Due, Post, PostFails, StoreStep
<1> QED
  BY <1>1, <1>2, <1>3, <1>4 DEF Next

\* The store's invariant holds of the whole system.
THEOREM StoreInvariant == Spec => []StoreInv
<1>1. Init => StoreInv
  BY InitStore
<1>2. StoreInv /\ [Next]_vars => StoreInv'
  BY NextStoreStep, StoreKeeps
<1> QED
  BY <1>1, <1>2, PTL DEF Spec

\* Concurrent captures, evictions and crashes never leave more cases than
\* eval_case_max allows, nor two files of one case (capture() of
\* workspace/evalset.py), for any number of threads and any cap.
THEOREM CorpusStaysBounded == Spec => []CorpusBounded
<1>1. StoreInv => CorpusBounded
  BY StoreIsBounded
<1> QED
  BY <1>1, StoreInvariant, PTL

\* workspace/evalset.py:309: "``win`` cases are never evicted": no step of the
\* system takes a win away unless it is removed by name.
THEOREM WinsAreKept == Spec => WinsKept
<1> DEFINE Kept == \A c \in cases : c.kind = "win" =>
                     c.id \in {d.id : d \in cases'} \/ c.id \in removed'
<1>1. StoreInv /\ [Next]_vars => [Kept]_caseVars
  <2> SUFFICES ASSUME StoreInv, [Next]_vars PROVE Kept
    OBVIOUS
  <2>1. StoreStep
    BY NextStoreStep
  <2> QED
    BY <2>1, StoreKeepsWins
<1> QED
  BY <1>1, StoreInvariant, PTL DEF Spec, WinsKept

-----------------------------------------------------------------------------
(* Failures and their notices                                              *)

Kept == {c \in cases : OfBreach(c)}
Coming == {t \in Turns : writer[t].pc # "idle" /\ OfBreach(writer[t])}
Answered == {t \in posted : notice[t] = "done"}

\* Each turn keeps at most one case, after its notice is in the mailbox: the files
\* and the captures under way are never more than the notices dealt with.  The host
\* uses keys of its own.
EvidenceInv ==
  /\ posted \in SUBSET Turns
  /\ notice \in [Turns -> {"none", "due", "posted", "done"}]
  /\ \A t \in Turns : notice[t] = "posted" => t \in posted
  /\ writer[Host].pc # "idle" => ~OfBreach(writer[Host])
  /\ Cardinality(Kept) + Cardinality(Coming) <= Cardinality(Answered)

LEMMA TurnsAreFinite ==
  IsFiniteSet(Turns) /\ Host \notin Turns /\ Writers = Turns \cup {Host}
<1>1. MaxTurns \in Nat
  BY GateLimits
<1>2. IsFiniteSet(Turns)
  BY <1>1, FS_Interval DEF Turns
<1>3. Host \notin Turns
  BY <1>1 DEF Host, Turns
<1> QED
  BY <1>2, <1>3, HostWrites

LEMMA CountsAreNaturals ==
  ASSUME StoreInv, EvidenceInv
  PROVE  /\ IsFiniteSet(Kept) /\ Cardinality(Kept) \in Nat
         /\ IsFiniteSet(Coming) /\ Cardinality(Coming) \in Nat
         /\ IsFiniteSet(Answered) /\ Cardinality(Answered) \in Nat
<1>1. IsFiniteSet(Kept)
  BY FS_Subset DEF StoreInv, Kept
<1>2. IsFiniteSet(Coming)
  BY TurnsAreFinite, FS_Subset DEF Coming
<1>3. IsFiniteSet(Answered)
  <2>1. Answered \subseteq Turns
    BY DEF Answered, EvidenceInv
  <2> QED
    BY <2>1, TurnsAreFinite, FS_Subset
<1> QED
  BY <1>1, <1>2, <1>3, FS_CardinalityType

\* What keeps the count: no more cases, no more captures, no fewer notices.
LEMMA CountKept ==
  ASSUME StoreInv, EvidenceInv, StoreInv',
         posted' \in SUBSET Turns,
         notice' \in [Turns -> {"none", "due", "posted", "done"}],
         Cardinality(Kept') <= Cardinality(Kept),
         Coming' \subseteq Coming, Answered \subseteq Answered'
  PROVE  Cardinality(Kept') + Cardinality(Coming') <= Cardinality(Answered')
<1>1. /\ IsFiniteSet(Coming) /\ IsFiniteSet(Kept') /\ IsFiniteSet(Answered')
  <2>1. IsFiniteSet(Coming)
    BY CountsAreNaturals
  <2>2. IsFiniteSet(Kept')
    BY FS_Subset DEF StoreInv, Kept
  <2>3. Answered' \subseteq Turns
    BY DEF Answered
  <2> QED
    BY <2>1, <2>2, <2>3, TurnsAreFinite, FS_Subset
<1>2. Cardinality(Coming') <= Cardinality(Coming) /\ IsFiniteSet(Coming')
  BY <1>1, FS_Subset
<1>3. Cardinality(Answered) <= Cardinality(Answered')
  BY <1>1, FS_Subset
<1>4. /\ Cardinality(Kept) \in Nat /\ Cardinality(Coming) \in Nat
      /\ Cardinality(Answered) \in Nat /\ Cardinality(Kept') \in Nat
      /\ Cardinality(Coming') \in Nat /\ Cardinality(Answered') \in Nat
  BY <1>1, <1>2, CountsAreNaturals, FS_CardinalityType
<1>5. Cardinality(Kept) + Cardinality(Coming) <= Cardinality(Answered)
  BY DEF EvidenceInv
<1> QED
  BY <1>2, <1>3, <1>4, <1>5

\* A turn that posts, fails to post or is about to keep nothing: only its notice
\* moves, and a notice dealt with stays dealt with.
LEMMA NoticeSteps ==
  ASSUME StoreInv, EvidenceInv, StoreInv', UNCHANGED <<cases, writer>>,
         \/ UNCHANGED <<notice, posted>>
         \/ \E t \in Turns :
              \/ notice[t] = "none" /\ notice' = [notice EXCEPT ![t] = "due"] /\ posted' = posted
              \/ /\ notice[t] = "due" /\ notice' = [notice EXCEPT ![t] = "posted"]
                 /\ posted' = posted \cup {t}
              \/ notice[t] \in {"due", "posted"} /\ notice' = [notice EXCEPT ![t] = "done"]
                 /\ posted' = posted
  PROVE  EvidenceInv'
<1>1. /\ posted' \in SUBSET Turns
      /\ notice' \in [Turns -> {"none", "due", "posted", "done"}]
      /\ \A t \in Turns : notice'[t] = "posted" => t \in posted'
      /\ \A t \in Turns : notice[t] = "done" => notice'[t] = "done"
      /\ posted \subseteq posted'
  BY DEF EvidenceInv
<1>2. Answered \subseteq Answered'
  BY <1>1 DEF Answered, EvidenceInv
<1>3. Kept' = Kept /\ Coming' = Coming
  BY DEF Kept, Coming
<1>4. Cardinality(Kept') <= Cardinality(Kept)
  BY <1>3, CountsAreNaturals
<1>5. Cardinality(Kept') + Cardinality(Coming') <= Cardinality(Answered')
  BY <1>1, <1>2, <1>3, <1>4, CountKept
<1>6. writer'[Host].pc # "idle" => ~OfBreach(writer'[Host])
  BY DEF EvidenceInv
<1> QED
  BY <1>1, <1>5, <1>6 DEF EvidenceInv

\* The capture of a breach: one more under way, one more notice dealt with.
LEMMA KeepStep ==
  ASSUME StoreInv, EvidenceInv, StoreInv', NEW t \in Turns, Keep(t), ~UNCHANGED caseVars
  PROVE  EvidenceInv'
<1>1. PICK b \in Baselines, input \in BOOLEAN : Capture(t, KeyOf(t), "failure", input, b)
  BY DEF Keep
<1>2. /\ notice[t] = "posted" /\ notice' = [notice EXCEPT ![t] = "done"] /\ posted' = posted
      /\ cases' = cases /\ writer[t].pc = "idle"
      /\ notice \in [Turns -> {"none", "due", "posted", "done"}] /\ posted \in SUBSET Turns
      /\ t \in posted /\ t # Host
  BY <1>1, TurnsAreFinite DEF Keep, Capture, EvidenceInv
<1>3. \A v \in Writers : v # t => writer'[v] = writer[v]
  <2>1. writer \in [Writers -> WriterState]
    BY DEF StoreInv, CasesTypeOK
  <2> QED
    BY <1>1, <2>1 DEF Capture
<1>4. /\ posted' \in SUBSET Turns
      /\ notice' \in [Turns -> {"none", "due", "posted", "done"}]
      /\ \A u \in Turns : notice'[u] = "posted" => u \in posted'
  BY <1>2 DEF EvidenceInv
<1>5. writer'[Host].pc # "idle" => ~OfBreach(writer'[Host])
  <2>1. writer'[Host] = writer[Host]
    BY <1>2, <1>3, TurnsAreFinite
  <2> QED
    BY <2>1 DEF EvidenceInv
<1>6. Answered' = Answered \cup {t} /\ t \notin Answered
  BY <1>2 DEF Answered
<1>7. Kept' = Kept
  BY <1>2 DEF Kept
<1>8. Coming' \subseteq Coming \cup {t} /\ t \notin Coming
  BY <1>2, <1>3, TurnsAreFinite DEF Coming
<1>9. Cardinality(Answered') = Cardinality(Answered) + 1
  BY <1>6, CountsAreNaturals, FS_AddElement
<1>10. Cardinality(Coming') <= Cardinality(Coming) + 1 /\ Cardinality(Coming') \in Nat
  <2>1. IsFiniteSet(Coming \cup {t}) /\ Cardinality(Coming \cup {t}) = Cardinality(Coming) + 1
    BY <1>8, CountsAreNaturals, FS_AddElement
  <2>2. IsFiniteSet(Coming') /\ Cardinality(Coming') <= Cardinality(Coming \cup {t})
    BY <1>8, <2>1, FS_Subset
  <2> QED
    BY <2>1, <2>2, FS_CardinalityType
<1>11. Cardinality(Kept') + Cardinality(Coming') <= Cardinality(Answered')
  <2>1. Cardinality(Kept) + Cardinality(Coming) <= Cardinality(Answered)
    BY DEF EvidenceInv
  <2> QED
    BY <1>7, <1>9, <1>10, <2>1, CountsAreNaturals
<1> QED
  BY <1>4, <1>5, <1>11 DEF EvidenceInv

\* What the host captures has a key that is no breach.
LEMMA HostCapturesStep ==
  ASSUME StoreInv, EvidenceInv, StoreInv', HostCaptures
  PROVE  EvidenceInv'
<1>1. PICK b \in Baselines, kind \in {"failure", "win"} : Capture(Host, {kind}, kind, TRUE, b)
  BY DEF HostCaptures
<1>2. UNCHANGED <<notice, posted, cases>>
  BY <1>1 DEF HostCaptures, Capture
<1> DEFINE x == [pc |-> "calling", id |-> 0, key |-> {kind}, kind |-> kind,
                 replayable |-> TRUE, baseline |-> b]
<1>3. writer \in [Writers -> WriterState] /\ writer' = [writer EXCEPT ![Host] = x]
  BY <1>1 DEF StoreInv, CasesTypeOK, Capture
<1>4. ~OfBreach(x)
  BY DEF OfBreach
<1> HIDE DEF x
<1>5. writer'[Host] = x /\ \A v \in Turns : writer'[v] = writer[v]
  BY <1>3, TurnsAreFinite
<1>6. Kept' = Kept /\ Coming' = Coming /\ Answered' = Answered
  BY <1>2, <1>5 DEF Kept, Coming, Answered
<1> QED
  BY <1>2, <1>4, <1>5, <1>6 DEF EvidenceInv

\* A capture enters the lock: the case is refused, or takes the place of others.
LEMMA EnterKeepsCount ==
  ASSUME StoreInv, EvidenceInv, StoreInv', NEW w \in Writers, Enter(w),
         UNCHANGED <<notice, posted>>
  PROVE  EvidenceInv'
<1>1. writer \in [Writers -> WriterState] /\ writer[w] \in WriterState
      /\ writer[w].pc = "calling"
  BY DEF StoreInv, CasesTypeOK, Enter
<1>2. cases' \subseteq cases
  BY DEF Enter
<1> DEFINE x == [writer[w] EXCEPT !.pc = "writing", !.id = created + 1]
<1>3. \/ writer' = [writer EXCEPT ![w] = NoCapture]
      \/ writer' = [writer EXCEPT ![w] = x]
  BY Zenon DEF Enter
<1>4. x.key = writer[w].key /\ x.kind = writer[w].kind
  BY <1>1 DEF WriterState
<1> HIDE DEF x
<1>5. ~OfBreach(NoCapture) /\ NoCapture.pc = "idle"
  BY DEF OfBreach, NoCapture
<1>6. \A v \in Writers : writer'[v].pc # "idle" /\ OfBreach(writer'[v]) =>
                           writer[v].pc # "idle" /\ OfBreach(writer[v])
  BY <1>1, <1>3, <1>4, <1>5 DEF OfBreach
<1>7. Coming' \subseteq Coming
  BY <1>6, TurnsAreFinite DEF Coming
<1>8. Cardinality(Kept') <= Cardinality(Kept)
  <2>1. Kept' \subseteq Kept
    BY <1>2 DEF Kept
  <2> QED
    BY <2>1, CountsAreNaturals, FS_Subset
<1>9. /\ posted' \in SUBSET Turns
      /\ notice' \in [Turns -> {"none", "due", "posted", "done"}]
      /\ \A t \in Turns : notice'[t] = "posted" => t \in posted'
      /\ Answered' = Answered
  BY DEF EvidenceInv, Answered
<1>10. writer'[Host].pc # "idle" => ~OfBreach(writer'[Host])
  BY <1>6, TurnsAreFinite DEF EvidenceInv
<1>11. Cardinality(Kept') + Cardinality(Coming') <= Cardinality(Answered')
  BY <1>7, <1>8, <1>9, CountKept
<1> QED
  BY <1>9, <1>10, <1>11 DEF EvidenceInv

\* The file of a failure takes the place of its capture.
LEMMA WriteKeepsCount ==
  ASSUME StoreInv, EvidenceInv, StoreInv', NEW w \in Writers, Write(w),
         UNCHANGED <<notice, posted>>
  PROVE  EvidenceInv'
<1> DEFINE file == CaseFile(writer[w].id, writer[w].key, writer[w].kind, writer[w].replayable,
                            writer[w].baseline)
<1>1. /\ writer \in [Writers -> WriterState] /\ writer[w].pc = "writing"
      /\ writer' = [writer EXCEPT ![w] = NoCapture] /\ cases' = cases \cup {file}
  BY DEF StoreInv, CasesTypeOK, Write
<1>2. OfBreach(file) <=> OfBreach(writer[w])
  BY DEF OfBreach, CaseFile
<1> HIDE DEF file
<1>3. /\ \A v \in Writers : v # w => writer'[v] = writer[v]
      /\ writer'[w].pc = "idle"
  BY <1>1, NoCaptureType
<1>4. /\ posted' \in SUBSET Turns
      /\ notice' \in [Turns -> {"none", "due", "posted", "done"}]
      /\ \A t \in Turns : notice'[t] = "posted" => t \in posted'
      /\ Answered' = Answered
  BY DEF EvidenceInv, Answered
<1>5. writer'[Host].pc # "idle" => ~OfBreach(writer'[Host])
  BY <1>3, TurnsAreFinite DEF EvidenceInv
<1>6. Cardinality(Kept') + Cardinality(Coming') <= Cardinality(Answered')
  <2>1. CASE OfBreach(file)
    <3>1. w \in Turns /\ w \in Coming
      BY <1>1, <1>2, <2>1, TurnsAreFinite DEF EvidenceInv, Coming
    <3>2. Coming' = Coming \ {w} /\ Kept' = Kept \cup {file}
      BY <1>1, <1>3, <2>1, <3>1, TurnsAreFinite DEF Coming, Kept
    <3>3. Cardinality(Coming') = Cardinality(Coming) - 1
      BY <3>1, <3>2, CountsAreNaturals, FS_RemoveElement
    <3>4. /\ Cardinality(Kept \cup {file}) \in {Cardinality(Kept), Cardinality(Kept) + 1}
      BY CountsAreNaturals, FS_AddElement
    <3>5. Cardinality(Kept) + Cardinality(Coming) <= Cardinality(Answered)
      BY DEF EvidenceInv
    <3> QED
      BY <1>4, <3>2, <3>3, <3>4, <3>5, CountsAreNaturals
  <2>2. CASE ~OfBreach(file)
    <3>1. Kept' = Kept /\ Coming' \subseteq Coming
      BY <1>1, <1>3, <2>2, TurnsAreFinite DEF Kept, Coming
    <3>2. Cardinality(Kept') <= Cardinality(Kept)
      BY <3>1, CountsAreNaturals
    <3> QED
      BY <1>4, <3>1, <3>2, CountKept
  <2> QED
    BY <2>1, <2>2
<1> QED
  BY <1>4, <1>5, <1>6 DEF EvidenceInv

\* An edit rewrites one case or takes cases away.
LEMMA EditsKeepCount ==
  ASSUME StoreInv, EvidenceInv, StoreInv', NEW id \in 1..MaxCaptures,
         AttachInput(id) \/ RemoveCase(id), UNCHANGED <<notice, posted>>
  PROVE  EvidenceInv'
<1>1. /\ posted' \in SUBSET Turns /\ writer' = writer
      /\ notice' \in [Turns -> {"none", "due", "posted", "done"}]
      /\ \A t \in Turns : notice'[t] = "posted" => t \in posted'
      /\ writer'[Host].pc # "idle" => ~OfBreach(writer'[Host])
  BY DEF EvidenceInv, AttachInput, RemoveCase
<1>2. Answered' = Answered /\ Coming' = Coming
  BY <1>1 DEF Answered, Coming
<1>3. Cardinality(Kept') <= Cardinality(Kept)
  <2>1. CASE AttachInput(id)
    <3>1. PICK c \in cases : cases' = (cases \ {c}) \cup {[c EXCEPT !.replayable = TRUE]}
      BY <2>1 DEF AttachInput
    <3> DEFINE d == [c EXCEPT !.replayable = TRUE]
    <3>2. d.key = c.key /\ d.kind = c.kind
      BY DEF StoreInv, CasesTypeOK, CaseRecord
    <3>3. OfBreach(d) <=> OfBreach(c)
      BY <3>2 DEF OfBreach
    <3> HIDE DEF d
    <3>4. CASE OfBreach(c)
      <4>1. Kept' = (Kept \ {c}) \cup {d} /\ c \in Kept
        BY <3>1, <3>3, <3>4 DEF Kept, d
      <4>2. IsFiniteSet(Kept \ {c}) /\ Cardinality(Kept \ {c}) = Cardinality(Kept) - 1
        BY <4>1, CountsAreNaturals, FS_RemoveElement
      <4>3. Cardinality((Kept \ {c}) \cup {d})
              \in {Cardinality(Kept \ {c}), Cardinality(Kept \ {c}) + 1}
        BY <4>2, FS_AddElement
      <4> QED
        BY <4>1, <4>2, <4>3, CountsAreNaturals
    <3>5. CASE ~OfBreach(c)
      <4>1. Kept' \subseteq Kept
        BY <3>1, <3>3, <3>5 DEF Kept, d
      <4> QED
        BY <4>1, CountsAreNaturals, FS_Subset
    <3> QED
      BY <3>4, <3>5
  <2>2. CASE RemoveCase(id)
    <3>1. Kept' \subseteq Kept
      BY <2>2 DEF RemoveCase, Kept
    <3> QED
      BY <3>1, CountsAreNaturals, FS_Subset
  <2> QED
    BY <2>1, <2>2
<1>4. Cardinality(Kept') + Cardinality(Coming') <= Cardinality(Answered')
  BY <1>1, <1>2, <1>3, CountKept
<1> QED
  BY <1>1, <1>4 DEF EvidenceInv

\* The restart ends every capture; every notice that was under way is dealt with.
LEMMA RestartKeepsCount ==
  ASSUME StoreInv, EvidenceInv, StoreInv', Restart
  PROVE  EvidenceInv'
<1>1. /\ cases' = cases /\ posted' = posted
      /\ \A w \in Writers : writer'[w].pc = "idle"
      /\ notice' = [t \in Turns |-> IF notice[t] = "none" THEN "none" ELSE "done"]
  BY NoCaptureType DEF Restart, CasesRestart
<1>2. /\ posted' \in SUBSET Turns
      /\ notice' \in [Turns -> {"none", "due", "posted", "done"}]
      /\ \A t \in Turns : notice'[t] = "posted" => t \in posted'
      /\ \A t \in Turns : notice[t] = "done" => notice'[t] = "done"
  BY <1>1 DEF EvidenceInv
<1>3. writer'[Host].pc = "idle"
  BY <1>1, TurnsAreFinite
<1>4. Kept' = Kept /\ Coming' = {} /\ Answered \subseteq Answered'
  BY <1>1, <1>2, TurnsAreFinite DEF Kept, Coming, Answered, EvidenceInv
<1>5. Cardinality(Kept') <= Cardinality(Kept)
  BY <1>4, CountsAreNaturals
<1>6. Cardinality(Kept') + Cardinality(Coming') <= Cardinality(Answered')
  BY <1>2, <1>4, <1>5, CountKept
<1> QED
  BY <1>2, <1>3, <1>6 DEF EvidenceInv

LEMMA InitEvidence ==
  ASSUME Init
  PROVE  EvidenceInv
<1>1. PICK s \in Scenarios : CasesInit(s.files)
  BY DEF Init
<1>2. /\ cases = s.files /\ \A c \in s.files : ~OfBreach(c)
      /\ \A w \in Writers : writer[w].pc = "idle"
      /\ notice = [t \in Turns |-> "none"] /\ posted = {}
  BY <1>1, ScenariosStart, NoCaptureType DEF CasesInit, Init
<1>3. Kept = {} /\ Coming = {} /\ Answered = {}
  BY <1>2, TurnsAreFinite DEF Kept, Coming, Answered
<1>4. Cardinality(Kept) + Cardinality(Coming) <= Cardinality(Answered)
  BY <1>3, FS_EmptySet
<1>5. writer[Host].pc = "idle"
  BY <1>2, TurnsAreFinite
<1> QED
  BY <1>2, <1>4, <1>5 DEF EvidenceInv

LEMMA NextEvidence ==
  ASSUME StoreInv, EvidenceInv, StoreInv', [Next]_vars
  PROVE  EvidenceInv'
<1>1. CASE \E t \in Turns : Keep(t)
  <2>1. PICK t \in Turns : Keep(t)
    BY <1>1
  <2>2. CASE ~UNCHANGED caseVars
    BY <2>1, <2>2, KeepStep
  <2>3. CASE UNCHANGED caseVars
    <3>1. /\ notice[t] = "posted" /\ notice' = [notice EXCEPT ![t] = "done"]
          /\ UNCHANGED <<posted, cases, writer>>
      BY <2>1, <2>3 DEF Keep, caseVars
    <3> QED
      BY <3>1, NoticeSteps
  <2> QED
    BY <2>2, <2>3
<1>2. CASE \E t \in Turns : Due(t) \/ Post(t) \/ PostFails(t)
  <2>1. UNCHANGED <<cases, writer>>
    BY <1>2 DEF Due, Post, PostFails, caseVars
  <2>2. \E t \in Turns :
          \/ notice[t] = "none" /\ notice' = [notice EXCEPT ![t] = "due"] /\ posted' = posted
          \/ /\ notice[t] = "due" /\ notice' = [notice EXCEPT ![t] = "posted"]
             /\ posted' = posted \cup {t}
          \/ notice[t] \in {"due", "posted"} /\ notice' = [notice EXCEPT ![t] = "done"]
             /\ posted' = posted
    BY <1>2, Zenon DEF Due, Post, PostFails
  <2> QED
    BY <2>1, <2>2, NoticeSteps
<1>3. CASE HostCaptures
  BY <1>3, HostCapturesStep
<1>4. CASE Store
  <2>1. UNCHANGED <<notice, posted>> /\ \E w \in Writers : Enter(w) \/ Write(w)
    BY <1>4 DEF Store
  <2> QED
    BY <2>1, EnterKeepsCount, WriteKeepsCount
<1>5. CASE HostEdits
  <2>1. UNCHANGED <<notice, posted>> /\ \E id \in 1..MaxCaptures : AttachInput(id) \/ RemoveCase(id)
    BY <1>5 DEF HostEdits
  <2> QED
    BY <2>1, EditsKeepCount
<1>6. CASE Restart
  BY <1>6, RestartKeepsCount
<1>7. CASE Gate \/ Rounds \/ Replay \/ UNCHANGED vars
  <2>1. UNCHANGED <<cases, writer, notice, posted>>
    BY <1>7 DEF Gate, Rounds, Replay, vars, caseVars
  <2> QED
    BY <2>1, NoticeSteps
<1> QED
  BY <1>1, <1>2, <1>3, <1>4, <1>5, <1>6, <1>7 DEF Next

\* The inductive invariant of the failures and their notices.
THEOREM EvidenceInvariant == Spec => []EvidenceInv
<1>1. Init => EvidenceInv
  BY InitEvidence
<1>2. StoreInv /\ EvidenceInv /\ StoreInv' /\ [Next]_vars => EvidenceInv'
  BY NextEvidence
<1> QED
  BY <1>1, <1>2, StoreInvariant, PTL DEF Spec

\* hook/core.py:707: "Only breach-severity notices become failure cases."  The
\* failures kept of the gated session are never more than the notices in its
\* mailbox, whichever write fails and wherever the process dies, for any number of
\* turns.
THEOREM FailuresFollowNotices == Spec => []CaseFollowsNotice
<1>1. StoreInv /\ EvidenceInv => CaseFollowsNotice
  <2> SUFFICES ASSUME StoreInv, EvidenceInv PROVE CaseFollowsNotice
    OBVIOUS
  <2>1. Cardinality(Kept) + Cardinality(Coming) <= Cardinality(Answered)
    BY DEF EvidenceInv
  <2>2. IsFiniteSet(posted) /\ Cardinality(posted) \in Nat
    BY TurnsAreFinite, FS_Subset, FS_CardinalityType DEF EvidenceInv
  <2>3. Answered \subseteq posted
    BY DEF Answered
  <2>4. Cardinality(Answered) <= Cardinality(posted)
    BY <2>2, <2>3, FS_Subset
  <2>5. Cardinality(Kept) <= Cardinality(posted)
    BY <2>1, <2>2, <2>4, CountsAreNaturals
  <2> QED
    BY <2>5 DEF CaseFollowsNotice, Kept
<1> QED
  BY <1>1, StoreInvariant, EvidenceInvariant, PTL

-----------------------------------------------------------------------------
(* The gate in the system                                                  *)

\* The system runs the gate: what is proved of every behaviour of the gate holds of
\* every behaviour of the system, which bounds it by its scenarios.
THEOREM SystemRunsTheGate == Spec => GateSpec
<1>1. Init => GateInit
  BY DEF Init
<1>2. [Next]_vars => [GateNext]_gateVars
  <2> SUFFICES ASSUME [Next]_vars PROVE [GateNext]_gateVars
    OBVIOUS
  <2>1. CASE Gate
    BY <2>1 DEF Gate, GateNext
  <2>2. CASE Restart
    BY <2>2 DEF Restart, GateNext
  <2>3. CASE \/ HostCaptures \/ Store \/ HostEdits \/ Rounds \/ Replay \/ UNCHANGED vars
             \/ \E t \in Turns : Due(t) \/ Post(t) \/ PostFails(t) \/ Keep(t)
    <3>1. UNCHANGED gateVars
      BY <2>3
         DEF HostCaptures, Store, HostEdits, Rounds, Replay, vars, Due, Post, PostFails, Keep
    <3> QED
      BY <3>1
  <2> QED
    BY <2>1, <2>2, <2>3 DEF Next
<1> QED
  BY <1>1, <1>2, PTL DEF Spec, GateSpec

\* What is proved of a series is true in the system: the peak is the best of its
\* scores, a stall is a whole window away from the last one, and a climb does not fire
\* unless a restart or an early fold has disturbed it.
THEOREM GateHolds == Spec => [](PeakTracksBest /\ StallsSpaced /\ ClimbFiresOnlyDisturbed)
BY SystemRunsTheGate, PeakIsKept, StallsKeepTheirDistance, ClimbingDoesNotFire, PTL

-----------------------------------------------------------------------------
(* The rounds in the system                                                *)

\* A round moves on, or is lost, or the files change under it.
LEMMA NextRound ==
  ASSUME RoundInv, StoreInv, [Next]_vars
  PROVE  RoundInv'
<1>1. CASE Rounds \/ Replay
  <2>1. ReplayNext /\ UNCHANGED <<cases, created, writer>>
    BY <1>1 DEF Rounds, Replay, ReplayNext, caseVars
  <2> QED
    BY <2>1, ReplayKeeps
<1>2. CASE Restart
  <2>1. ReplayInit'
    BY <1>2 DEF Restart, ReplayRestart, ReplayInit
  <2>2. ReplayInit' => RoundInv'
    BY RoundStarts, PTL
  <2> QED
    BY <2>1, <2>2
<1>3. CASE ~(Rounds \/ Replay \/ Restart)
  <2>1. UNCHANGED replayVars
    BY <1>3
       DEF Next, Gate, HostCaptures, Store, HostEdits, vars, Due, Post, PostFails, Keep
  <2> QED
    BY <2>1, NextStoreStep, FilesKeepRounds
<1> QED
  BY <1>1, <1>2, <1>3

\* The inductive invariant of the rounds.
THEOREM RoundInvariant == Spec => []RoundInv
<1>1. Init => RoundInv
  BY RoundStarts DEF Init
<1>2. RoundInv /\ StoreInv /\ [Next]_vars => RoundInv'
  BY NextRound
<1> QED
  BY <1>1, <1>2, StoreInvariant, PTL DEF Spec

\* validation/validator.py:323: a replay that "never read the candidate" is no
\* verdict on it: a promotion or a retirement rests on scored cases of a round whose
\* candidate was read, a promotion on a failure among them and on no win that went
\* down, for any cases and margins and whatever is captured or removed meanwhile.
THEOREM VerdictsAreJustified == Spec => []VerdictJustified
<1>1. RoundInv => VerdictJustified
  BY DEF RoundInv
<1> QED
  BY <1>1, RoundInvariant, PTL

\* validation/regression.py:223: "``win`` cases run first (they are the regression
\* guard)": a run that spends its sample on a failure has taken every win there was,
\* and replays no win after a failure, for any sample and case set.
THEOREM WinsComeFirst == Spec => []WinsGuardFirst
<1>1. RoundInv => WinsGuardFirst
  BY GuardsAreFirst
<1> QED
  BY <1>1, RoundInvariant, PTL

\* Every variable of the evidence keeps its shape: the scores and states of the gate,
\* the case files and their writers, the rounds, and the notices.
THEOREM TypeCorrect == Spec => []TypeOK
<1>1. GateTypeOK /\ StoreInv /\ RoundInv /\ EvidenceInv => TypeOK
  BY DEF TypeOK, StoreInv, RoundInv, EvidenceInv
<1>2. Spec => []GateTypeOK
  BY SystemRunsTheGate, GateTypeCorrect
<1> QED
  BY <1>1, <1>2, StoreInvariant, RoundInvariant, EvidenceInvariant, PTL

=============================================================================
