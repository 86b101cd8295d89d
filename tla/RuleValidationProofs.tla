----------------------- MODULE RuleValidationProofs -----------------------
(***************************************************************************)
(* Theorems about RuleValidation, for every number of rules, sessions,     *)
(* attempts and every window size: shapes, the window and its evidence,    *)
(* one decision per rule, what a retirement by the forward trial rests on, *)
(* what a settled caller has waited for, and the rule's life cycle.        *)
(***************************************************************************)
EXTENDS RuleValidation, FiniteSetTheorems, WellFoundedInduction, TLAPS

-----------------------------------------------------------------------------
(* Operators *)

\* Every non-empty set of naturals has a least member.
LEMMA LeastNatural ==
  ASSUME NEW T \in SUBSET Nat, T # {}
  PROVE  \E least \in T : \A q \in T : least <= q
<1> DEFINE R == OpToRel(<, Nat)
<1>1. IsWellFoundedOn(R, Nat)
  BY NatLessThanWellFounded
<1>2. \A x, y \in Nat : y < x => <<y, x>> \in R
  BY DEF OpToRel
<1> HIDE DEF R
<1>3. PICK least \in T : \A q \in T : <<q, least>> \notin R
  BY <1>1, WFMin
<1>4. \A q \in T : ~ (q < least)
  BY <1>2, <1>3
<1> QED
  BY <1>4

\* A round that still has candidates takes one of them next.
LEMMA UpcomingIsInTodo ==
  ASSUME NEW todo \in SUBSET RuleIds, todo # {}, NEW pivot
  PROVE  Upcoming(todo, pivot) \in todo
<1> DEFINE later == {r \in todo : r > pivot}
           pool == IF later # {} THEN later ELSE todo
<1>0. RuleIds \subseteq Nat
  BY DEF RuleIds
<1>1. pool \in SUBSET Nat /\ pool # {}
  <2>1. CASE later = {}
    BY <1>0, <2>1
  <2>2. CASE later # {}
    BY <1>0, <2>2
  <2> QED
    BY <2>1, <2>2
<1>2. PICK least \in pool : \A q \in pool : least <= q
  BY <1>1, LeastNatural
<1>3. Upcoming(todo, pivot) = CHOOSE r \in pool : \A q \in pool : r <= q
  BY DEF Upcoming
<1>4. pool \subseteq todo
  OBVIOUS
<1> HIDE DEF pool
<1>5. Upcoming(todo, pivot) \in pool
  BY <1>2, <1>3
<1> QED
  BY <1>4, <1>5

\* The records a rule, a trial and a round start from have their types.
LEMMA FreshRecords ==
  /\ NoVerdict \in Verdict
  /\ NewTrial \in TrialState
  /\ NoRound \in RoundState
<1>1. NoVerdict \in Verdict
  BY DEF Verdict
<1>2. NewTrial \in TrialState
  BY <1>1 DEF NewTrial, TrialState
<1>3. NoRound \in RoundState
  BY <1>1, <1>2, CountsAreNaturals DEF NoRound, RoundState
<1> QED
  BY <1>1, <1>2, <1>3

\* A new iteration keeps the round's list and its pivot.
LEMMA LoopHeadType ==
  ASSUME NEW x \in RoundState
  PROVE  /\ LoopHead(x) \in RoundState
         /\ LoopHead(x).pc = "next"
<1>1. 0 \in 0..MaxRules
  BY CountsAreNaturals
<1>2. LoopHead(x) \in RoundState
  BY <1>1, FreshRecords DEF LoopHead, RoundState
<1>3. LoopHead(x).pc = "next"
  BY DEF LoopHead, RoundState
<1> QED
  BY <1>2, <1>3

\* A verdict keeps the round a round, on the rule it judged.
LEMMA JudgedType ==
  ASSUME NEW x \in RoundState, NEW outcome \in Verdicts, NEW by \in {"replay", "forward"}
  PROVE  /\ Judged(x, outcome, by) \in RoundState
         /\ Judged(x, outcome, by).pc = "stamping"
         /\ Judged(x, outcome, by).rule = x.rule
<1>1. [outcome |-> outcome, by |-> by] \in Verdict
  BY DEF Verdict
<1> QED
  BY <1>1, FreshRecords DEF Judged, RoundState

\* Observing a session on a trial leaves a trial.
LEMMA ObservedType ==
  ASSUME NEW t \in TrialState, NEW s \in Sessions, NEW failed
  PROVE  Observed(t, s, failed) \in TrialState
BY DEF Observed, TrialState

\* update_trial() leaves every rule with a trial.
LEMMA UpdateTrialType ==
  ASSUME TypeOK, NEW r \in RuleIds, NEW new \in TrialState, UpdateTrial(r, new)
  PROVE  trial' \in [RuleIds -> TrialState]
BY DEF TypeOK, UpdateTrial

\* The candidates are some of the rules.
LEMMA CandidatesAreRules == Candidates \in SUBSET RuleIds
BY DEF Candidates

-----------------------------------------------------------------------------
(* Shapes.  A round that orders its candidates has some, and a round past  *)
(* its loop head works on a rule: without these two the shape of the       *)
(* cursor and of the trials would not be inductive.                        *)

Working == {"replaying", "bumping", "weighing", "stamping", "applying"}
RoundConsistent(x) ==
  /\ x.pc = "ordering" => x.todo # {}
  /\ x.pc \in Working => x.rule \in RuleIds
RoundsConsistent == \A w \in Rounds : RoundConsistent(round[w])

TypeInv == TypeOK /\ RoundsConsistent

\* Replacing one round by a consistent one.
LEMMA OneRound ==
  ASSUME TypeInv, NEW w \in Rounds, NEW x \in RoundState, RoundConsistent(x),
         round' = [round EXCEPT ![w] = x]
  PROVE  round' \in [Rounds -> RoundState] /\ RoundsConsistent'
BY DEF TypeInv, TypeOK, RoundsConsistent, RoundConsistent

\* An empty store with nothing under way has the right shape.
THEOREM TypeInit == Init => TypeInv
<1> SUFFICES ASSUME Init PROVE TypeInv
  OBVIOUS
<1>1. TypeOK
  BY FreshRecords, CountsAreNaturals DEF Init, TypeOK, NoReport
<1>2. RoundsConsistent
  BY DEF Init, RoundsConsistent, RoundConsistent, NoRound, Working
<1> QED
  BY <1>1, <1>2 DEF TypeInv

\* The call returns, wherever its round stood.
LEMMA FinishType ==
  ASSUME TypeInv, NEW w \in Rounds, NEW decided \in BOOLEAN, Finish(w, decided)
  PROVE  TypeInv'
<1>1. round' \in [Rounds -> RoundState] /\ RoundsConsistent'
  BY OneRound, FreshRecords DEF Finish, RoundConsistent, NoRound, Working
<1>2. /\ settler' \in [Callers -> {"out", "draining", "drained", "rounding"}]
      /\ settled' \in SUBSET Callers
  BY DEF TypeInv, TypeOK, Finish
<1> QED
  BY <1>1, <1>2 DEF TypeInv, TypeOK, Finish

\* A round's own step that leaves the store, the reports and the callers alone.
LEMMA RoundOnlyType ==
  ASSUME TypeInv, NEW w \in Rounds, NEW x \in RoundState, RoundConsistent(x),
         round' = [round EXCEPT ![w] = x],
         UNCHANGED <<status, report, settler, settled, quiet>>,
         trial' \in [RuleIds -> TrialState], cursor' \in 0..MaxRules
  PROVE  TypeInv'
<1>1. round' \in [Rounds -> RoundState] /\ RoundsConsistent'
  BY OneRound
<1> QED
  BY <1>1 DEF TypeInv, TypeOK

\* A step of a round keeps every shape, whoever runs the round.
LEMMA RoundStepType ==
  ASSUME TypeInv, NEW w \in Rounds, RoundStep(w)
  PROVE  TypeInv'
<1> DEFINE x == round[w]
           r == x.rule
<1>0. /\ x \in RoundState
      /\ RoundConsistent(x)
      /\ trial \in [RuleIds -> TrialState]
      /\ cursor \in 0..MaxRules
      /\ status \in [RuleIds -> {"absent", "candidate", "active", "retired"}]
  BY DEF TypeInv, TypeOK, RoundsConsistent
<1>1. CASE RoundLoad(w)
  <2>1. CASE Candidates = {}
    BY <1>1, <2>1, FinishType DEF RoundLoad
  <2>2. CASE Candidates # {}
    <3> DEFINE y == [x EXCEPT !.pc = "ordering", !.todo = Candidates]
    <3>1. y \in RoundState /\ RoundConsistent(y)
      BY <1>0, <2>2, CandidatesAreRules DEF RoundState, RoundConsistent, Working
    <3>2. round' = [round EXCEPT ![w] = y]
      BY <1>1, <2>2 DEF RoundLoad
    <3>3. UNCHANGED <<status, trial, cursor, report, settler, settled, quiet>>
      BY <1>1, <2>2 DEF RoundLoad
    <3> HIDE DEF y
    <3> QED
      BY <1>0, <3>1, <3>2, <3>3, RoundOnlyType
  <2> QED
    BY <2>1, <2>2
<1>2. CASE RoundOrder(w)
  <2> DEFINE pivot == IF cursor \in x.todo THEN cursor ELSE 0
             y == [x EXCEPT !.pc = "next", !.pivot = pivot]
  <2>1. pivot \in 0..MaxRules
    BY <1>0, CountsAreNaturals
  <2>2. x.todo \in SUBSET RuleIds /\ x.todo # {}
    BY <1>0, <1>2 DEF RoundOrder, RoundState, RoundConsistent
  <2>3. cursor' = Upcoming(x.todo, pivot)
    BY <1>2 DEF RoundOrder
  <2>4. round' = [round EXCEPT ![w] = y]
    BY <1>2 DEF RoundOrder
  <2> HIDE DEF pivot
  <2>5. cursor' \in RuleIds
    BY <2>2, <2>3, UpcomingIsInTodo
  <2>6. cursor' \in 0..MaxRules
    BY <2>5, CountsAreNaturals DEF RuleIds
  <2>7. y \in RoundState /\ RoundConsistent(y)
    BY <1>0, <2>1 DEF RoundState, RoundConsistent, Working
  <2> HIDE DEF y
  <2> QED
    BY <1>0, <1>2, <2>4, <2>6, <2>7, RoundOnlyType DEF RoundOrder
<1>3. CASE RoundTake(w)
  <2> DEFINE q == Upcoming(x.todo, x.pivot)
             rest == x.todo \ {q}
  <2>1. x.todo \in SUBSET RuleIds /\ x.todo # {} /\ x.pc = "next"
    BY <1>0, <1>3 DEF RoundTake, RoundState
  <2>2. q \in RuleIds
    BY <2>1, UpcomingIsInTodo
  <2>3. rest \in SUBSET RuleIds
    BY <2>1
  <2>4. UNCHANGED <<status, trial, cursor, report, settler, settled, quiet>>
    BY <1>3 DEF RoundTake
  <2>5. CASE status[q] # "candidate"
    <3> DEFINE y == [x EXCEPT !.todo = rest]
    <3>1. round' = [round EXCEPT ![w] = y]
      BY <1>3, <2>5 DEF RoundTake
    <3> HIDE DEF q
    <3>2. y \in RoundState /\ RoundConsistent(y)
      BY <1>0, <2>1, <2>3 DEF RoundState, RoundConsistent, Working
    <3> HIDE DEF y
    <3> QED
      BY <1>0, <2>4, <3>1, <3>2, RoundOnlyType
  <2>6. CASE status[q] = "candidate"
    <3>1. PICK late \in BOOLEAN : round' = [round EXCEPT
             ![w].todo = rest, ![w].rule = q, ![w].snap = trial[q],
             ![w].late = late,
             ![w].pc = IF /\ ReplayOutcomes # {}
                          /\ ~late
                          /\ trial[q].attempts < MaxReplayAttempts
                       THEN "replaying" ELSE "weighing"]
      BY <1>3, <2>6 DEF RoundTake
    <3> DEFINE pc == IF /\ ReplayOutcomes # {}
                        /\ ~late
                        /\ trial[q].attempts < MaxReplayAttempts
                     THEN "replaying" ELSE "weighing"
               y == [x EXCEPT !.todo = rest, !.rule = q, !.snap = trial[q],
                              !.late = late, !.pc = pc]
    <3>2. round' = [round EXCEPT ![w] = y]
      BY <1>0, <3>1 DEF TypeInv, TypeOK
    <3>3. pc \in {"replaying", "weighing"}
      OBVIOUS
    <3> HIDE DEF q, pc
    <3>4. trial[q] \in TrialState /\ q \in 0..MaxRules
      BY <1>0, <2>2, CountsAreNaturals DEF RuleIds
    <3>5. y \in RoundState /\ RoundConsistent(y)
      BY <1>0, <2>2, <2>3, <3>3, <3>4 DEF RoundState, RoundConsistent
    <3> HIDE DEF y
    <3> QED
      BY <1>0, <2>4, <3>2, <3>5, RoundOnlyType
  <2> QED
    BY <2>5, <2>6
<1>4. ASSUME NEW outcome \in ReplayOutcomes, RoundReplay(w, outcome)
      PROVE  TypeInv'
  <2>1. UNCHANGED <<status, trial, cursor, report, settler, settled, quiet>>
    BY <1>4 DEF RoundReplay
  <2>2. x.pc = "replaying" /\ r \in RuleIds
    BY <1>0, <1>4 DEF RoundReplay, RoundConsistent, Working
  <2>3. CASE outcome \in Verdicts
    <3>1. round' = [round EXCEPT ![w] = Judged(x, outcome, "replay")]
      BY <1>4, <2>3 DEF RoundReplay, Verdicts
    <3>2. /\ Judged(x, outcome, "replay") \in RoundState
          /\ RoundConsistent(Judged(x, outcome, "replay"))
      BY <1>0, <2>2, <2>3, JudgedType DEF RoundConsistent
    <3> QED
      BY <1>0, <2>1, <3>1, <3>2, RoundOnlyType
  <2>4. CASE outcome = "pending"
    <3> DEFINE y == [x EXCEPT !.pc = "bumping"]
    <3>1. round' = [round EXCEPT ![w] = y]
      BY <1>4, <2>4 DEF RoundReplay, Verdicts
    <3>2. y \in RoundState /\ RoundConsistent(y)
      BY <1>0, <2>2 DEF RoundState, RoundConsistent
    <3> HIDE DEF y
    <3> QED
      BY <1>0, <2>1, <3>1, <3>2, RoundOnlyType
  <2>5. CASE outcome \notin Verdicts /\ outcome # "pending"
    <3>1. round' = [round EXCEPT ![w] = LoopHead(x)]
      BY <1>4, <2>5 DEF RoundReplay
    <3>2. LoopHead(x) \in RoundState /\ RoundConsistent(LoopHead(x))
      BY <1>0, LoopHeadType DEF RoundConsistent, Working
    <3> QED
      BY <1>0, <2>1, <3>1, <3>2, RoundOnlyType
  <2> QED
    BY <2>3, <2>4, <2>5
<1>5. CASE RoundBump(w)
  <2> DEFINE y == [x EXCEPT !.pc = "weighing"]
             new == [trial[r] EXCEPT !.attempts = @ + 1]
  <2>1. r \in RuleIds
    BY <1>0, <1>5 DEF RoundBump, RoundConsistent, Working
  <2>2. new \in TrialState
    BY <1>0, <2>1 DEF TrialState
  <2>3. UpdateTrial(r, new)
    BY <1>5 DEF RoundBump
  <2>4. round' = [round EXCEPT ![w] = y]
    BY <1>5 DEF RoundBump
  <2> HIDE DEF new
  <2>5. trial' \in [RuleIds -> TrialState]
    BY <2>1, <2>2, <2>3, UpdateTrialType DEF TypeInv
  <2>6. y \in RoundState /\ RoundConsistent(y)
    BY <1>0, <2>1 DEF RoundState, RoundConsistent
  <2> HIDE DEF y
  <2> QED
    BY <1>0, <1>5, <2>4, <2>5, <2>6, RoundOnlyType DEF RoundBump
<1>6. CASE RoundWeigh(w)
  <2> DEFINE outcome == ForwardVerdict(r, x.snap)
  <2>1. UNCHANGED <<status, trial, cursor, report, settler, settled, quiet>>
    BY <1>6 DEF RoundWeigh
  <2>2. r \in RuleIds
    BY <1>0, <1>6 DEF RoundWeigh, RoundConsistent, Working
  <2>3. CASE outcome = "pending"
    <3>1. round' = [round EXCEPT ![w] = LoopHead(x)]
      BY <1>6, <2>3 DEF RoundWeigh
    <3>2. LoopHead(x) \in RoundState /\ RoundConsistent(LoopHead(x))
      BY <1>0, LoopHeadType DEF RoundConsistent, Working
    <3> QED
      BY <1>0, <2>1, <3>1, <3>2, RoundOnlyType
  <2>4. CASE outcome # "pending"
    <3>1. outcome \in Verdicts
      BY <2>4 DEF ForwardVerdict, Verdicts
    <3>2. round' = [round EXCEPT ![w] = Judged(x, outcome, "forward")]
      BY <1>6, <2>4 DEF RoundWeigh
    <3> HIDE DEF outcome
    <3>3. /\ Judged(x, outcome, "forward") \in RoundState
          /\ RoundConsistent(Judged(x, outcome, "forward"))
      BY <1>0, <2>2, <3>1, JudgedType DEF RoundConsistent
    <3> QED
      BY <1>0, <2>1, <3>2, <3>3, RoundOnlyType
  <2> QED
    BY <2>3, <2>4
<1>7. CASE RoundStamp(w)
  <2> DEFINE y == IF status[r] = "candidate" THEN [x EXCEPT !.pc = "applying"]
                  ELSE LoopHead(x)
             new == [trial[r] EXCEPT !.verdict = x.verdict]
  <2>1. r \in RuleIds
    BY <1>0, <1>7 DEF RoundStamp, RoundConsistent, Working
  <2>2. new \in TrialState
    BY <1>0, <2>1 DEF TrialState, RoundState
  <2>3. UpdateTrial(r, new)
    BY <1>7 DEF RoundStamp
  <2>4. round' = [round EXCEPT ![w] = y]
    BY <1>7 DEF RoundStamp
  <2> HIDE DEF new
  <2>5. trial' \in [RuleIds -> TrialState]
    BY <2>1, <2>2, <2>3, UpdateTrialType DEF TypeInv
  <2>6. y \in RoundState /\ RoundConsistent(y)
    <3>1. [x EXCEPT !.pc = "applying"] \in RoundState
      BY <1>0 DEF RoundState
    <3>2. RoundConsistent([x EXCEPT !.pc = "applying"])
      BY <1>0, <2>1 DEF RoundState, RoundConsistent
    <3>3. LoopHead(x) \in RoundState /\ RoundConsistent(LoopHead(x))
      BY <1>0, LoopHeadType DEF RoundConsistent, Working
    <3> QED
      BY <3>1, <3>2, <3>3
  <2> HIDE DEF y
  <2> QED
    BY <1>0, <1>7, <2>4, <2>5, <2>6, RoundOnlyType DEF RoundStamp
<1>8. CASE RoundApply(w)
  <2>1. round' = [round EXCEPT ![w] = LoopHead(x)]
    BY <1>8 DEF RoundApply
  <2>2. LoopHead(x) \in RoundState /\ RoundConsistent(LoopHead(x))
    BY <1>0, LoopHeadType DEF RoundConsistent, Working
  <2>3. round' \in [Rounds -> RoundState] /\ RoundsConsistent'
    BY <2>1, <2>2, OneRound
  <2>4. status' \in [RuleIds -> {"absent", "candidate", "active", "retired"}]
    BY <1>0, <1>8 DEF RoundApply, Transition
  <2> QED
    BY <1>8, <2>3, <2>4 DEF RoundApply, TypeInv, TypeOK
<1>9. CASE RoundFinish(w)
  BY <1>0, <1>9, FinishType DEF RoundFinish, RoundState
<1> QED
  BY <1>1, <1>2, <1>3, <1>4, <1>5, <1>6, <1>7, <1>8, <1>9 DEF RoundStep

\* A step of a report's observation keeps every shape.
LEMMA ObserverType ==
  ASSUME TypeInv, NEW s \in Sessions,
         \/ \E matched \in SUBSET RuleIds : Report(s, matched)
         \/ \E r \in RuleIds : Observe(s, r)
         \/ ReportHandled(s)
         \/ ReportSuperseded(s)
  PROVE  TypeInv'
<1>1. ASSUME NEW matched \in SUBSET RuleIds, Report(s, matched)
      PROVE  TypeInv'
  BY <1>1, CandidatesAreRules
  DEF Report, TypeInv, TypeOK, RoundsConsistent, RoundConsistent
<1>2. ASSUME NEW r \in RuleIds, Observe(s, r)
      PROVE  TypeInv'
  <2> DEFINE new == Observed(trial[r], s, r \in report[s].matched)
  <2>0. trial[r] \in TrialState
    BY DEF TypeInv, TypeOK
  <2>1. new \in TrialState
    BY <2>0, ObservedType
  <2>2. UpdateTrial(r, new)
    BY <1>2 DEF Observe
  <2> HIDE DEF new
  <2>3. trial' \in [RuleIds -> TrialState]
    BY <2>1, <2>2, UpdateTrialType DEF TypeInv
  <2>4. report' \in [Sessions -> [pc : {"idle", "observing"}, todo : SUBSET RuleIds,
                                  matched : SUBSET RuleIds]]
    BY <1>2 DEF Observe, TypeInv, TypeOK
  <2> QED
    BY <1>2, <2>3, <2>4
    DEF Observe, TypeInv, TypeOK, RoundsConsistent, RoundConsistent
<1>3. CASE ReportHandled(s)
  <2>1. report' \in [Sessions -> [pc : {"idle", "observing"}, todo : SUBSET RuleIds,
                                  matched : SUBSET RuleIds]]
    BY <1>3 DEF ReportHandled, NoReport, TypeInv, TypeOK
  <2>2. round' \in [Rounds -> RoundState] /\ RoundsConsistent'
    <3>1. CASE round[Background].pc = "idle"
      <4> DEFINE y == [round[Background] EXCEPT !.pc = "loading"]
      <4>1. Background \in Rounds
        BY DEF Rounds
      <4>0. round[Background] \in RoundState
        BY <4>1 DEF TypeInv, TypeOK
      <4>2. y \in RoundState /\ RoundConsistent(y)
        BY <4>0 DEF RoundState, RoundConsistent, Working
      <4>3. round' = [round EXCEPT ![Background] = y]
        BY <1>3, <3>1 DEF ReportHandled
      <4> HIDE DEF y
      <4> QED
        BY <4>1, <4>2, <4>3, OneRound
    <3>2. CASE round[Background].pc # "idle"
      BY <1>3, <3>2
      DEF ReportHandled, TypeInv, TypeOK, RoundsConsistent, RoundConsistent
    <3> QED
      BY <3>1, <3>2
  <2> QED
    BY <1>3, <2>1, <2>2 DEF ReportHandled, TypeInv, TypeOK
<1>4. CASE ReportSuperseded(s)
  BY <1>4
  DEF ReportSuperseded, NoReport, TypeInv, TypeOK, RoundsConsistent, RoundConsistent
<1> QED
  BY <1>1, <1>2, <1>3, <1>4

\* A call starts a round of the caller's own.
LEMMA LoadingType ==
  ASSUME TypeInv, NEW c \in Callers, round' = [round EXCEPT ![c].pc = "loading"]
  PROVE  round' \in [Rounds -> RoundState] /\ RoundsConsistent'
<1> DEFINE y == [round[c] EXCEPT !.pc = "loading"]
<1>1. c \in Rounds
  BY DEF Rounds
<1>2. y \in RoundState /\ RoundConsistent(y)
  BY <1>1 DEF TypeInv, TypeOK, RoundState, RoundConsistent, Working
<1> HIDE DEF y
<1> QED
  BY <1>1, <1>2, OneRound DEF y

\* A step of a caller of settle_validation or validate_candidates does too.
LEMMA CallerType ==
  ASSUME TypeInv, NEW c \in Callers,
         \/ SettleValidation(c) \/ SettleDrained(c) \/ SettleRound(c)
         \/ SettleTimeout(c) \/ ValidateCandidates(c)
  PROVE  TypeInv'
<1> DEFINE States == {"out", "draining", "drained", "rounding"}
<1>1. CASE SettleValidation(c)
  BY <1>1 DEF SettleValidation, Call, TypeInv, TypeOK, RoundsConsistent, RoundConsistent
<1>2. CASE SettleDrained(c)
  BY <1>2 DEF SettleDrained, TypeInv, TypeOK, RoundsConsistent, RoundConsistent
<1>3. CASE SettleRound(c)
  <2>1. round' \in [Rounds -> RoundState] /\ RoundsConsistent'
    BY <1>3, LoadingType DEF SettleRound
  <2> QED
    BY <1>3, <2>1 DEF SettleRound, TypeInv, TypeOK
<1>4. CASE SettleTimeout(c)
  BY <1>4 DEF SettleTimeout, TypeInv, TypeOK, RoundsConsistent, RoundConsistent
<1>5. CASE ValidateCandidates(c)
  <2>1. round' \in [Rounds -> RoundState] /\ RoundsConsistent'
    BY <1>5, LoadingType DEF ValidateCandidates
  <2> QED
    BY <1>5, <2>1 DEF ValidateCandidates, Call, TypeInv, TypeOK
<1> QED
  BY <1>1, <1>2, <1>3, <1>4, <1>5

\* So the shapes are inductive.
LEMMA TypeStep == TypeInv /\ [Next]_vars => TypeInv'
<1> SUFFICES ASSUME TypeInv, [Next]_vars PROVE TypeInv'
  OBVIOUS
<1>1. ASSUME NEW r \in RuleIds, AddCandidate(r) PROVE TypeInv'
  BY <1>1 DEF AddCandidate, TypeInv, TypeOK, RoundsConsistent, RoundConsistent
<1>2. CASE Restart
  <2>1. RoundsConsistent'
    BY <1>2 DEF Restart, RoundsConsistent, RoundConsistent, NoRound, Working
  <2>2. TypeOK'
    BY <1>2, FreshRecords, CountsAreNaturals DEF Restart, TypeInv, TypeOK, NoReport
  <2> QED
    BY <2>1, <2>2 DEF TypeInv
<1>3. CASE UNCHANGED vars
  BY <1>3 DEF vars, TypeInv, TypeOK, RoundsConsistent, RoundConsistent
<1> QED
  BY <1>1, <1>2, <1>3, ObserverType, CallerType, RoundStepType DEF Next

\* Every variable keeps its shape, whatever the interleaving.
THEOREM TypeCorrect == Spec => []TypeOK
<1>1. Spec => []TypeInv
  BY TypeInit, TypeStep, PTL DEF Spec
<1> QED
  BY <1>1, PTL DEF TypeInv

-----------------------------------------------------------------------------
(* Evidence.  A step changes a trial in one of three ways, all of them on  *)
(* a candidate: it admits or convicts a session, it counts an inconclusive *)
(* replay, or it stamps the verdict of a round.                            *)

Admitted(t, u) ==
  \E s \in Sessions, failed \in BOOLEAN : u = Observed(t, s, failed)
Stamped(r, t, u) ==
  \E w \in Rounds :
    /\ round[w].pc = "stamping" /\ round[w].rule = r
    /\ u = [t EXCEPT !.verdict = round[w].verdict]
TrialEvolves(r, t, u) ==
  \/ u = t
  \/ /\ status[r] = "candidate"
     /\ Admitted(t, u) \/ u = [t EXCEPT !.attempts = @ + 1] \/ Stamped(r, t, u)

\* A write through the store reaches one rule, and only a candidate.
LEMMA UpdateTrialEffect ==
  ASSUME TypeInv, NEW r \in RuleIds, NEW new, UpdateTrial(r, new), NEW q \in RuleIds
  PROVE  \/ trial'[q] = trial[q]
         \/ q = r /\ status[r] = "candidate" /\ trial'[q] = new
BY DEF UpdateTrial, TypeInv, TypeOK

\* What one step may do to the trials: observe a session, count a replay, stamp
\* a verdict, or nothing.
LEMMA TrialStep ==
  ASSUME TypeInv, [Next]_vars, NEW q \in RuleIds
  PROVE  TrialEvolves(q, trial[q], trial'[q])
<1>1. ASSUME NEW s \in Sessions, NEW r \in RuleIds, Observe(s, r)
      PROVE  TrialEvolves(q, trial[q], trial'[q])
  <2>1. UpdateTrial(r, Observed(trial[r], s, r \in report[s].matched))
    BY <1>1 DEF Observe
  <2>2. \/ trial'[q] = trial[q]
        \/ /\ q = r /\ status[r] = "candidate"
           /\ trial'[q] = Observed(trial[r], s, r \in report[s].matched)
    BY <2>1, UpdateTrialEffect
  <2>3. (r \in report[s].matched) \in BOOLEAN
    OBVIOUS
  <2> QED
    BY <2>2, <2>3, Zenon DEF TrialEvolves, Admitted
<1>2. ASSUME NEW w \in Rounds, RoundBump(w)
      PROVE  TrialEvolves(q, trial[q], trial'[q])
  <2>1. round[w].rule \in RuleIds
    BY <1>2 DEF RoundBump, TypeInv, RoundsConsistent, RoundConsistent, Working
  <2>2. UpdateTrial(round[w].rule, [trial[round[w].rule] EXCEPT !.attempts = @ + 1])
    BY <1>2 DEF RoundBump
  <2> QED
    BY <2>1, <2>2, UpdateTrialEffect DEF TrialEvolves
<1>3. ASSUME NEW w \in Rounds, RoundStamp(w)
      PROVE  TrialEvolves(q, trial[q], trial'[q])
  <2>1. round[w].rule \in RuleIds /\ round[w].pc = "stamping"
    BY <1>3 DEF RoundStamp, TypeInv, RoundsConsistent, RoundConsistent, Working
  <2>2. UpdateTrial(round[w].rule,
                    [trial[round[w].rule] EXCEPT !.verdict = round[w].verdict])
    BY <1>3 DEF RoundStamp
  <2> QED
    BY <2>1, <2>2, UpdateTrialEffect DEF TrialEvolves, Stamped
<1>4. ASSUME UNCHANGED trial
      PROVE  TrialEvolves(q, trial[q], trial'[q])
  BY <1>4 DEF TrialEvolves
<1>5. ASSUME NEW w \in Rounds, RoundStep(w)
      PROVE  TrialEvolves(q, trial[q], trial'[q])
  BY <1>2, <1>3, <1>4, <1>5
  DEF RoundStep, RoundLoad, RoundOrder, RoundTake, RoundReplay, RoundWeigh,
      RoundApply, RoundFinish, Finish
<1>6. ASSUME NEW s \in Sessions,
             \/ \E matched \in SUBSET RuleIds : Report(s, matched)
             \/ \E r \in RuleIds : Observe(s, r)
             \/ ReportHandled(s)
             \/ ReportSuperseded(s)
      PROVE  TrialEvolves(q, trial[q], trial'[q])
  BY <1>1, <1>4, <1>6 DEF Report, ReportHandled, ReportSuperseded
<1>7. ASSUME NEW c \in Callers,
             \/ SettleValidation(c) \/ SettleDrained(c) \/ SettleRound(c)
             \/ SettleTimeout(c) \/ ValidateCandidates(c)
      PROVE  TrialEvolves(q, trial[q], trial'[q])
  BY <1>4, <1>7
  DEF SettleValidation, SettleDrained, SettleRound, SettleTimeout,
      ValidateCandidates, Call
<1>8. ASSUME \/ \E r \in RuleIds : AddCandidate(r)
             \/ Restart
             \/ UNCHANGED vars
      PROVE  TrialEvolves(q, trial[q], trial'[q])
  BY <1>4, <1>8 DEF AddCandidate, Restart, vars
<1> QED
  BY <1>5, <1>6, <1>7, <1>8 DEF Next

\* What one trial's share of WindowBounded says.
TrialBounded(t) ==
  /\ IsFiniteSet(t.observed)
  /\ Cardinality(t.observed) <= MinSessions
  /\ t.breached \subseteq t.observed

\* The closure of observe_report never takes a trial past its window.
LEMMA ObservedBounded ==
  ASSUME NEW t \in TrialState, TrialBounded(t), NEW s \in Sessions, NEW failed
  PROVE  TrialBounded(Observed(t, s, failed))
<1> DEFINE u == Observed(t, s, failed)
<1>1. CASE s \notin t.observed /\ Cardinality(t.observed) >= MinSessions
  BY <1>1 DEF Observed
<1>2. CASE ~(s \notin t.observed /\ Cardinality(t.observed) >= MinSessions)
  <2>1. u.observed = t.observed \cup {s}
    BY <1>2 DEF Observed, TrialState
  <2>2. u.breached = t.breached \/ u.breached = t.breached \cup {s}
    BY <1>2 DEF Observed, TrialState
  <2>3. Cardinality(t.observed) \in Nat
    BY FS_CardinalityType DEF TrialBounded
  <2>4. /\ IsFiniteSet(t.observed \cup {s})
        /\ Cardinality(t.observed \cup {s}) =
             IF s \in t.observed THEN Cardinality(t.observed)
             ELSE Cardinality(t.observed) + 1
    BY FS_AddElement DEF TrialBounded
  <2>5. Cardinality(u.observed) <= MinSessions
    BY <1>2, <2>1, <2>3, <2>4, CountsAreNaturals DEF TrialBounded
  <2>6. u.breached \subseteq u.observed
    BY <2>1, <2>2 DEF TrialBounded
  <2> QED
    BY <2>1, <2>4, <2>5, <2>6 DEF TrialBounded
<1> QED
  BY <1>1, <1>2

\* No write to a trial does.
LEMMA TrialStaysBounded ==
  ASSUME NEW r, NEW t \in TrialState, TrialBounded(t), NEW u, TrialEvolves(r, t, u)
  PROVE  TrialBounded(u)
<1>1. CASE Admitted(t, u)
  BY <1>1, ObservedBounded DEF Admitted
<1>2. CASE u = [t EXCEPT !.attempts = @ + 1]
  <2>1. u.observed = t.observed /\ u.breached = t.breached
    BY <1>2 DEF TrialState
  <2> QED
    BY <2>1 DEF TrialBounded
<1>3. CASE Stamped(r, t, u)
  <2>1. u.observed = t.observed /\ u.breached = t.breached
    BY <1>3 DEF TrialState, Stamped
  <2> QED
    BY <2>1 DEF TrialBounded
<1> QED
  BY <1>1, <1>2, <1>3 DEF TrialEvolves

\* A trial admits MinSessions sessions at most, however many reports are
\* observed at once and however its round interleaves with them.
THEOREM WindowCorrect == Spec => []WindowBounded
<1> DEFINE Inv == TypeInv /\ WindowBounded
<1>1. Init => WindowBounded
  <2>1. NewTrial.observed = {} /\ NewTrial.breached = {}
    BY DEF NewTrial
  <2>2. TrialBounded(NewTrial)
    BY <2>1, FS_EmptySet, CountsAreNaturals DEF TrialBounded
  <2> QED
    BY <2>2 DEF Init, WindowBounded, TrialBounded
<1>2. WindowBounded <=> \A r \in RuleIds : TrialBounded(trial[r])
  BY DEF WindowBounded, TrialBounded
<1>3. WindowBounded' <=> \A r \in RuleIds : TrialBounded(trial'[r])
  BY DEF WindowBounded, TrialBounded
<1>4. Inv /\ [Next]_vars => Inv'
  <2> SUFFICES ASSUME Inv, [Next]_vars PROVE Inv'
    OBVIOUS
  <2>1. TypeInv'
    BY TypeStep
  <2>2. ASSUME NEW r \in RuleIds PROVE TrialBounded(trial'[r])
    <3>1. trial[r] \in TrialState
      BY DEF TypeInv, TypeOK
    <3>2. TrialBounded(trial[r])
      BY <1>2
    <3> QED
      BY <3>1, <3>2, TrialStep, TrialStaysBounded
  <2> QED
    BY <1>3, <2>1, <2>2
<1> QED
  BY <1>1, <1>4, TypeInit, PTL DEF Spec

\* No write to a trial drops a session, a breach or an attempt.
LEMMA TrialOnlyGrows ==
  ASSUME NEW r, NEW t \in TrialState, NEW u, TrialEvolves(r, t, u)
  PROVE  /\ t.observed \subseteq u.observed
         /\ t.breached \subseteq u.breached
         /\ t.attempts <= u.attempts
<1>0. t.attempts \in Nat
  BY DEF TrialState
<1>1. CASE Admitted(t, u)
  <2>1. PICK s \in Sessions, failed \in BOOLEAN : u = Observed(t, s, failed)
    BY <1>1 DEF Admitted
  <2>2. CASE s \notin t.observed /\ Cardinality(t.observed) >= MinSessions
    BY <1>0, <2>1, <2>2 DEF Observed
  <2>3. CASE ~(s \notin t.observed /\ Cardinality(t.observed) >= MinSessions)
    <3>1. u.observed = t.observed \cup {s} /\ u.attempts = t.attempts
      BY <2>1, <2>3 DEF Observed, TrialState
    <3>2. u.breached = t.breached \/ u.breached = t.breached \cup {s}
      BY <2>1, <2>3 DEF Observed, TrialState
    <3> QED
      BY <1>0, <3>1, <3>2
  <2> QED
    BY <2>2, <2>3
<1>2. CASE u = [t EXCEPT !.attempts = @ + 1]
  BY <1>0, <1>2 DEF TrialState
<1>3. CASE Stamped(r, t, u)
  BY <1>0, <1>3 DEF Stamped, TrialState
<1> QED
  BY <1>0, <1>1, <1>2, <1>3 DEF TrialEvolves

\* No writer of a trial drops what another one recorded in it.
THEOREM EvidenceIsKept == Spec => EvidenceKept
<1>1. TypeInv /\ [Next]_vars =>
        [\A r \in RuleIds :
           /\ trial[r].observed \subseteq trial'[r].observed
           /\ trial[r].breached \subseteq trial'[r].breached
           /\ trial[r].attempts <= trial'[r].attempts]_vars
  <2> SUFFICES ASSUME TypeInv, [Next]_vars, NEW r \in RuleIds
               PROVE  /\ trial[r].observed \subseteq trial'[r].observed
                      /\ trial[r].breached \subseteq trial'[r].breached
                      /\ trial[r].attempts <= trial'[r].attempts
    OBVIOUS
  <2>1. trial[r] \in TrialState
    BY DEF TypeInv, TypeOK
  <2> QED
    BY <2>1, TrialStep, TrialOnlyGrows
<1> QED
  BY <1>1, TypeInit, TypeStep, PTL DEF Spec, EvidenceKept

-----------------------------------------------------------------------------
(* Decisions.  As long as the hook starts every round, a rule a round      *)
(* works on is a candidate until that round applies its verdict, and the   *)
(* verdict it applies is the one it stamped.                               *)

SingleFlight == Callers = {}

Deciding(x) ==
  /\ x.pc \in Working => status[x.rule] = "candidate"
  /\ x.pc \in {"stamping", "applying"} => x.verdict.outcome \in Verdicts
  /\ x.pc = "applying" => trial[x.rule].verdict = x.verdict
DecisionInv == TypeInv /\ VerdictMatchesStatus /\ Deciding(round[Background])

\* The decision invariant holds of an empty store.
LEMMA DecisionInit == Init => DecisionInv
<1> SUFFICES ASSUME Init PROVE DecisionInv
  OBVIOUS
<1>1. VerdictMatchesStatus
  BY DEF Init, VerdictMatchesStatus
<1>2. Deciding(round[Background])
  BY DEF Init, Deciding, NoRound, Working, Rounds
<1> QED
  BY <1>1, <1>2, TypeInit DEF DecisionInv

\* Without explicit callers the hook's round is the only one.
LEMMA OnlyTheBackgroundRound == SingleFlight => Rounds = {Background}
BY DEF SingleFlight, Rounds

\* A verdict gets on a trial by a stamp and in no other way.
LEMMA VerdictOnlyStamped ==
  ASSUME NEW r, NEW t \in TrialState, NEW u, TrialEvolves(r, t, u)
  PROVE  u.verdict = t.verdict \/ Stamped(r, t, u)
<1>1. CASE Admitted(t, u)
  BY <1>1 DEF Admitted, Observed, TrialState
<1>2. CASE u = [t EXCEPT !.attempts = @ + 1]
  BY <1>2 DEF TrialState
<1> QED
  BY <1>1, <1>2 DEF TrialEvolves

\* The trial of a decided rule is final.
LEMMA DecidedTrialIsFinal ==
  ASSUME TypeInv, [Next]_vars, NEW q \in RuleIds, status[q] # "candidate"
  PROVE  trial'[q] = trial[q]
BY TrialStep DEF TrialEvolves

\* A step that decides no rule keeps every decided rule's stamp.
LEMMA UndecidedStepKeepsStamps ==
  ASSUME TypeInv, VerdictMatchesStatus, [Next]_vars,
         \A q \in RuleIds : \/ status'[q] = status[q]
                            \/ status'[q] \notin {"active", "retired"}
  PROVE  VerdictMatchesStatus'
BY DecidedTrialIsFinal DEF VerdictMatchesStatus

\* The actions of everybody but the round.
LEMMA OthersDoNotDecide ==
  ASSUME SingleFlight, DecisionInv, [Next]_vars,
         round'[Background] \in {round[Background], NoRound}
           \/ round'[Background].pc = "loading",
         \A q \in RuleIds :
           \/ status'[q] = status[q]
           \/ status[q] = "absent" /\ status'[q] = "candidate"
  PROVE  DecisionInv'
<1>1. TypeInv'
  BY TypeStep DEF DecisionInv
<1>2. VerdictMatchesStatus'
  BY UndecidedStepKeepsStamps DEF DecisionInv
<1>3. Deciding(round[Background])'
  <2>1. CASE round'[Background] = NoRound \/ round'[Background].pc = "loading"
    BY <2>1 DEF Deciding, Working, NoRound
  <2>2. CASE round'[Background] = round[Background]
    <3> DEFINE x == round[Background]
               q == x.rule
    <3>1. Deciding(x) /\ RoundConsistent(x)
      BY DEF DecisionInv, TypeInv, RoundsConsistent, Rounds
    <3>2. SUFFICES ASSUME x.pc \in Working
                   PROVE  /\ status'[q] = "candidate"
                          /\ x.pc = "applying" => trial'[q].verdict = x.verdict
      BY <2>2, <3>1 DEF Deciding, Working
    <3>3. q \in RuleIds /\ status[q] = "candidate"
      BY <3>1, <3>2 DEF RoundConsistent, Deciding
    <3>4. x.pc = "applying" => trial'[q].verdict = x.verdict
      <4> SUFFICES ASSUME x.pc = "applying" PROVE trial'[q].verdict = x.verdict
        OBVIOUS
      <4>1. trial[q] \in TrialState /\ trial[q].verdict = x.verdict
        BY <3>1, <3>3 DEF DecisionInv, TypeInv, TypeOK, Deciding
      <4>2. \A w \in Rounds : round[w].pc # "stamping"
        BY OnlyTheBackgroundRound
      <4>3. ~Stamped(q, trial[q], trial'[q])
        BY <4>2 DEF Stamped
      <4> QED
        BY <3>3, <4>1, <4>3, TrialStep, VerdictOnlyStamped DEF DecisionInv
    <3> QED
      BY <3>3, <3>4
  <2> QED
    BY <2>1, <2>2
<1> QED
  BY <1>1, <1>2, <1>3 DEF DecisionInv

\* The round's own steps: between the loop head and the apply the rule stays a
\* candidate, and the apply finds its own stamp on the trial.
LEMMA RoundDecides ==
  ASSUME SingleFlight, DecisionInv, [Next]_vars, RoundStep(Background)
  PROVE  DecisionInv'
<1> DEFINE x == round[Background]
           r == x.rule
<1>0. /\ x \in RoundState /\ RoundConsistent(x) /\ Deciding(x)
      /\ Background \in Rounds
      /\ status \in [RuleIds -> {"absent", "candidate", "active", "retired"}]
      /\ trial \in [RuleIds -> TrialState]
      /\ round \in [Rounds -> RoundState]
  BY DEF DecisionInv, TypeInv, TypeOK, RoundsConsistent, Rounds
<1>1. TypeInv'
  BY TypeStep DEF DecisionInv
<1>2. SUFFICES Deciding(round[Background])' /\ VerdictMatchesStatus'
  BY <1>1 DEF DecisionInv
<1>3. status' = status => VerdictMatchesStatus'
  BY UndecidedStepKeepsStamps DEF DecisionInv
<1>4. ASSUME status' = status, round'[Background].pc \notin Working
      PROVE  Deciding(round[Background])' /\ VerdictMatchesStatus'
  BY <1>3, <1>4 DEF Deciding, Working
<1>5. CASE RoundLoad(Background) \/ RoundOrder(Background) \/ RoundFinish(Background)
  <2>1. round'[Background].pc \notin Working /\ status' = status
    BY <1>0, <1>5
    DEF RoundLoad, RoundOrder, RoundFinish, Finish, NoRound, Working, RoundState
  <2> QED
    BY <1>4, <2>1
<1>6. CASE RoundTake(Background)
  <2> DEFINE q == Upcoming(x.todo, x.pivot)
             y == round'[Background]
  <2>1. status' = status
    BY <1>6 DEF RoundTake
  <2>2. CASE status[q] # "candidate"
    <3>1. y.pc = "next"
      BY <1>0, <1>6, <2>2 DEF RoundTake, RoundState
    <3> QED
      BY <1>4, <2>1, <3>1 DEF Working
  <2>3. CASE status[q] = "candidate"
    <3>1. y.rule = q /\ y.pc \in {"replaying", "weighing"}
      <4>1. PICK late \in BOOLEAN : round' = [round EXCEPT
               ![Background].todo = x.todo \ {q}, ![Background].rule = q,
               ![Background].snap = trial[q], ![Background].late = late,
               ![Background].pc = IF /\ ReplayOutcomes # {}
                                     /\ ~late
                                     /\ trial[q].attempts < MaxReplayAttempts
                                  THEN "replaying" ELSE "weighing"]
        BY <1>6, <2>3 DEF RoundTake
      <4> HIDE DEF q
      <4> QED
        BY <1>0, <4>1 DEF RoundState
    <3> QED
      BY <1>3, <2>1, <2>3, <3>1 DEF Deciding
  <2> QED
    BY <2>2, <2>3
<1>7. ASSUME NEW outcome \in ReplayOutcomes, RoundReplay(Background, outcome)
      PROVE  Deciding(round[Background])' /\ VerdictMatchesStatus'
  <2>1. status' = status /\ status[r] = "candidate" /\ r \in RuleIds
    BY <1>0, <1>7 DEF RoundReplay, Deciding, Working, RoundConsistent
  <2>2. CASE outcome \in Verdicts
    <3>1. round'[Background] = Judged(x, outcome, "replay")
      BY <1>0, <1>7, <2>2 DEF RoundReplay, Verdicts
    <3>2. /\ Judged(x, outcome, "replay").pc = "stamping"
          /\ Judged(x, outcome, "replay").rule = r
          /\ Judged(x, outcome, "replay").verdict.outcome = outcome
      BY <1>0 DEF Judged, RoundState
    <3> QED
      BY <1>3, <2>1, <2>2, <3>1, <3>2 DEF Deciding
  <2>3. CASE outcome = "pending"
    <3>1. round'[Background].pc = "bumping" /\ round'[Background].rule = r
      BY <1>0, <1>7, <2>3 DEF RoundReplay, Verdicts, RoundState
    <3> QED
      BY <1>3, <2>1, <3>1 DEF Deciding
  <2>4. CASE outcome \notin Verdicts /\ outcome # "pending"
    <3>1. round'[Background].pc = "next"
      BY <1>0, <1>7, <2>4, LoopHeadType DEF RoundReplay
    <3> QED
      BY <1>4, <2>1, <3>1 DEF Working
  <2> QED
    BY <2>2, <2>3, <2>4
<1>8. CASE RoundBump(Background)
  <2>1. status' = status /\ status[r] = "candidate"
    BY <1>0, <1>8 DEF RoundBump, Deciding, Working
  <2>2. round'[Background].pc = "weighing" /\ round'[Background].rule = r
    BY <1>0, <1>8 DEF RoundBump, RoundState
  <2> QED
    BY <1>3, <2>1, <2>2 DEF Deciding
<1>9. CASE RoundWeigh(Background)
  <2> DEFINE outcome == ForwardVerdict(r, x.snap)
  <2>1. status' = status /\ status[r] = "candidate"
    BY <1>0, <1>9 DEF RoundWeigh, Deciding, Working
  <2>2. CASE outcome = "pending"
    <3>1. round'[Background].pc = "next"
      BY <1>0, <1>9, <2>2, LoopHeadType DEF RoundWeigh
    <3> QED
      BY <1>4, <2>1, <3>1 DEF Working
  <2>3. CASE outcome # "pending"
    <3>1. outcome \in Verdicts
      BY <2>3 DEF ForwardVerdict, Verdicts
    <3>2. round'[Background] = Judged(x, outcome, "forward")
      BY <1>0, <1>9, <2>3 DEF RoundWeigh
    <3> HIDE DEF outcome
    <3>3. /\ Judged(x, outcome, "forward").pc = "stamping"
          /\ Judged(x, outcome, "forward").rule = r
          /\ Judged(x, outcome, "forward").verdict.outcome = outcome
      BY <1>0 DEF Judged, RoundState
    <3> QED
      BY <1>3, <2>1, <3>1, <3>2, <3>3 DEF Deciding
  <2> QED
    BY <2>2, <2>3
<1>10. CASE RoundStamp(Background)
  <2>1. /\ status' = status /\ status[r] = "candidate" /\ r \in RuleIds
        /\ x.verdict.outcome \in Verdicts
    BY <1>0, <1>10 DEF RoundStamp, Deciding, Working, RoundConsistent
  <2>2. round'[Background] = [x EXCEPT !.pc = "applying"]
    BY <1>0, <1>10, <2>1 DEF RoundStamp
  <2>3. trial'[r] = [trial[r] EXCEPT !.verdict = x.verdict]
    BY <1>0, <1>10, <2>1 DEF RoundStamp, UpdateTrial
  <2>4. trial'[r].verdict = x.verdict
    BY <1>0, <2>1, <2>3 DEF TrialState
  <2>5. /\ round'[Background].pc = "applying" /\ round'[Background].rule = r
        /\ round'[Background].verdict = x.verdict
    BY <1>0, <2>2 DEF RoundState
  <2> QED
    BY <1>3, <2>1, <2>4, <2>5 DEF Deciding
<1>11. CASE RoundApply(Background)
  <2>1. /\ status[r] = "candidate" /\ r \in RuleIds
        /\ x.verdict.outcome \in Verdicts
        /\ trial[r].verdict = x.verdict
        /\ UNCHANGED trial
    BY <1>0, <1>11 DEF RoundApply, Deciding, Working, RoundConsistent
  <2>2. status' = [status EXCEPT
          ![r] = IF x.verdict.outcome = "promote" THEN "active" ELSE "retired"]
    BY <1>11, <2>1 DEF RoundApply, Transition, Verdicts
  <2>3. VerdictMatchesStatus'
    BY <1>0, <2>1, <2>2 DEF VerdictMatchesStatus, DecisionInv, Verdicts
  <2>4. round'[Background].pc = "next"
    BY <1>0, <1>11, LoopHeadType DEF RoundApply
  <2> QED
    BY <2>3, <2>4 DEF Deciding, Working
<1> QED
  BY <1>5, <1>6, <1>7, <1>8, <1>9, <1>10, <1>11 DEF RoundStep

\* Under single flight the decision invariant is inductive.
LEMMA DecisionStep == SingleFlight /\ DecisionInv /\ [Next]_vars => DecisionInv'
<1> SUFFICES ASSUME SingleFlight, DecisionInv, [Next]_vars PROVE DecisionInv'
  OBVIOUS
<1>0. Background \in Rounds /\ round \in [Rounds -> RoundState]
      /\ status \in [RuleIds -> {"absent", "candidate", "active", "retired"}]
  BY DEF Rounds, DecisionInv, TypeInv, TypeOK
<1>1. ASSUME NEW r \in RuleIds, AddCandidate(r) PROVE DecisionInv'
  BY <1>0, <1>1, OthersDoNotDecide DEF AddCandidate
<1>2. ASSUME NEW s \in Sessions,
             \/ \E matched \in SUBSET RuleIds : Report(s, matched)
             \/ \E r \in RuleIds : Observe(s, r)
             \/ ReportSuperseded(s)
      PROVE  DecisionInv'
  BY <1>2, OthersDoNotDecide DEF Report, Observe, ReportSuperseded
<1>3. ASSUME NEW s \in Sessions, ReportHandled(s) PROVE DecisionInv'
  <2>1. round'[Background] = round[Background] \/ round'[Background].pc = "loading"
    BY <1>0, <1>3 DEF ReportHandled, RoundState
  <2> QED
    BY <1>3, <2>1, OthersDoNotDecide DEF ReportHandled
<1>4. CASE Restart
  BY <1>0, <1>4, OthersDoNotDecide DEF Restart
<1>5. CASE UNCHANGED vars
  BY <1>5, OthersDoNotDecide DEF vars
<1>6. ASSUME NEW w \in Rounds, RoundStep(w) PROVE DecisionInv'
  BY <1>6, OnlyTheBackgroundRound, RoundDecides
<1> QED
  BY <1>1, <1>2, <1>3, <1>4, <1>5, <1>6 DEF Next, SingleFlight

\* Under the hook's single flight a rule is active or retired exactly as the
\* verdict on its record says, across restarts between stamp and apply.
THEOREM VerdictsAreConsistent == SingleFlight => (Spec => []VerdictMatchesStatus)
<1> SUFFICES ASSUME SingleFlight PROVE Spec => []VerdictMatchesStatus
  OBVIOUS
<1>1. DecisionInv /\ [Next]_vars => DecisionInv'
  BY DecisionStep
<1>2. DecisionInv => VerdictMatchesStatus
  BY DEF DecisionInv
<1> QED
  BY <1>1, <1>2, DecisionInit, PTL DEF Spec

-----------------------------------------------------------------------------
(* Refinement.  A report is a witness, an apply is the decision, and every *)
(* other step of the implementation stutters.                              *)

observedMap == [r \in RuleIds |-> trial[r].observed]
breachedMap == [r \in RuleIds |-> trial[r].breached]

\* A write that keeps the evidence of its rule is invisible.
LEMMA SameEvidenceStutters ==
  ASSUME TypeInv, NEW r \in RuleIds, NEW new, UpdateTrial(r, new), status' = status,
         new.observed = trial[r].observed, new.breached = trial[r].breached
  PROVE  UNCHANGED <<status, observedMap, breachedMap>>
<1>1. \A q \in RuleIds : /\ trial'[q].observed = trial[q].observed
                         /\ trial'[q].breached = trial[q].breached
  BY UpdateTrialEffect
<1> QED
  BY <1>1 DEF observedMap, breachedMap

\* The lifecycle counts sessions as the implementation does.
LEMMA SameCardinality == ASSUME NEW S PROVE Lifecycle!Cardinality(S) = Cardinality(S)
BY DEF Lifecycle!Cardinality, Cardinality

\* An observation is a witness of the lifecycle, or invisible when the window is
\* full or the rule was decided meanwhile.
LEMMA ObserveIsWitness ==
  ASSUME TypeInv, WindowBounded, NEW s \in Sessions, NEW r \in RuleIds, Observe(s, r)
  PROVE  \/ Lifecycle!Witness(r, s, TRUE)
         \/ Lifecycle!Witness(r, s, FALSE)
         \/ UNCHANGED <<status, observedMap, breachedMap>>
<1> DEFINE t == trial[r]
           bad == r \in report[s].matched
           u == Observed(t, s, bad)
           full == s \notin t.observed /\ Cardinality(t.observed) >= MinSessions
<1>1. t \in TrialState /\ trial \in [RuleIds -> TrialState]
  BY DEF TypeInv, TypeOK
<1>2. UpdateTrial(r, u) /\ status' = status
  BY DEF Observe
<1>3. CASE status[r] # "candidate"
  BY <1>2, <1>3 DEF UpdateTrial, observedMap, breachedMap
<1>4. CASE full
  <2>1. u = t
    BY <1>4 DEF Observed
  <2> HIDE DEF u, t
  <2>2. u.observed = t.observed /\ u.breached = t.breached
    BY <2>1
  <2> QED
    BY <1>2, <2>2, SameEvidenceStutters DEF t
<1>5. CASE status[r] = "candidate" /\ ~full
  <2>1. u = [t EXCEPT !.observed = @ \cup {s},
                      !.breached = IF bad THEN @ \cup {s} ELSE @]
    BY <1>5 DEF Observed
  <2>2. u.observed = t.observed \cup {s}
    BY <1>1, <2>1 DEF TrialState
  <2>3. u.breached = IF bad THEN t.breached \cup {s} ELSE t.breached
    BY <1>1, <2>1 DEF TrialState
  <2>4. trial' = [trial EXCEPT ![r] = u]
    BY <1>2, <1>5 DEF UpdateTrial
  <2> HIDE DEF u, bad
  <2>5. observedMap' = [observedMap EXCEPT ![r] = @ \cup {s}]
    BY <1>1, <2>2, <2>4 DEF observedMap
  <2>6. breachedMap' = [breachedMap EXCEPT ![r] = IF bad THEN @ \cup {s} ELSE @]
    BY <1>1, <2>3, <2>4 DEF breachedMap
  <2>7. s \in observedMap[r] \/ Cardinality(observedMap[r]) < MinSessions
    <3>1. observedMap[r] = t.observed
      BY DEF observedMap
    <3>2. s \in t.observed \/ ~(Cardinality(t.observed) >= MinSessions)
      BY <1>5
    <3>3. Cardinality(t.observed) \in Nat
      BY FS_CardinalityType DEF WindowBounded
    <3> HIDE DEF t
    <3> QED
      BY <3>1, <3>2, <3>3, CountsAreNaturals
  <2>8. CASE bad
    <3>1. Lifecycle!Witness(r, s, TRUE)
      BY <1>2, <1>5, <2>5, <2>6, <2>7, <2>8, SameCardinality
      DEF Lifecycle!Witness, observedMap, breachedMap
    <3> QED
      BY <3>1
  <2>9. CASE ~bad
    <3>1. Lifecycle!Witness(r, s, FALSE)
      BY <1>2, <1>5, <2>5, <2>6, <2>7, <2>9, SameCardinality
      DEF Lifecycle!Witness, observedMap, breachedMap
    <3> QED
      BY <3>1
  <2> QED
    BY <2>8, <2>9
<1> QED
  BY <1>3, <1>4, <1>5

\* Under single flight an apply always finds a candidate, and decides it.
LEMMA ApplyIsDecide ==
  ASSUME SingleFlight, DecisionInv, RoundApply(Background)
  PROVE  \E r \in RuleIds : \/ Lifecycle!Decide(r, "active")
                           \/ Lifecycle!Decide(r, "retired")
<1> DEFINE x == round[Background]
           r == x.rule
<1>1. Deciding(x) /\ RoundConsistent(x)
  BY DEF DecisionInv, TypeInv, RoundsConsistent, Rounds
<1>2. /\ status[r] = "candidate" /\ r \in RuleIds
      /\ x.verdict.outcome \in Verdicts
      /\ UNCHANGED trial
  BY <1>1 DEF RoundApply, Deciding, Working, RoundConsistent
<1>3. CASE x.verdict.outcome = "promote"
  <2>1. status' = [status EXCEPT ![r] = "active"]
    BY <1>2, <1>3 DEF RoundApply, Transition
  <2>2. Lifecycle!Decide(r, "active")
    BY <1>2, <2>1 DEF Lifecycle!Decide
  <2> QED
    BY <1>2, <2>2
<1>4. CASE x.verdict.outcome = "retire"
  <2>1. status' = [status EXCEPT ![r] = "retired"]
    BY <1>2, <1>4 DEF RoundApply, Transition
  <2>2. Lifecycle!Decide(r, "retired")
    BY <1>2, <2>1 DEF Lifecycle!Decide
  <2> QED
    BY <1>2, <2>2
<1> QED
  BY <1>2, <1>3, <1>4 DEF Verdicts

\* An empty store is an initial state of the lifecycle.
LEMMA LifecycleInit == Init => Lifecycle!Init
<1> SUFFICES ASSUME Init PROVE Lifecycle!Init
  OBVIOUS
<1>1. \A r \in RuleIds : trial[r].observed = {} /\ trial[r].breached = {}
  BY DEF Init, NewTrial
<1> QED
  BY <1>1 DEF Init, Lifecycle!Init

\* Every step of the implementation is a step of the lifecycle or a stutter.
LEMMA LifecycleStep ==
  SingleFlight /\ DecisionInv /\ WindowBounded /\ [Next]_vars
    => [Lifecycle!Next]_(Lifecycle!lifecycleVars)
<1> DEFINE Stutter == UNCHANGED <<status, observedMap, breachedMap>>
           Goal == Lifecycle!Next \/ Stutter
<1> SUFFICES ASSUME SingleFlight, DecisionInv, WindowBounded, [Next]_vars PROVE Goal
  BY DEF Lifecycle!lifecycleVars, observedMap, breachedMap
<1>0. TypeInv
  BY DEF DecisionInv
<1>1. ASSUME UNCHANGED <<status, trial>> PROVE Goal
  BY <1>1 DEF observedMap, breachedMap
<1>2. ASSUME NEW r \in RuleIds, AddCandidate(r) PROVE Goal
  <2>1. Lifecycle!Propose(r)
    BY <1>2 DEF AddCandidate, Lifecycle!Propose
  <2> QED
    BY <2>1 DEF Lifecycle!Next
<1>3. ASSUME NEW s \in Sessions, NEW r \in RuleIds, Observe(s, r) PROVE Goal
  <2>1. CASE Lifecycle!Witness(r, s, TRUE)
    BY <2>1 DEF Lifecycle!Next
  <2>2. CASE Lifecycle!Witness(r, s, FALSE)
    BY <2>2 DEF Lifecycle!Next
  <2> QED
    BY <1>0, <1>3, <2>1, <2>2, ObserveIsWitness
<1>4. CASE RoundBump(Background)
  <2> DEFINE r == round[Background].rule
             new == [trial[r] EXCEPT !.attempts = @ + 1]
  <2>1. r \in RuleIds /\ trial[r] \in TrialState
    BY <1>0, <1>4
    DEF RoundBump, TypeInv, TypeOK, RoundsConsistent, RoundConsistent, Working, Rounds
  <2>2. UpdateTrial(r, new) /\ status' = status
    BY <1>4 DEF RoundBump
  <2>3. new.observed = trial[r].observed /\ new.breached = trial[r].breached
    BY <2>1 DEF TrialState
  <2> HIDE DEF r, new
  <2> QED
    BY <1>0, <2>1, <2>2, <2>3, SameEvidenceStutters
<1>5. CASE RoundStamp(Background)
  <2> DEFINE r == round[Background].rule
             new == [trial[r] EXCEPT !.verdict = round[Background].verdict]
  <2>1. r \in RuleIds /\ trial[r] \in TrialState
    BY <1>0, <1>5
    DEF RoundStamp, TypeInv, TypeOK, RoundsConsistent, RoundConsistent, Working, Rounds
  <2>2. UpdateTrial(r, new) /\ status' = status
    BY <1>5 DEF RoundStamp
  <2>3. new.observed = trial[r].observed /\ new.breached = trial[r].breached
    BY <2>1 DEF TrialState
  <2> HIDE DEF r, new
  <2> QED
    BY <1>0, <2>1, <2>2, <2>3, SameEvidenceStutters
<1>6. CASE RoundApply(Background)
  <2>1. PICK r \in RuleIds : \/ Lifecycle!Decide(r, "active")
                            \/ Lifecycle!Decide(r, "retired")
    BY <1>6, ApplyIsDecide
  <2> QED
    BY <2>1 DEF Lifecycle!Next
<1>7. ASSUME NEW w \in Rounds, RoundStep(w) PROVE Goal
  <2>1. w = Background
    BY OnlyTheBackgroundRound
  <2> QED
    BY <1>1, <1>4, <1>5, <1>6, <1>7, <2>1
    DEF RoundStep, RoundLoad, RoundOrder, RoundTake, RoundReplay, RoundWeigh,
        RoundFinish, Finish
<1>8. ASSUME NEW s \in Sessions,
             \/ \E matched \in SUBSET RuleIds : Report(s, matched)
             \/ ReportHandled(s)
             \/ ReportSuperseded(s)
      PROVE  Goal
  BY <1>1, <1>8 DEF Report, ReportHandled, ReportSuperseded
<1>9. CASE Restart \/ UNCHANGED vars
  BY <1>1, <1>9 DEF Restart, vars
<1> QED
  BY <1>2, <1>3, <1>7, <1>8, <1>9 DEF Next, SingleFlight

\* Under the hook's single flight, candidate validation is the lifecycle of
\* RuleLifecycle: one decision per rule, evidence that only grows and only
\* while the rule is a candidate whose window admits the session.
THEOREM ValidationImplementsLifecycle == SingleFlight => (Spec => LifecycleSpec)
<1> SUFFICES ASSUME SingleFlight PROVE Spec => LifecycleSpec
  OBVIOUS
<1>1. DecisionInv /\ [Next]_vars => DecisionInv'
  BY DecisionStep
<1>2. DecisionInv /\ WindowBounded /\ [Next]_vars
        => [Lifecycle!Next]_(Lifecycle!lifecycleVars)
  BY LifecycleStep
<1> QED
  BY <1>1, <1>2, DecisionInit, WindowCorrect, LifecycleInit, PTL
  DEF Spec, LifecycleSpec, Lifecycle!Spec


-----------------------------------------------------------------------------
(* The moves of a round x to y                                             *)

Same(x, y) == y.rule = x.rule /\ y.todo = x.todo /\ y.decided = x.decided

Loads(x, y) ==
  /\ x.pc = "loading" /\ y.pc = "ordering"
  /\ y.todo = Candidates /\ y.decided = x.decided
Orders(x, y) ==
  /\ x.pc = "ordering" /\ y.pc = "next"
  /\ y.todo = x.todo /\ y.decided = x.decided
Skips(x, y) ==
  /\ x.pc = "next" /\ y.pc = "next" /\ y.decided = x.decided
  /\ \E q \in RuleIds : status[q] # "candidate" /\ y.todo = x.todo \ {q}
Takes(x, y) ==
  /\ x.pc = "next" /\ y.pc \in {"replaying", "weighing"} /\ y.decided = x.decided
  /\ y.rule \in RuleIds /\ status[y.rule] = "candidate"
  /\ y.todo = x.todo \ {y.rule} /\ y.snap = trial[y.rule]
Waits(x, y) ==
  /\ x.pc \in {"replaying", "bumping"} /\ y.pc \in {"bumping", "weighing"}
  /\ Same(x, y) /\ y.snap = x.snap
Judges(x, y) ==
  /\ x.pc \in {"replaying", "weighing"} /\ y.pc = "stamping"
  /\ y.rule = x.rule /\ y.decided
  /\ y.verdict.by = "forward" =>
       x.pc = "weighing" /\ y.verdict.outcome = ForwardVerdict(x.rule, x.snap)
LeavesOpen(x, y) ==
  /\ x.pc = "weighing" /\ ForwardVerdict(x.rule, x.snap) = "pending"
  /\ y.pc = "next" /\ y.todo = x.todo /\ y.decided = x.decided
Raises(x, y) == x.pc = "replaying" /\ y.pc = "next" /\ "error" \in ReplayOutcomes
Stamps(x, y) ==
  /\ x.pc = "stamping" /\ y.pc = "applying"
  /\ Same(x, y) /\ y.verdict = x.verdict
Returns(x, y) ==
  /\ x.pc \in {"stamping", "applying"} /\ y.pc = "next"
  /\ y.todo = x.todo /\ y.decided = x.decided

RoundMove(x, y) ==
  \/ y = x
  \/ y.pc \in {"idle", "loading"}
  \/ Loads(x, y) \/ Orders(x, y) \/ Skips(x, y) \/ Takes(x, y) \/ Waits(x, y)
  \/ Judges(x, y) \/ LeavesOpen(x, y) \/ Raises(x, y) \/ Stamps(x, y) \/ Returns(x, y)

LEMMA LoopHeadFields ==
  ASSUME NEW x \in RoundState
  PROVE  /\ LoopHead(x).pc = "next" /\ LoopHead(x).todo = x.todo
         /\ LoopHead(x).decided = x.decided
BY DEF LoopHead, RoundState

LEMMA JudgedFields ==
  ASSUME NEW x \in RoundState, NEW outcome, NEW by
  PROVE  /\ Judged(x, outcome, by).pc = "stamping" /\ Judged(x, outcome, by).rule = x.rule
         /\ Judged(x, outcome, by).decided
         /\ Judged(x, outcome, by).verdict.outcome = outcome
         /\ Judged(x, outcome, by).verdict.by = by
BY DEF Judged, RoundState

\* The steps of a round are its moves.
LEMMA StepIsMove ==
  ASSUME TypeInv, NEW w \in Rounds, RoundStep(w)
  PROVE  RoundMove(round[w], round'[w])
<1> DEFINE x == round[w]
           y == round'[w]
           r == x.rule
<1>0. /\ x \in RoundState /\ RoundConsistent(x) /\ round \in [Rounds -> RoundState]
      /\ trial \in [RuleIds -> TrialState]
  BY DEF TypeInv, TypeOK, RoundsConsistent
<1>1. CASE RoundLoad(w)
  <2>1. CASE Candidates = {}
    BY <1>0, <1>1, <2>1 DEF RoundLoad, Finish, NoRound, RoundMove
  <2>2. CASE Candidates # {}
    <3>1. round' = [round EXCEPT ![w].pc = "ordering", ![w].todo = Candidates]
          /\ x.pc = "loading"
      BY <1>1, <2>2 DEF RoundLoad
    <3>2. y.pc = "ordering" /\ y.todo = Candidates /\ y.decided = x.decided
      BY <1>0, <3>1 DEF RoundState
    <3> QED
      BY <3>1, <3>2 DEF RoundMove, Loads
  <2> QED
    BY <2>1, <2>2
<1>2. CASE RoundOrder(w)
  <2>1. x.pc = "ordering" /\ y.pc = "next" /\ y.todo = x.todo /\ y.decided = x.decided
    BY <1>0, <1>2 DEF RoundOrder, RoundState
  <2> QED
    BY <2>1 DEF RoundMove, Orders
<1>3. CASE RoundTake(w)
  <2> DEFINE q == Upcoming(x.todo, x.pivot)
  <2>1. x.todo \in SUBSET RuleIds /\ x.todo # {} /\ x.pc = "next"
    BY <1>0, <1>3 DEF RoundTake, RoundState
  <2>2. q \in RuleIds
    BY <2>1, UpcomingIsInTodo
  <2>3. CASE status[q] # "candidate"
    <3>1. round' = [round EXCEPT ![w].todo = x.todo \ {q}]
      BY <1>3, <2>3 DEF RoundTake
    <3> HIDE DEF q
    <3>2. y.pc = "next" /\ y.todo = x.todo \ {q} /\ y.decided = x.decided
      BY <1>0, <2>1, <3>1 DEF RoundState
    <3> QED
      BY <2>1, <2>2, <2>3, <3>2 DEF RoundMove, Skips
  <2>4. CASE status[q] = "candidate"
    <3>1. PICK late \in BOOLEAN : round' = [round EXCEPT
             ![w].todo = x.todo \ {q}, ![w].rule = q, ![w].snap = trial[q],
             ![w].late = late,
             ![w].pc = IF /\ ReplayOutcomes # {}
                          /\ ~late
                          /\ trial[q].attempts < MaxReplayAttempts
                       THEN "replaying" ELSE "weighing"]
      BY <1>3, <2>4 DEF RoundTake
    <3> HIDE DEF q
    <3>2. /\ y.pc \in {"replaying", "weighing"} /\ y.decided = x.decided
          /\ y.rule = q /\ y.todo = x.todo \ {q} /\ y.snap = trial[q]
      BY <1>0, <3>1 DEF RoundState
    <3> QED
      BY <2>1, <2>2, <2>4, <3>2 DEF RoundMove, Takes
  <2> QED
    BY <2>3, <2>4
<1>4. ASSUME NEW outcome \in ReplayOutcomes, RoundReplay(w, outcome)
      PROVE  RoundMove(x, y)
  <2>1. x.pc = "replaying"
    BY <1>4 DEF RoundReplay
  <2>2. CASE outcome \in Verdicts
    <3>1. y = Judged(x, outcome, "replay")
      BY <1>0, <1>4, <2>2 DEF RoundReplay, Verdicts
    <3>2. y.pc = "stamping" /\ y.rule = x.rule /\ y.decided /\ y.verdict.by = "replay"
      BY <1>0, <3>1, JudgedFields
    <3> QED
      BY <2>1, <3>2 DEF RoundMove, Judges
  <2>3. CASE outcome = "pending"
    <3>1. /\ y.pc = "bumping" /\ y.rule = x.rule /\ y.todo = x.todo
          /\ y.decided = x.decided /\ y.snap = x.snap
      BY <1>0, <1>4, <2>3 DEF RoundReplay, Verdicts, RoundState
    <3> QED
      BY <2>1, <3>1 DEF RoundMove, Waits, Same
  <2>4. CASE outcome \notin Verdicts /\ outcome # "pending"
    <3>1. y = LoopHead(x) /\ outcome = "error"
      BY <1>0, <1>4, <2>4, OutcomesAreKnown DEF RoundReplay
    <3>2. y.pc = "next"
      BY <1>0, <3>1, LoopHeadFields
    <3> QED
      BY <2>1, <3>1, <3>2 DEF RoundMove, Raises
  <2> QED
    BY <2>2, <2>3, <2>4
<1>5. CASE RoundBump(w)
  <2>1. /\ x.pc = "bumping" /\ y.pc = "weighing" /\ y.rule = x.rule /\ y.todo = x.todo
        /\ y.decided = x.decided /\ y.snap = x.snap
    BY <1>0, <1>5 DEF RoundBump, RoundState
  <2> QED
    BY <2>1 DEF RoundMove, Waits, Same
<1>6. CASE RoundWeigh(w)
  <2> DEFINE outcome == ForwardVerdict(r, x.snap)
  <2>1. x.pc = "weighing"
    BY <1>6 DEF RoundWeigh
  <2>2. CASE outcome = "pending"
    <3>1. y = LoopHead(x)
      BY <1>0, <1>6, <2>2 DEF RoundWeigh
    <3>2. y.pc = "next" /\ y.todo = x.todo /\ y.decided = x.decided
      BY <1>0, <3>1, LoopHeadFields
    <3> QED
      BY <2>1, <2>2, <3>2 DEF RoundMove, LeavesOpen
  <2>3. CASE outcome # "pending"
    <3>1. y = Judged(x, outcome, "forward")
      BY <1>0, <1>6, <2>3 DEF RoundWeigh
    <3> HIDE DEF outcome
    <3>2. /\ y.pc = "stamping" /\ y.rule = x.rule /\ y.decided
          /\ y.verdict.outcome = outcome
      BY <1>0, <3>1, JudgedFields
    <3> QED
      BY <2>1, <3>2, Zenon DEF RoundMove, Judges, outcome
  <2> QED
    BY <2>2, <2>3
<1>7. CASE RoundStamp(w)
  <2>1. x.pc = "stamping"
    BY <1>7 DEF RoundStamp
  <2>2. CASE status[r] = "candidate"
    <3>1. /\ y.pc = "applying" /\ y.rule = x.rule /\ y.todo = x.todo
          /\ y.decided = x.decided /\ y.verdict = x.verdict
      BY <1>0, <1>7, <2>2 DEF RoundStamp, RoundState
    <3> QED
      BY <2>1, <3>1 DEF RoundMove, Stamps, Same
  <2>3. CASE status[r] # "candidate"
    <3>1. y = LoopHead(x)
      BY <1>0, <1>7, <2>3 DEF RoundStamp
    <3>2. y.pc = "next" /\ y.todo = x.todo /\ y.decided = x.decided
      BY <1>0, <3>1, LoopHeadFields
    <3> QED
      BY <2>1, <3>2 DEF RoundMove, Returns
  <2> QED
    BY <2>2, <2>3
<1>8. CASE RoundApply(w)
  <2>1. x.pc = "applying" /\ y = LoopHead(x)
    BY <1>0, <1>8 DEF RoundApply
  <2>2. y.pc = "next" /\ y.todo = x.todo /\ y.decided = x.decided
    BY <1>0, <2>1, LoopHeadFields
  <2> QED
    BY <2>1, <2>2 DEF RoundMove, Returns
<1>9. CASE RoundFinish(w)
  BY <1>0, <1>9 DEF RoundFinish, Finish, NoRound, RoundMove
<1> QED
  BY <1>1, <1>2, <1>3, <1>4, <1>5, <1>6, <1>7, <1>8, <1>9 DEF RoundStep

\* A step changes the round of one actor.
LEMMA OneRoundMoves ==
  ASSUME TypeInv, NEW v \in Rounds, RoundStep(v), NEW w \in Rounds, w # v
  PROVE  round'[w] = round[w]
BY DEF RoundStep, RoundLoad, RoundOrder, RoundTake, RoundReplay, RoundBump, RoundWeigh,
       RoundStamp, RoundApply, RoundFinish, Finish, TypeInv, TypeOK

LEMMA RoundMoves ==
  ASSUME TypeInv, [Next]_vars, NEW w \in Rounds
  PROVE  RoundMove(round[w], round'[w])
<1>0. round \in [Rounds -> RoundState]
  BY DEF TypeInv, TypeOK
<1>1. ASSUME NEW v \in Rounds, RoundStep(v) PROVE RoundMove(round[w], round'[w])
  BY <1>1, StepIsMove, OneRoundMoves DEF RoundMove
<1>2. CASE UNCHANGED round
  BY <1>2 DEF RoundMove
<1>3. ASSUME NEW v \in Rounds, round' = [round EXCEPT ![v].pc = "loading"]
      PROVE  RoundMove(round[w], round'[w])
  <2>1. round'[w] = round[w] \/ round'[w].pc = "loading"
    BY <1>0, <1>3 DEF RoundState
  <2> QED
    BY <2>1 DEF RoundMove
<1>4. CASE Restart
  BY <1>4 DEF Restart, RoundMove, NoRound
<1>5. \/ UNCHANGED round \/ Restart \/ \E v \in Rounds : RoundStep(v)
      \/ \E v \in Rounds : round' = [round EXCEPT ![v].pc = "loading"]
  <2>1. Background \in Rounds /\ Callers \subseteq Rounds
    BY DEF Rounds
  <2>2. ASSUME NEW s \in Sessions,
               \/ \E matched \in SUBSET RuleIds : Report(s, matched)
               \/ \E r \in RuleIds : Observe(s, r)
               \/ ReportHandled(s)
               \/ ReportSuperseded(s)
        PROVE  UNCHANGED round \/ \E v \in Rounds : round' = [round EXCEPT ![v].pc = "loading"]
    BY <2>1, <2>2 DEF Report, Observe, ReportHandled, ReportSuperseded
  <2>3. ASSUME NEW c \in Callers,
               \/ SettleValidation(c) \/ SettleDrained(c) \/ SettleRound(c)
               \/ SettleTimeout(c) \/ ValidateCandidates(c)
        PROVE  UNCHANGED round \/ \E v \in Rounds : round' = [round EXCEPT ![v].pc = "loading"]
    BY <2>1, <2>3
    DEF SettleValidation, SettleDrained, SettleRound, SettleTimeout, ValidateCandidates
  <2>4. ASSUME NEW r \in RuleIds, AddCandidate(r) PROVE UNCHANGED round
    BY <2>4 DEF AddCandidate
  <2>5. UNCHANGED vars => UNCHANGED round
    BY DEF vars
  <2> QED
    BY <2>2, <2>3, <2>4, <2>5 DEF Next
<1> QED
  BY <1>1, <1>2, <1>3, <1>4, <1>5

-----------------------------------------------------------------------------
(* What a forward retirement rests on                                      *)

Justified(r) ==
  /\ Cardinality(trial[r].observed) >= MinSessions
  /\ Cardinality(trial[r].breached) > Tolerated[r]
ForwardRetire(v) == v.outcome = "retire" /\ v.by = "forward"

\* A snapshot is a part of the evidence there is by now, and a verdict that rests
\* on one is still right: evidence is only added.
SnapshotIsOld(x) ==
  /\ x.pc \in {"replaying", "bumping", "weighing"} =>
       /\ x.snap.observed \subseteq trial[x.rule].observed
       /\ x.snap.breached \subseteq trial[x.rule].breached
  /\ x.pc \in {"stamping", "applying"} /\ ForwardRetire(x.verdict) => Justified(x.rule)

ForwardInv ==
  /\ \A w \in Rounds : SnapshotIsOld(round[w])
  /\ \A r \in RuleIds : ForwardRetire(trial[r].verdict) => Justified(r)

LEMMA EvidenceGrows ==
  ASSUME TypeInv, WindowBounded, TypeInv', WindowBounded', [Next]_vars, NEW r \in RuleIds
  PROVE  /\ trial[r].observed \subseteq trial'[r].observed
         /\ trial[r].breached \subseteq trial'[r].breached
         /\ Justified(r) => Justified(r)'
<1>1. trial[r] \in TrialState /\ trial'[r] \in TrialState
  BY DEF TypeInv, TypeOK
<1>2. /\ trial[r].observed \subseteq trial'[r].observed
      /\ trial[r].breached \subseteq trial'[r].breached
  BY <1>1, TrialStep, TrialOnlyGrows
<1>3. IsFiniteSet(trial'[r].observed) /\ IsFiniteSet(trial'[r].breached)
  <2>1. IsFiniteSet(trial'[r].observed) /\ trial'[r].breached \subseteq trial'[r].observed
    BY DEF WindowBounded
  <2> QED
    BY <2>1, FS_Subset
<1>4. /\ IsFiniteSet(trial[r].observed) /\ IsFiniteSet(trial[r].breached)
      /\ Cardinality(trial[r].observed) <= Cardinality(trial'[r].observed)
      /\ Cardinality(trial[r].breached) <= Cardinality(trial'[r].breached)
  BY <1>2, <1>3, FS_Subset
<1>5. /\ Cardinality(trial[r].observed) \in Nat /\ Cardinality(trial'[r].observed) \in Nat
      /\ Cardinality(trial[r].breached) \in Nat /\ Cardinality(trial'[r].breached) \in Nat
      /\ MinSessions \in Nat /\ Tolerated[r] \in Nat
  BY <1>3, <1>4, FS_CardinalityType, CountsAreNaturals
<1>6. Justified(r) => Justified(r)'
  BY <1>4, <1>5 DEF Justified
<1> QED
  BY <1>2, <1>6

\* The forward trial retires on a full window with too many breaches.
LEMMA RetireIsJustified ==
  ASSUME TypeInv, WindowBounded, NEW x \in RoundState, x.rule \in RuleIds,
         x.snap.observed \subseteq trial[x.rule].observed,
         x.snap.breached \subseteq trial[x.rule].breached,
         ForwardVerdict(x.rule, x.snap) = "retire"
  PROVE  Justified(x.rule)
<1> DEFINE t == trial[x.rule]
<1>1. IsFiniteSet(t.observed) /\ IsFiniteSet(t.breached)
  <2>1. IsFiniteSet(t.observed) /\ t.breached \subseteq t.observed
    BY DEF WindowBounded
  <2> QED
    BY <2>1, FS_Subset
<1>2. /\ IsFiniteSet(x.snap.observed) /\ IsFiniteSet(x.snap.breached)
      /\ Cardinality(x.snap.observed) <= Cardinality(t.observed)
      /\ Cardinality(x.snap.breached) <= Cardinality(t.breached)
  BY <1>1, FS_Subset
<1>3. /\ Cardinality(x.snap.observed) \in Nat /\ Cardinality(t.observed) \in Nat
      /\ Cardinality(x.snap.breached) \in Nat /\ Cardinality(t.breached) \in Nat
      /\ MinSessions \in Nat /\ Tolerated[x.rule] \in Nat
  BY <1>1, <1>2, FS_CardinalityType, CountsAreNaturals
<1>4. /\ ~ (Cardinality(x.snap.observed) < MinSessions)
      /\ ~ (Cardinality(x.snap.breached) <= Tolerated[x.rule])
  BY DEF ForwardVerdict
<1> QED
  BY <1>2, <1>3, <1>4 DEF Justified

LEMMA SnapshotStaysOld ==
  ASSUME TypeInv, WindowBounded, TypeInv', WindowBounded', ForwardInv, [Next]_vars,
         NEW w \in Rounds
  PROVE  SnapshotIsOld(round[w])'
<1> DEFINE x == round[w]
<1>0. x \in RoundState /\ RoundConsistent(x) /\ SnapshotIsOld(x)
  BY DEF TypeInv, TypeOK, RoundsConsistent, ForwardInv
<1>a. PICK y \in {round'[w]} : y = round'[w]
  OBVIOUS
<1>1. RoundMove(x, y)
  BY <1>a, RoundMoves
<1>2. x.rule \in RuleIds =>
        /\ trial[x.rule].observed \subseteq trial'[x.rule].observed
        /\ trial[x.rule].breached \subseteq trial'[x.rule].breached
        /\ Justified(x.rule) => /\ Cardinality(trial'[x.rule].observed) >= MinSessions
                               /\ Cardinality(trial'[x.rule].breached) > Tolerated[x.rule]
  BY EvidenceGrows DEF Justified
<1>3. SUFFICES
        /\ y.pc \in {"replaying", "bumping", "weighing"} =>
             /\ y.snap.observed \subseteq trial'[y.rule].observed
             /\ y.snap.breached \subseteq trial'[y.rule].breached
        /\ y.pc \in {"stamping", "applying"} /\ ForwardRetire(y.verdict) =>
             /\ Cardinality(trial'[y.rule].observed) >= MinSessions
             /\ Cardinality(trial'[y.rule].breached) > Tolerated[y.rule]
  BY <1>a DEF SnapshotIsOld, Justified, ForwardRetire
<1>4. CASE y = x
  BY <1>0, <1>2, <1>4 DEF SnapshotIsOld, RoundConsistent, Working, Justified
<1>5. CASE y.pc \in {"idle", "loading", "ordering", "next"}
  BY <1>5
<1>6. CASE Takes(x, y)
  <2>1. trial[y.rule].observed \subseteq trial'[y.rule].observed
        /\ trial[y.rule].breached \subseteq trial'[y.rule].breached
    BY <1>6, EvidenceGrows DEF Takes
  <2> QED
    BY <1>6, <2>1 DEF Takes
<1>7. CASE Waits(x, y)
  BY <1>0, <1>2, <1>7 DEF Waits, Same, SnapshotIsOld, RoundConsistent, Working
<1>8. CASE Judges(x, y)
  <2>1. x.rule \in RuleIds /\ y.rule = x.rule /\ y.pc = "stamping"
    BY <1>0, <1>8 DEF Judges, RoundConsistent, Working
  <2>2. ForwardRetire(y.verdict) => Justified(x.rule)
    <3> SUFFICES ASSUME ForwardRetire(y.verdict) PROVE Justified(x.rule)
      OBVIOUS
    <3>1. x.pc = "weighing" /\ ForwardVerdict(x.rule, x.snap) = "retire"
      BY <1>8 DEF Judges, ForwardRetire
    <3> QED
      BY <1>0, <2>1, <3>1, RetireIsJustified DEF SnapshotIsOld
  <2> QED
    BY <1>2, <2>1, <2>2 DEF Justified
<1>9. CASE Stamps(x, y)
  BY <1>0, <1>2, <1>9 DEF Stamps, Same, SnapshotIsOld, RoundConsistent, Working, Justified
<1> QED
  BY <1>1, <1>4, <1>5, <1>6, <1>7, <1>8, <1>9
  DEF RoundMove, Loads, Orders, Skips, LeavesOpen, Raises, Returns

LEMMA ForwardStep ==
  ASSUME TypeInv, WindowBounded, TypeInv', WindowBounded', ForwardInv, [Next]_vars
  PROVE  ForwardInv'
<1>1. \A w \in Rounds : SnapshotIsOld(round[w])'
  BY SnapshotStaysOld
<1>2. ASSUME NEW r \in RuleIds, ForwardRetire(trial'[r].verdict)
      PROVE  Justified(r)'
  <2>1. trial[r] \in TrialState /\ TrialEvolves(r, trial[r], trial'[r])
    BY TrialStep DEF TypeInv, TypeOK
  <2>2. trial'[r].verdict = trial[r].verdict \/ Stamped(r, trial[r], trial'[r])
    BY <2>1, VerdictOnlyStamped
  <2>3. CASE trial'[r].verdict = trial[r].verdict
    BY <1>2, <2>3, EvidenceGrows DEF ForwardInv
  <2>4. CASE Stamped(r, trial[r], trial'[r])
    <3>1. PICK w \in Rounds : /\ round[w].pc = "stamping" /\ round[w].rule = r
                              /\ trial'[r] = [trial[r] EXCEPT !.verdict = round[w].verdict]
      BY <2>4 DEF Stamped
    <3>2. trial'[r].verdict = round[w].verdict
      BY <2>1, <3>1 DEF TrialState
    <3>3. Justified(r)
      BY <1>2, <3>1, <3>2 DEF ForwardInv, SnapshotIsOld
    <3> QED
      BY <3>3, EvidenceGrows
  <2> QED
    BY <2>2, <2>3, <2>4
<1>3. \A r \in RuleIds : ForwardRetire(trial'[r].verdict) => Justified(r)'
  BY <1>2
<1> QED
  BY <1>1, <1>3 DEF ForwardInv, ForwardRetire

\* Whatever rounds run next to each other, a forward verdict to retire that is on a
\* trial is justified by the evidence of that trial (RoundWeigh on a snapshot,
\* RoundStamp later).
THEOREM ForwardStampsAreJustified == Spec => []ForwardInv
<1>1. Init => ForwardInv
  BY DEF Init, ForwardInv, SnapshotIsOld, ForwardRetire, NoRound, NewTrial, NoVerdict
<1>2. TypeInv /\ WindowBounded /\ TypeInv' /\ WindowBounded' /\ ForwardInv /\ [Next]_vars
        => ForwardInv'
  BY ForwardStep
<1>3. Spec => []TypeInv
  BY TypeInit, TypeStep, PTL DEF Spec
<1> QED
  BY <1>1, <1>2, <1>3, WindowCorrect, PTL DEF Spec

\* A rule retired by its forward trial is retired on evidence that is still true at
\* the end: a full window with more breaches than its baseline allows, even though
\* the verdict was reached on an old snapshot.  That the stamp on the rule is the
\* verdict it was retired by needs the hook's single flight.
THEOREM ForwardRetirementIsJustified == SingleFlight => (Spec => []ForwardRetirementJustified)
<1> SUFFICES ASSUME SingleFlight PROVE Spec => []ForwardRetirementJustified
  OBVIOUS
<1>1. Spec => []VerdictMatchesStatus
  BY VerdictsAreConsistent
<1>2. ForwardInv /\ VerdictMatchesStatus => ForwardRetirementJustified
  BY DEF ForwardInv, VerdictMatchesStatus, ForwardRetirementJustified, ForwardRetire, Justified
<1> QED
  BY <1>1, <1>2, ForwardStampsAreJustified, PTL

-----------------------------------------------------------------------------
(* What settle_validation() promises                                       *)

Short(r) == Cardinality(trial[r].observed) < MinSessions

\* The round x has r still to do, or has r under way on what it is now, or r is of
\* no matter.
Covered(x, r) ==
  \/ Short(r)
  \/ x.pc \in {"idle", "loading"}
  \/ r \in x.todo
  \/ /\ x.pc \in {"replaying", "bumping", "weighing"} /\ x.rule = r
     /\ x.snap.observed = trial[r].observed

\* Who is quiet sees no report under way; the round of a quiet caller overlooks no
\* candidate as long as it has not decided anything.
SettleInv ==
  /\ quiet # {} => \A s \in Sessions : report[s].pc = "idle"
  /\ SettledMeansDecided
  /\ "error" \notin ReplayOutcomes =>
       \A c \in Callers \cap quiet :
         settler[c] = "rounding" /\ ~round[c].decided =>
           \A r \in Candidates : Covered(round[c], r)

\* The steps that admit evidence or candidates.
LEMMA CandidatesOnlyLeave ==
  ASSUME TypeInv, [Next]_vars, quiet' # {}
  PROVE  Candidates' \subseteq Candidates
<1>0. status \in [RuleIds -> {"absent", "candidate", "active", "retired"}]
  BY DEF TypeInv, TypeOK
<1>1. CASE UNCHANGED status
  BY <1>1 DEF Candidates
<1>2. ASSUME NEW w \in Rounds, RoundApply(w) PROVE Candidates' \subseteq Candidates
  <2>1. \A q \in RuleIds : status'[q] = "candidate" => status[q] = "candidate"
    BY <1>0, <1>2 DEF RoundApply, Transition
  <2> QED
    BY <2>1 DEF Candidates
<1>3. ASSUME NEW w \in Rounds, RoundStep(w) PROVE Candidates' \subseteq Candidates
  BY <1>1, <1>2, <1>3
  DEF RoundStep, RoundLoad, RoundOrder, RoundTake, RoundReplay, RoundBump, RoundWeigh,
      RoundStamp, RoundFinish, Finish
<1>4. \A r \in RuleIds : ~AddCandidate(r)
  BY DEF AddCandidate
<1>5. ASSUME NEW s \in Sessions,
             \/ \E matched \in SUBSET RuleIds : Report(s, matched)
             \/ \E r \in RuleIds : Observe(s, r)
             \/ ReportHandled(s)
             \/ ReportSuperseded(s)
      PROVE  UNCHANGED status
  BY <1>5 DEF Report, Observe, ReportHandled, ReportSuperseded
<1>6. ASSUME NEW c \in Callers,
             \/ SettleValidation(c) \/ SettleDrained(c) \/ SettleRound(c)
             \/ SettleTimeout(c) \/ ValidateCandidates(c)
      PROVE  UNCHANGED status
  BY <1>6
  DEF SettleValidation, SettleDrained, SettleRound, SettleTimeout, ValidateCandidates, Call
<1>7. Restart \/ UNCHANGED vars => UNCHANGED status
  BY DEF Restart, vars
<1> QED
  BY <1>1, <1>3, <1>4, <1>5, <1>6, <1>7 DEF Next

LEMMA QuietIsIdle ==
  ASSUME SettleInv, TypeInv, [Next]_vars, quiet' # {}
  PROVE  \A s \in Sessions : report[s].pc = "idle" /\ report'[s].pc = "idle"
<1>0. report \in [Sessions -> [pc : {"idle", "observing"}, todo : SUBSET RuleIds,
                               matched : SUBSET RuleIds]]
  BY DEF TypeInv, TypeOK
<1>1. CASE UNCHANGED <<report, quiet>>
  BY <1>1 DEF SettleInv
<1>2. ASSUME NEW w \in Rounds, RoundStep(w) PROVE UNCHANGED <<report, quiet>>
  BY <1>2
  DEF RoundStep, RoundLoad, RoundOrder, RoundTake, RoundReplay, RoundBump, RoundWeigh,
      RoundStamp, RoundApply, RoundFinish, Finish
<1>3. ASSUME NEW s \in Sessions,
             \/ \E matched \in SUBSET RuleIds : Report(s, matched)
             \/ \E r \in RuleIds : Observe(s, r)
             \/ ReportHandled(s)
             \/ ReportSuperseded(s)
      PROVE  FALSE
  <2>1. quiet' # {} /\ ~ \E matched \in SUBSET RuleIds : Report(s, matched)
    BY DEF Report
  <2>2. quiet' = quiet /\ report[s].pc = "observing"
    BY <1>3, <2>1 DEF Observe, ReportHandled, ReportSuperseded
  <2> QED
    BY <2>1, <2>2 DEF SettleInv
<1>4. ASSUME NEW c \in Callers, NEW state, Call(c, state)
      PROVE  \A s \in Sessions : report[s].pc = "idle" /\ report'[s].pc = "idle"
  <2>1. report' = report
    BY <1>4 DEF Call
  <2>2. CASE \A s \in Sessions : report[s].pc = "idle"
    BY <2>1, <2>2
  <2>3. CASE ~ \A s \in Sessions : report[s].pc = "idle"
    <3>1. quiet' = quiet \ {c}
      BY <1>4, <2>3 DEF Call
    <3>2. quiet # {}
      BY <3>1
    <3> QED
      BY <2>3, <3>2 DEF SettleInv
  <2> QED
    BY <2>2, <2>3
<1>5. ASSUME NEW c \in Callers,
             \/ SettleValidation(c) \/ SettleDrained(c) \/ SettleRound(c)
             \/ SettleTimeout(c) \/ ValidateCandidates(c)
      PROVE  \A s \in Sessions : report[s].pc = "idle" /\ report'[s].pc = "idle"
  BY <1>1, <1>4, <1>5
  DEF SettleValidation, SettleDrained, SettleRound, SettleTimeout, ValidateCandidates
<1>6. ~Restart /\ \A r \in RuleIds : ~AddCandidate(r)
  BY DEF Restart, AddCandidate
<1>7. UNCHANGED vars => UNCHANGED <<report, quiet>>
  BY DEF vars
<1> QED
  BY <1>1, <1>2, <1>3, <1>5, <1>6, <1>7 DEF Next

\* While somebody is quiet no trial admits a session: only a report does.
LEMMA QuietFreezesEvidence ==
  ASSUME SettleInv, TypeInv, [Next]_vars, quiet' # {}, NEW q \in RuleIds
  PROVE  trial'[q].observed = trial[q].observed
<1>0. trial[q] \in TrialState
  BY DEF TypeInv, TypeOK
<1>1. \A s \in Sessions, r \in RuleIds : ~Observe(s, r)
  BY QuietIsIdle DEF Observe
<1>2. CASE UNCHANGED trial
  BY <1>2
<1>3. ASSUME NEW w \in Rounds, RoundBump(w) PROVE trial'[q].observed = trial[q].observed
  <2>1. round[w].rule \in RuleIds
    BY <1>3 DEF RoundBump, TypeInv, RoundsConsistent, RoundConsistent, Working
  <2>2. UpdateTrial(round[w].rule, [trial[round[w].rule] EXCEPT !.attempts = @ + 1])
    BY <1>3 DEF RoundBump
  <2>3. trial'[q] \in {trial[q], [trial[q] EXCEPT !.attempts = @ + 1]}
    BY <2>1, <2>2, UpdateTrialEffect
  <2> QED
    BY <1>0, <2>3 DEF TrialState
<1>4. ASSUME NEW w \in Rounds, RoundStamp(w) PROVE trial'[q].observed = trial[q].observed
  <2>1. round[w].rule \in RuleIds
    BY <1>4 DEF RoundStamp, TypeInv, RoundsConsistent, RoundConsistent, Working
  <2>2. UpdateTrial(round[w].rule,
                    [trial[round[w].rule] EXCEPT !.verdict = round[w].verdict])
    BY <1>4 DEF RoundStamp
  <2>3. trial'[q] \in {trial[q], [trial[q] EXCEPT !.verdict = round[w].verdict]}
    BY <2>1, <2>2, UpdateTrialEffect
  <2> QED
    BY <1>0, <2>3 DEF TrialState
<1>5. ASSUME NEW w \in Rounds, RoundStep(w) PROVE trial'[q].observed = trial[q].observed
  BY <1>2, <1>3, <1>4, <1>5
  DEF RoundStep, RoundLoad, RoundOrder, RoundTake, RoundReplay, RoundWeigh, RoundApply,
      RoundFinish, Finish
<1>6. ASSUME NEW s \in Sessions,
             \/ \E matched \in SUBSET RuleIds : Report(s, matched)
             \/ ReportHandled(s)
             \/ ReportSuperseded(s)
      PROVE  UNCHANGED trial
  BY <1>6 DEF Report, ReportHandled, ReportSuperseded
<1>7. ASSUME NEW c \in Callers,
             \/ SettleValidation(c) \/ SettleDrained(c) \/ SettleRound(c)
             \/ SettleTimeout(c) \/ ValidateCandidates(c)
      PROVE  UNCHANGED trial
  BY <1>7
  DEF SettleValidation, SettleDrained, SettleRound, SettleTimeout, ValidateCandidates, Call
<1>8. (\E r \in RuleIds : AddCandidate(r)) \/ Restart \/ UNCHANGED vars => UNCHANGED trial
  BY DEF AddCandidate, Restart, vars
<1> QED
  BY <1>1, <1>2, <1>5, <1>6, <1>7, <1>8 DEF Next

\* How a caller comes to be settled.
LEMMA SettledBy ==
  ASSUME TypeInv, [Next]_vars, NEW c \in Callers, c \in settled', c \in quiet'
  PROVE  /\ c \in quiet
         /\ \/ c \in settled
            \/ /\ settler[c] = "rounding"
               /\ \/ Candidates = {}
                  \/ round[c].pc = "next" /\ round[c].todo = {} /\ ~round[c].decided
<1>1. CASE UNCHANGED <<settled, quiet>>
  BY <1>1
<1>2. ASSUME NEW w \in Rounds, RoundStep(w)
      PROVE  /\ quiet' = quiet
             /\ \/ c \in settled
                \/ /\ settler[c] = "rounding"
                   /\ \/ Candidates = {}
                      \/ round[c].pc = "next" /\ round[c].todo = {} /\ ~round[c].decided
  <2>1. CASE RoundLoad(w)
    BY <2>1 DEF RoundLoad, Finish
  <2>2. CASE RoundFinish(w)
    BY <2>2 DEF RoundFinish, Finish
  <2>3. CASE ~RoundLoad(w) /\ ~RoundFinish(w)
    BY <1>2, <2>3
    DEF RoundStep, RoundOrder, RoundTake, RoundReplay, RoundBump, RoundWeigh, RoundStamp,
        RoundApply
  <2> QED
    BY <2>1, <2>2, <2>3
<1>3. ASSUME NEW s \in Sessions,
             \/ \E matched \in SUBSET RuleIds : Report(s, matched)
             \/ \E r \in RuleIds : Observe(s, r)
             \/ ReportHandled(s)
             \/ ReportSuperseded(s)
      PROVE  UNCHANGED <<settled, quiet>>
  BY <1>3 DEF Report, Observe, ReportHandled, ReportSuperseded
<1>4. ASSUME NEW d \in Callers, NEW state, Call(d, state)
      PROVE  c \in settled /\ c \in quiet
  <2>1. c # d /\ c \in settled
    BY <1>4 DEF Call
  <2>2. quiet' = quiet \cup {d} \/ quiet' = quiet \ {d}
    BY <1>4 DEF Call
  <2> QED
    BY <2>1, <2>2
<1>5. ASSUME NEW d \in Callers,
             \/ SettleValidation(d) \/ SettleDrained(d) \/ SettleRound(d)
             \/ SettleTimeout(d) \/ ValidateCandidates(d)
      PROVE  c \in settled /\ c \in quiet
  BY <1>4, <1>5
  DEF SettleValidation, SettleDrained, SettleRound, SettleTimeout, ValidateCandidates
<1>6. ~Restart /\ \A r \in RuleIds : ~AddCandidate(r)
  BY DEF Restart, AddCandidate
<1>7. UNCHANGED vars => UNCHANGED <<settled, quiet>>
  BY DEF vars
<1> QED
  BY <1>1, <1>2, <1>3, <1>5, <1>6, <1>7 DEF Next

\* How a quiet caller comes to wait for a round of its own.
LEMMA RoundingBy ==
  ASSUME TypeInv, [Next]_vars, NEW c \in Callers, c \in quiet', settler'[c] = "rounding"
  PROVE  /\ c \in quiet
         /\ settler[c] = "rounding" \/ round'[c].pc = "loading"
<1>0. /\ settler \in [Callers -> {"out", "draining", "drained", "rounding"}]
      /\ round \in [Rounds -> RoundState] /\ Callers \subseteq Rounds
  BY DEF TypeInv, TypeOK, Rounds
<1>1. CASE UNCHANGED <<settler, quiet>>
  BY <1>1
<1>2. ASSUME NEW w \in Rounds, RoundStep(w) PROVE quiet' = quiet /\ settler[c] = "rounding"
  <2>1. CASE \E decided \in {TRUE, FALSE, round[w].decided} : Finish(w, decided)
    BY <1>0, <2>1 DEF Finish
  <2>2. CASE ~ \E decided \in {TRUE, FALSE, round[w].decided} : Finish(w, decided)
    BY <1>2, <2>2
    DEF RoundStep, RoundLoad, RoundOrder, RoundTake, RoundReplay, RoundBump, RoundWeigh,
        RoundStamp, RoundApply, RoundFinish
  <2> QED
    BY <2>1, <2>2
<1>3. ASSUME NEW s \in Sessions,
             \/ \E matched \in SUBSET RuleIds : Report(s, matched)
             \/ \E r \in RuleIds : Observe(s, r)
             \/ ReportHandled(s)
             \/ ReportSuperseded(s)
      PROVE  UNCHANGED <<settler, quiet>>
  BY <1>3 DEF Report, Observe, ReportHandled, ReportSuperseded
<1>4. ASSUME NEW d \in Callers, NEW state \in {"draining", "out"}, Call(d, state)
      PROVE  c \in quiet /\ settler[c] = "rounding"
  <2>1. c # d /\ settler'[c] = settler[c]
    BY <1>0, <1>4 DEF Call
  <2>2. quiet' = quiet \cup {d} \/ quiet' = quiet \ {d}
    BY <1>4 DEF Call
  <2> QED
    BY <2>1, <2>2
<1>5. ASSUME NEW d \in Callers, SettleRound(d)
      PROVE  c \in quiet /\ (settler[c] = "rounding" \/ round'[c].pc = "loading")
  <2>1. CASE c = d
    BY <1>0, <1>5, <2>1 DEF SettleRound, RoundState
  <2>2. CASE c # d
    BY <1>0, <1>5, <2>2 DEF SettleRound
  <2> QED
    BY <2>1, <2>2
<1>6. ASSUME NEW d \in Callers, SettleDrained(d) \/ SettleTimeout(d)
      PROVE  c \in quiet /\ settler[c] = "rounding"
  BY <1>0, <1>6 DEF SettleDrained, SettleTimeout
<1>7. ASSUME NEW d \in Callers, SettleValidation(d) \/ ValidateCandidates(d)
      PROVE  c \in quiet /\ settler[c] = "rounding"
  BY <1>4, <1>7 DEF SettleValidation, ValidateCandidates
<1>8. ~Restart /\ \A r \in RuleIds : ~AddCandidate(r)
  BY DEF Restart, AddCandidate
<1>9. UNCHANGED vars => UNCHANGED <<settler, quiet>>
  BY DEF vars
<1> QED
  BY <1>1, <1>2, <1>3, <1>5, <1>6, <1>7, <1>8, <1>9 DEF Next

\* A move of a round that has not decided anything drops no candidate.
LEMMA MoveCovers ==
  ASSUME NEW x, NEW y, RoundMove(x, y), "error" \notin ReplayOutcomes, ~y.decided,
         NEW r \in RuleIds, r \in Candidates, trial'[r].observed = trial[r].observed,
         ~x.decided => Covered(x, r)
  PROVE  \/ Short(r)
         \/ y.pc \in {"idle", "loading"}
         \/ r \in y.todo
         \/ /\ y.pc \in {"replaying", "bumping", "weighing"} /\ y.rule = r
            /\ y.snap.observed = trial'[r].observed
<1>0. status[r] = "candidate"
  BY DEF Candidates
<1>1. CASE y = x \/ y.pc \in {"idle", "loading"}
  BY <1>1 DEF Covered
<1>2. CASE Loads(x, y) \/ Orders(x, y) \/ Skips(x, y) \/ Takes(x, y) \/ Waits(x, y)
  BY <1>0, <1>2 DEF Loads, Orders, Skips, Takes, Waits, Same, Covered
<1>3. CASE Judges(x, y) \/ Raises(x, y)
  BY <1>3 DEF Judges, Raises
<1>4. CASE LeavesOpen(x, y)
  <2>1. x.snap.observed = trial[r].observed /\ x.rule = r => Short(r)
    BY <1>4 DEF LeavesOpen, ForwardVerdict, Short
  <2> QED
    BY <1>4, <2>1 DEF LeavesOpen, Covered
<1>5. CASE Stamps(x, y) \/ Returns(x, y)
  BY <1>5 DEF Stamps, Returns, Same, Covered
<1> QED
  BY <1>1, <1>2, <1>3, <1>4, <1>5 DEF RoundMove

LEMMA SettleStep ==
  ASSUME TypeInv, SettleInv, [Next]_vars
  PROVE  SettleInv'
<1>1. quiet' # {} => \A s \in Sessions : report'[s].pc = "idle"
  BY QuietIsIdle
<1>2. ASSUME "error" \notin ReplayOutcomes, NEW c \in settled' \cap quiet', NEW r \in Candidates'
      PROVE  Cardinality(trial'[r].observed) < MinSessions
  <2>1. c \in Callers /\ r \in RuleIds
    BY <1>2, TypeStep DEF TypeInv, TypeOK, Candidates
  <2>2. r \in Candidates /\ trial'[r].observed = trial[r].observed
    BY <1>2, <2>1, CandidatesOnlyLeave, QuietFreezesEvidence
  <2>3. CASE c \in settled
    <3>1. c \in settled \cap quiet
      BY <1>2, <2>1, <2>3, SettledBy
    <3> QED
      BY <1>2, <2>2, <3>1 DEF SettleInv, SettledMeansDecided
  <2>4. CASE c \notin settled
    <3>1. /\ c \in quiet /\ settler[c] = "rounding"
          /\ round[c].pc = "next" /\ round[c].todo = {} /\ ~round[c].decided
      BY <1>2, <2>1, <2>2, <2>4, SettledBy
    <3>2. Covered(round[c], r)
      BY <1>2, <2>1, <2>2, <3>1 DEF SettleInv
    <3> QED
      BY <2>2, <3>1, <3>2 DEF Covered, Short
  <2> QED
    BY <2>3, <2>4
<1>3. ASSUME "error" \notin ReplayOutcomes, NEW c \in Callers \cap quiet',
             settler'[c] = "rounding", ~round'[c].decided, NEW r \in Candidates'
      PROVE  Covered(round[c], r)'
  <2>1. r \in RuleIds /\ c \in Rounds
    BY DEF Candidates, Rounds
  <2>2. r \in Candidates /\ trial'[r].observed = trial[r].observed
    BY <1>3, <2>1, CandidatesOnlyLeave, QuietFreezesEvidence
  <2>3. CASE round'[c].pc = "loading"
    BY <2>3 DEF Covered
  <2>4. CASE round'[c].pc # "loading"
    <3>1. c \in quiet /\ settler[c] = "rounding"
      BY <1>3, <2>4, RoundingBy
    <3>2. ~round[c].decided => Covered(round[c], r)
      BY <1>3, <2>2, <3>1 DEF SettleInv
    <3>3. RoundMove(round[c], round'[c])
      BY <2>1, RoundMoves
    <3>4. \/ Short(r)
          \/ round'[c].pc \in {"idle", "loading"}
          \/ r \in round'[c].todo
          \/ /\ round'[c].pc \in {"replaying", "bumping", "weighing"} /\ round'[c].rule = r
             /\ round'[c].snap.observed = trial'[r].observed
      BY <1>3, <2>1, <2>2, <3>2, <3>3, MoveCovers
    <3> QED
      BY <2>2, <3>4 DEF Covered, Short
  <2> QED
    BY <2>3, <2>4
<1>4. SettledMeansDecided'
  BY <1>2 DEF SettledMeansDecided
<1> QED
  BY <1>1, <1>3, <1>4 DEF SettleInv

\* When settle_validation returned True, no turn has run since it was called and no
\* replay raised, no candidate is left whose forward trial would decide it: neither
\* a spent budget nor a round of somebody else hides one from it (hook/core.py).
THEOREM SettledIsDecided == Spec => []SettledMeansDecided
<1>1. Init => SettleInv
  BY DEF Init, SettleInv, SettledMeansDecided
<1>2. TypeInv /\ SettleInv /\ [Next]_vars => SettleInv'
  BY SettleStep
<1>3. SettleInv => SettledMeansDecided
  BY DEF SettleInv
<1>4. Spec => []TypeInv
  BY TypeInit, TypeStep, PTL DEF Spec
<1> QED
  BY <1>1, <1>2, <1>3, <1>4, PTL DEF Spec

=============================================================================
