--------------------------- MODULE RuleValidation ---------------------------
(***************************************************************************)
(* Candidate validation: the rules store (workspace/rules.py), the         *)
(* validation engine (validation/validator.py) and the part of the hook    *)
(* that starts and drains rounds (hook/core.py).                           *)
(*                                                                         *)
(* Three kinds of actor share the store.  A repair episode adds a          *)
(* candidate.  The report handler of a session records the session against *)
(* every open trial.  A round walks over the candidates, judges each by    *)
(* replay or by its forward trial, and applies the verdict.  Each access   *)
(* to the store takes its lock once, so one access is one step; between    *)
(* two accesses a round awaits a thread and anybody else may run.          *)
(*                                                                         *)
(* Rules are numbered in the order of their creation, which is the order   *)
(* RulesStore.all() returns.  Scores, rule texts and replay sessions are   *)
(* abstracted to the outcome a replay yields.                              *)
(***************************************************************************)
EXTENDS Integers, FiniteSets

CONSTANTS
  MaxRules,           \* bound: how many rules are ever added
  Sessions,           \* live task sessions
  MinSessions,        \* rule_trial_min_sessions, the size of a full trial
  Tolerated,          \* Tolerated[r]: the most breached sessions of a full trial
                      \* whose rate is 0 or beats r's baseline by the margin
  MaxReplayAttempts,  \* _MAX_REPLAY_ATTEMPTS
  ReplayOutcomes,     \* what a replay may yield; {} when none is wired
  RoundBudget,        \* TRUE iff validation_round_budget_s > 0
  Callers             \* tasks that run settle_validation or validate_candidates

RuleIds == 1..MaxRules
Verdicts == {"promote", "retire"}
Background == "background"   \* the round of _spawn_validation()
Rounds == {Background} \cup Callers

ASSUME CountsAreNaturals ==
  /\ MaxRules \in Nat
  /\ MinSessions \in Nat
  /\ MaxReplayAttempts \in Nat
  /\ Tolerated \in [RuleIds -> Nat]
ASSUME OutcomesAreKnown ==
  /\ ReplayOutcomes \subseteq Verdicts \cup {"pending", "error"}
  /\ RoundBudget \in BOOLEAN
ASSUME BackgroundIsNoCaller == Background \notin Callers

VARIABLES
  status,    \* status[r]: the latest status of r in rules.jsonl, or "absent"
  trial,     \* trial[r]: r's TrialState
  cursor,    \* the engine's _cursor: the head of the last round, 0 for None
  round,     \* round[w]: the evaluate_candidates() call w is running
  report,    \* report[s]: the observation of s's report, still under way
  settler,   \* settler[c]: where caller c stands in settle_validation
  settled,   \* callers whose last settle_validation returned True
  quiet      \* callers since whose call no turn ran and no rule was added

vars == <<status, trial, cursor, round, report, settler, settled, quiet>>

NoVerdict == [outcome |-> "none", by |-> "nobody"]
NewTrial == [observed |-> {}, breached |-> {}, attempts |-> 0, verdict |-> NoVerdict]
NoRound ==
  [pc |-> "idle", todo |-> {}, pivot |-> 0, rule |-> 0, snap |-> NewTrial,
   verdict |-> NoVerdict, late |-> FALSE, decided |-> FALSE]
NoReport == [pc |-> "idle", todo |-> {}, matched |-> {}]

\* The rules of the store that still await a verdict: RulesStore.candidates().
Candidates == {r \in RuleIds : status[r] = "candidate"}

Init ==
  /\ status = [r \in RuleIds |-> "absent"]
  /\ trial = [r \in RuleIds |-> NewTrial]
  /\ cursor = 0
  /\ round = [w \in Rounds |-> NoRound]
  /\ report = [s \in Sessions |-> NoReport]
  /\ settler = [c \in Callers |-> "out"]
  /\ settled = {}
  /\ quiet = {}

-----------------------------------------------------------------------------
(* The store: every write takes the lock once and works on what it reads.  *)

\* RulesStore.add(): the next rule enters as a candidate with a fresh trial.
AddCandidate(r) ==
  /\ status[r] = "absent"
  /\ \A q \in RuleIds : q < r => status[q] # "absent"
  /\ status' = [status EXCEPT ![r] = "candidate"]
  /\ quiet' = {}
  /\ UNCHANGED <<trial, cursor, round, report, settler, settled>>

\* Mistake: evidence is written to a rule that was decided meanwhile.
UpdateTrialUnchecked(r, new) == trial' = [trial EXCEPT ![r] = new]

\* update_trial(): the mutation sees the trial as it is under the lock; a rule
\* that is no candidate any more raises KeyError and nothing is written.
UpdateTrial(r, new) ==
  trial' = IF status[r] = "candidate" THEN [trial EXCEPT ![r] = new] ELSE trial

-----------------------------------------------------------------------------
(* Observation of reports.                                                 *)

\* A report of session s is handled: observe_report() lists the candidates.
\* matched are those whose metric family the report's signatures fall in.
Report(s, matched) ==
  /\ report[s].pc = "idle"
  /\ matched \subseteq Candidates
  /\ report' = [report EXCEPT
       ![s] = [pc |-> "observing", todo |-> Candidates, matched |-> matched]]
  /\ quiet' = {}
  /\ UNCHANGED <<status, trial, cursor, round, settler, settled>>

\* Mistake: the window is never full.
ObservedPastWindow(t, s, failed) ==
  [t EXCEPT !.observed = @ \cup {s}, !.breached = IF failed THEN @ \cup {s} ELSE @]

\* The closure _observe: a full window admits no new session.
Observed(t, s, failed) ==
  IF s \notin t.observed /\ Cardinality(t.observed) >= MinSessions
  THEN t
  ELSE [t EXCEPT !.observed = @ \cup {s},
                 !.breached = IF failed THEN @ \cup {s} ELSE @]

Observe(s, r) ==
  /\ report[s].pc = "observing"
  /\ r \in report[s].todo
  /\ UpdateTrial(r, Observed(trial[r], s, r \in report[s].matched))
  /\ report' = [report EXCEPT ![s].todo = @ \ {r}]
  /\ UNCHANGED <<status, cursor, round, settler, settled, quiet>>

\* The handler spawns a round unless the hook has one under way.
ReportHandled(s) ==
  /\ report[s].pc = "observing"
  /\ report[s].todo = {}
  /\ report' = [report EXCEPT ![s] = NoReport]
  /\ round' = IF round[Background].pc = "idle"
              THEN [round EXCEPT ![Background].pc = "loading"]
              ELSE round
  /\ UNCHANGED <<status, trial, cursor, settler, settled, quiet>>

\* A newer turn of the session has cancelled the handler: the thread's work is
\* done, but no round is spawned.
ReportSuperseded(s) ==
  /\ report[s].pc = "observing"
  /\ report[s].todo = {}
  /\ report' = [report EXCEPT ![s] = NoReport]
  /\ UNCHANGED <<status, trial, cursor, round, settler, settled, quiet>>

-----------------------------------------------------------------------------
(* A round: evaluate_candidates().                                         *)

\* A round over todo starts past pivot and wraps around.
Upcoming(todo, pivot) ==
  LET later == {r \in todo : r > pivot}
      pool == IF later # {} THEN later ELSE todo
  IN CHOOSE r \in pool : \A q \in pool : r <= q

\* The call returns.  settle_validation starts over if the round decided
\* anything, and returns True if it did not.
Finish(w, decided) ==
  /\ round' = [round EXCEPT ![w] = NoRound]
  /\ IF w \in Callers /\ settler[w] = "rounding"
     THEN /\ settler' = [settler EXCEPT ![w] = IF decided THEN "draining" ELSE "out"]
          /\ settled' = IF decided THEN settled ELSE settled \cup {w}
     ELSE UNCHANGED <<settler, settled>>
  /\ UNCHANGED <<status, trial, cursor, report, quiet>>

RoundLoad(w) ==
  /\ round[w].pc = "loading"
  /\ IF Candidates = {}
     THEN Finish(w, FALSE)
     ELSE /\ round' = [round EXCEPT ![w].pc = "ordering", ![w].todo = Candidates]
          /\ UNCHANGED <<status, trial, cursor, report, settler, settled, quiet>>

\* _round_order(): resume past the head of the previous round, if it is still a
\* candidate, and remember this round's head.
RoundOrder(w) ==
  /\ round[w].pc = "ordering"
  /\ LET pivot == IF cursor \in round[w].todo THEN cursor ELSE 0
     IN /\ round' = [round EXCEPT ![w].pc = "next", ![w].pivot = pivot]
        /\ cursor' = Upcoming(round[w].todo, pivot)
  /\ UNCHANGED <<status, trial, report, settler, settled, quiet>>

\* Mistake: past the budget a candidate is passed over, forward trial and all.
RoundTakeStarving(w) ==
  /\ round[w].pc = "next"
  /\ round[w].todo # {}
  /\ LET r == Upcoming(round[w].todo, round[w].pivot)
         rest == round[w].todo \ {r}
     IN \E late \in BOOLEAN :
          /\ late => RoundBudget
          /\ round[w].late => late
          /\ round' = IF status[r] # "candidate" \/ late
               THEN [round EXCEPT ![w].todo = rest, ![w].late = late]
               ELSE [round EXCEPT ![w].todo = rest, ![w].rule = r, ![w].snap = trial[r],
                      ![w].pc = IF /\ ReplayOutcomes # {}
                                   /\ trial[r].attempts < MaxReplayAttempts
                                THEN "replaying" ELSE "weighing"]
  /\ UNCHANGED <<status, trial, cursor, report, settler, settled, quiet>>

\* The loop head: read the next candidate afresh, skip it if it was decided
\* meanwhile.  Past the budget no replay is allowed for the rest of the round.
RoundTake(w) ==
  /\ round[w].pc = "next"
  /\ round[w].todo # {}
  /\ LET r == Upcoming(round[w].todo, round[w].pivot)
         rest == round[w].todo \ {r}
     IN IF status[r] # "candidate"
        THEN round' = [round EXCEPT ![w].todo = rest]
        ELSE \E late \in BOOLEAN :
               /\ late => RoundBudget
               /\ round[w].late => late
               /\ round' = [round EXCEPT
                    ![w].todo = rest, ![w].rule = r, ![w].snap = trial[r],
                    ![w].late = late,
                    ![w].pc = IF /\ ReplayOutcomes # {}
                                 /\ ~late
                                 /\ trial[r].attempts < MaxReplayAttempts
                              THEN "replaying" ELSE "weighing"]
  /\ UNCHANGED <<status, trial, cursor, report, settler, settled, quiet>>

\* A new iteration: nothing of the last one is used again.
LoopHead(x) ==
  [x EXCEPT !.pc = "next", !.rule = 0, !.snap = NewTrial, !.verdict = NoVerdict]

\* A verdict was reached; the snapshot it rests on is not read again.
Judged(x, outcome, by) ==
  [x EXCEPT !.pc = "stamping", !.snap = NewTrial, !.decided = TRUE,
            !.verdict = [outcome |-> outcome, by |-> by]]

\* Mistake: an inconclusive replay ends the matter, uncounted.
RoundReplayWithoutFallback(w, outcome) ==
  /\ round[w].pc = "replaying"
  /\ round' = [round EXCEPT ![w] =
       IF outcome \in Verdicts THEN Judged(@, outcome, "replay") ELSE LoopHead(@)]
  /\ UNCHANGED <<status, trial, cursor, report, settler, settled, quiet>>

\* ReplayValidator.validate() answers, possibly minutes later.  An inconclusive
\* replay falls through to the forward trial; an exception skips the rule.
RoundReplay(w, outcome) ==
  /\ round[w].pc = "replaying"
  /\ round' = [round EXCEPT ![w] =
       CASE outcome \in Verdicts -> Judged(@, outcome, "replay")
         [] outcome = "pending" -> [@ EXCEPT !.pc = "bumping"]
         [] OTHER -> LoopHead(@)]
  /\ UNCHANGED <<status, trial, cursor, report, settler, settled, quiet>>

\* Mistake: the attempt is counted on the trial as it was before the replay.
RoundBumpOnSnapshot(w) ==
  LET r == round[w].rule
  IN /\ round[w].pc = "bumping"
     /\ UpdateTrial(r, [round[w].snap EXCEPT !.attempts = @ + 1])
     /\ round' = [round EXCEPT ![w].pc = "weighing"]
     /\ UNCHANGED <<status, cursor, report, settler, settled, quiet>>

\* Every inconclusive replay is counted, on the trial as it is by now.
RoundBump(w) ==
  LET r == round[w].rule
  IN /\ round[w].pc = "bumping"
     /\ UpdateTrial(r, [trial[r] EXCEPT !.attempts = @ + 1])
     /\ round' = [round EXCEPT ![w].pc = "weighing"]
     /\ UNCHANGED <<status, cursor, report, settler, settled, quiet>>

\* Mistake: a rate equal to the tolerated one no longer promotes.
ForwardVerdictStrict(r, t) ==
  IF Cardinality(t.observed) < MinSessions THEN "pending"
  ELSE IF Cardinality(t.breached) < Tolerated[r] THEN "promote"
  ELSE "retire"

\* ForwardTrialValidator.validate()
ForwardVerdict(r, t) ==
  IF Cardinality(t.observed) < MinSessions THEN "pending"
  ELSE IF Cardinality(t.breached) <= Tolerated[r] THEN "promote"
  ELSE "retire"

\* The forward trial judges the rule as the loop head read it.
RoundWeigh(w) ==
  /\ round[w].pc = "weighing"
  /\ LET outcome == ForwardVerdict(round[w].rule, round[w].snap)
     IN round' = [round EXCEPT ![w] =
          IF outcome = "pending" THEN LoopHead(@) ELSE Judged(@, outcome, "forward")]
  /\ UNCHANGED <<status, trial, cursor, report, settler, settled, quiet>>

\* Mistake: the verdict is applied without having been stamped.
RoundStampForgotten(w) ==
  /\ round[w].pc = "stamping"
  /\ round' = [round EXCEPT ![w] =
       IF status[round[w].rule] = "candidate" THEN [@ EXCEPT !.pc = "applying"]
       ELSE LoopHead(@)]
  /\ UNCHANGED <<status, trial, cursor, report, settler, settled, quiet>>

\* _apply(), first half: stamp the verdict on the trial of a candidate.
RoundStamp(w) ==
  LET r == round[w].rule
  IN /\ round[w].pc = "stamping"
     /\ UpdateTrial(r, [trial[r] EXCEPT !.verdict = round[w].verdict])
     /\ round' = [round EXCEPT ![w] =
          IF status[r] = "candidate" THEN [@ EXCEPT !.pc = "applying"] ELSE LoopHead(@)]
     /\ UNCHANGED <<status, cursor, report, settler, settled, quiet>>

\* Mistake: the verdict's word is stored where the status belongs.
TransitionToVerdict(r, outcome) ==
  IF status[r] = "candidate" THEN status' = [status EXCEPT ![r] = outcome]
  ELSE UNCHANGED status

\* promote() takes a candidate only, retire() any live rule; otherwise KeyError.
Transition(r, outcome) ==
  CASE outcome = "promote" /\ status[r] = "candidate" ->
         status' = [status EXCEPT ![r] = "active"]
    [] outcome = "retire" /\ status[r] \in {"candidate", "active"} ->
         status' = [status EXCEPT ![r] = "retired"]
    [] OTHER -> UNCHANGED status

\* _apply(), second half, in a second critical section.
RoundApply(w) ==
  /\ round[w].pc = "applying"
  /\ Transition(round[w].rule, round[w].verdict.outcome)
  /\ round' = [round EXCEPT ![w] = LoopHead(@)]
  /\ UNCHANGED <<trial, cursor, report, settler, settled, quiet>>

RoundFinish(w) ==
  /\ round[w].pc = "next"
  /\ round[w].todo = {}
  /\ Finish(w, round[w].decided)

RoundStep(w) ==
  \/ RoundLoad(w) \/ RoundOrder(w) \/ RoundTake(w)
  \/ \E outcome \in ReplayOutcomes : RoundReplay(w, outcome)
  \/ RoundBump(w) \/ RoundWeigh(w) \/ RoundStamp(w) \/ RoundApply(w)
  \/ RoundFinish(w)

-----------------------------------------------------------------------------
(* Explicit callers: settle_validation() and validate_candidates() await a *)
(* round of their own, which the hook does not register.                   *)

Call(c, state) ==
  /\ settler[c] = "out"
  /\ round[c].pc = "idle"
  /\ settler' = [settler EXCEPT ![c] = state]
  /\ settled' = settled \ {c}
  /\ quiet' = IF \A s \in Sessions : report[s].pc = "idle"
              THEN quiet \cup {c} ELSE quiet \ {c}
  /\ UNCHANGED <<status, trial, cursor, report>>

SettleValidation(c) == Call(c, "draining") /\ UNCHANGED round

\* drain_validation() returns True: the background round is over.  The next one
\* may start before the caller goes on.
SettleDrained(c) ==
  /\ settler[c] = "draining"
  /\ round[Background].pc = "idle"
  /\ settler' = [settler EXCEPT ![c] = "drained"]
  /\ UNCHANGED <<status, trial, cursor, round, report, settled, quiet>>

\* The caller runs a round of its own.
SettleRound(c) ==
  /\ settler[c] = "drained"
  /\ settler' = [settler EXCEPT ![c] = "rounding"]
  /\ round' = [round EXCEPT ![c].pc = "loading"]
  /\ UNCHANGED <<status, trial, cursor, report, settled, quiet>>

\* The budget expires: settle_validation returns False.  The shielded round
\* keeps running with nobody waiting for it.
SettleTimeout(c) ==
  /\ settler[c] \in {"draining", "drained", "rounding"}
  /\ settler' = [settler EXCEPT ![c] = "out"]
  /\ UNCHANGED <<status, trial, cursor, round, report, settled, quiet>>

ValidateCandidates(c) ==
  /\ Call(c, "out")
  /\ round' = [round EXCEPT ![c].pc = "loading"]

-----------------------------------------------------------------------------
\* The process dies and starts again: only rules.jsonl survives.
Restart ==
  /\ cursor' = 0
  /\ round' = [w \in Rounds |-> NoRound]
  /\ report' = [s \in Sessions |-> NoReport]
  /\ settler' = [c \in Callers |-> "out"]
  /\ settled' = {}
  /\ quiet' = {}
  /\ UNCHANGED <<status, trial>>

Next ==
  \/ \E r \in RuleIds : AddCandidate(r)
  \/ \E s \in Sessions :
       \/ \E matched \in SUBSET RuleIds : Report(s, matched)
       \/ \E r \in RuleIds : Observe(s, r)
       \/ ReportHandled(s)
       \/ ReportSuperseded(s)
  \/ \E w \in Rounds : RoundStep(w)
  \/ \E c \in Callers :
       \/ SettleValidation(c) \/ SettleDrained(c) \/ SettleRound(c)
       \/ SettleTimeout(c) \/ ValidateCandidates(c)
  \/ Restart

Spec == Init /\ [][Next]_vars

\* A round and an observer run to their end: replays are bounded by
\* replay_timeout_s and every other step is a local file access.  Each session
\* keeps taking turns, so its reports keep coming, not all of them superseded, and
\* the process does not die for ever.
Fairness ==
  /\ <>[][~Restart]_vars
  /\ \A w \in Rounds : WF_vars(RoundStep(w))
  /\ \A s \in Sessions :
       /\ WF_vars(\E matched \in SUBSET RuleIds : Report(s, matched))
       /\ WF_vars(\E r \in RuleIds : Observe(s, r))
       /\ SF_vars(ReportHandled(s))

FairSpec == Spec /\ Fairness

-----------------------------------------------------------------------------
(* Properties *)

Verdict == {NoVerdict} \cup [outcome : Verdicts, by : {"replay", "forward"}]
TrialState ==
  [observed : SUBSET Sessions, breached : SUBSET Sessions,
   attempts : Nat, verdict : Verdict]
RoundState ==
  [pc : {"idle", "loading", "ordering", "next", "replaying", "bumping",
         "weighing", "stamping", "applying"},
   todo : SUBSET RuleIds, pivot : 0..MaxRules, rule : 0..MaxRules,
   snap : TrialState, verdict : Verdict, late : BOOLEAN, decided : BOOLEAN]

\* Every variable keeps its shape.
TypeOK ==
  /\ status \in [RuleIds -> {"absent", "candidate", "active", "retired"}]
  /\ trial \in [RuleIds -> TrialState]
  /\ cursor \in 0..MaxRules
  /\ round \in [Rounds -> RoundState]
  /\ report \in [Sessions -> [pc : {"idle", "observing"}, todo : SUBSET RuleIds,
                              matched : SUBSET RuleIds]]
  /\ settler \in [Callers -> {"out", "draining", "drained", "rounding"}]
  /\ settled \in SUBSET Callers
  /\ quiet \in SUBSET Callers

\* However many reports are observed at once, a trial admits MinSessions
\* distinct sessions at most, and only an admitted session can have failed it
\* (the closure of observe_report runs under the store lock).
WindowBounded ==
  \A r \in RuleIds :
    /\ IsFiniteSet(trial[r].observed)
    /\ Cardinality(trial[r].observed) <= MinSessions
    /\ trial[r].breached \subseteq trial[r].observed

\* The verdict stamped on a decided rule is the decision it got: the two halves
\* of _apply() are separate critical sections, and a restart may fall between
\* them, yet no rule ends up active on a "retired" stamp or the reverse.
VerdictMatchesStatus ==
  \A r \in RuleIds :
    /\ status[r] = "active" => trial[r].verdict.outcome = "promote"
    /\ status[r] = "retired" => trial[r].verdict.outcome = "retire"

\* A rule retired by its forward trial is retired on evidence that is still
\* true at the end: a full window with more breaches than its baseline allows,
\* even though the verdict was reached on a snapshot that may be old.
ForwardRetirementJustified ==
  \A r \in RuleIds :
    status[r] = "retired" /\ trial[r].verdict.by = "forward" =>
      /\ Cardinality(trial[r].observed) >= MinSessions
      /\ Cardinality(trial[r].breached) > Tolerated[r]

\* Validation implements the lifecycle: one decision per rule, evidence that is
\* only added, and only while the rule is a candidate and the window admits it.
Lifecycle ==
  INSTANCE RuleLifecycle WITH
    Rules <- RuleIds, Window <- MinSessions,
    observed <- [r \in RuleIds |-> trial[r].observed],
    breached <- [r \in RuleIds |-> trial[r].breached]
LifecycleSpec == Lifecycle!Spec

\* README.md:70: "every candidate reaches a verdict".  Replay may stay inconclusive
\* for ever; the forward trial decides once enough sessions have reported.
EveryCandidateDecided ==
  \A r \in RuleIds :
    status[r] = "candidate" ~> status[r] \in {"active", "retired"}

\* Evidence of a trial is never lost, whoever writes the record next: rounds
\* stamp and bump it, other sessions extend it, and promotion copies it.
EvidenceKept ==
  [][\A r \in RuleIds :
       /\ trial[r].observed \subseteq trial'[r].observed
       /\ trial[r].breached \subseteq trial'[r].breached
       /\ trial[r].attempts <= trial'[r].attempts]_vars

\* When settle_validation returned True, no turn has run since it was called and
\* no replay raised, no candidate is left whose forward trial would decide it:
\* neither a spent budget nor a round of somebody else hides one from it.
SettledMeansDecided ==
  "error" \notin ReplayOutcomes =>
    \A c \in settled \cap quiet : \A r \in Candidates :
      Cardinality(trial[r].observed) < MinSessions

\* tests/unit/test_validation.py:1014: "Two rounds racing on one candidate
\* produce one transition, not a conflict."
OneTransition ==
  [][\A r \in RuleIds : status[r] \in {"active", "retired"} => status'[r] = status[r]]_vars
=============================================================================
