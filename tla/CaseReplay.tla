----------------------------- MODULE CaseReplay -----------------------------
(***************************************************************************)
(* Replaying cases: a validation round judges one candidate rule by the    *)
(* failures it matches and by known wins (validation/validator.py,         *)
(* ReplayValidator), a regression run judges the rules as they are by the  *)
(* whole set (validation/regression.py).  Both replay case after case with *)
(* one context and one toolset for all of them, and score each replayed    *)
(* session with a batch.                                                   *)
(*                                                                         *)
(* The replay is the developer's: it may wait for an environment, read the *)
(* candidate or not, raise, or hang; work it has moved to a thread goes on *)
(* after it was cancelled.                                                 *)
(***************************************************************************)
EXTENDS EvalSet, Integers, Sequences, SequencesExt

CONSTANTS
  Matched,        \* keys that overlap the candidate's target signatures
  Targets,        \* the candidate's target metrics, most authoritative first
  RetireOn,       \* _retirement_metrics(): whose decline on a failure retires
  PromoteMargin,  \* rule_promote_margin
  RegressMargin,  \* rule_regress_margin
  MaxFailures,    \* _MAX_FAILURE_CASES
  MaxWins,        \* _MAX_WIN_CASES
  Sample,         \* regression_sample, 0 for all
  EnvWait         \* TRUE iff replay_env_wait_timeout_s > 0

ASSUME ReplayLimits ==
  /\ {PromoteMargin, RegressMargin, Sample} \subseteq Nat
  /\ {MaxFailures, MaxWins} \subseteq Nat \ {0}
  /\ Targets \in Seq(Metrics) /\ RetireOn \subseteq Metrics /\ EnvWait \in BOOLEAN

VARIABLES
  round,    \* where the round or the run stands
  context,  \* what its ReplayContext and TaskToolset remember
  details   \* the outcomes of the cases so far, and the verdict

replayVars == <<round, context, details>>

NoRound == [kind |-> "none", pc |-> "off", todo |-> <<>>, batch |-> NoBatch]
NoContext == [surfaced |-> FALSE, started |-> FALSE, stray |-> FALSE]
NoDetails == [cases |-> <<>>, verdict |-> "none"]

ReplayInit ==
  /\ round = NoRound
  /\ context = NoContext
  /\ details = NoDetails

ThisCase == Head(round.todo)

\* Newest first: the k-th has k - 1 that are newer.
ByAge(S) ==
  [k \in 1..Cardinality(S) |-> CHOOSE c \in S : Cardinality({d \in S : d.id > c.id}) = k - 1]

Replaying == round.pc \in {"waiting", "running"}

-----------------------------------------------------------------------------
(* Which cases                                                             *)

\* validate() reads the failures it matches; without one that can be replayed it is
\* pending.
BeginRound ==
  LET failures == Replayable(Matching(Matched), MaxFailures)
  IN /\ round.pc = "off"
     /\ context' = NoContext
     /\ IF failures = {}
        THEN round' = NoRound /\ details' = [NoDetails EXCEPT !.verdict = "pending"]
        ELSE /\ round' = [NoRound EXCEPT !.kind = "validate", !.pc = "wins",
                                         !.todo = ByAge(failures)]
             /\ details' = NoDetails

\* Then the wins, from another thread and maybe another state of the files.
ReadWins ==
  /\ round.pc = "wins"
  /\ round' = [round EXCEPT !.pc = "next",
                            !.todo = @ \o ByAge(Replayable(OfKind("win"), MaxWins))]
  /\ UNCHANGED <<context, details>>

\* Mistake: the sample is taken before the wins are moved to the front.
BeginRegressionUnsorted ==
  LET all == ByAge(cases)
  IN /\ round.pc = "off"
     /\ context' = NoContext
     /\ details' = NoDetails
     /\ round' = [NoRound EXCEPT !.kind = "regression", !.pc = "next",
          !.todo = IF Sample > 0 THEN SubSeq(all, 1, IF Sample < Len(all) THEN Sample ELSE Len(all))
                   ELSE all]

\* run_regression(): wins before failures, each newest first, cut to the sample.
BeginRegression ==
  LET all == ByAge(OfKind("win")) \o ByAge(OfKind("failure"))
  IN /\ round.pc = "off"
     /\ context' = NoContext
     /\ details' = NoDetails
     /\ round' = [NoRound EXCEPT !.kind = "regression", !.pc = "next",
          !.todo = IF Sample > 0 THEN SubSeq(all, 1, IF Sample < Len(all) THEN Sample ELSE Len(all))
                   ELSE all]

-----------------------------------------------------------------------------
(* The replay of a case                                                    *)

\* The case is done with an outcome and, if it was scored, its deltas.
Done(outcome, deltas) ==
  /\ round' = [round EXCEPT !.pc = "next", !.todo = Tail(@), !.batch = NoBatch]
  /\ details' = [details EXCEPT !.cases = Append(@,
       [id |-> ThisCase.id, kind |-> ThisCase.kind, outcome |-> outcome, deltas |-> deltas])]

NoDeltas == [m \in {} |-> 0]

\* _skipped(): a regression run has no verdict on the case.
Skipped == Done("skipped", NoDeltas)

\* A regression run skips what cannot be replayed.  With a budget for the
\* environment a replay first waits for it, unless the context already says that
\* execution has begun.
StartReplay ==
  /\ round.pc = "next" /\ round.todo # <<>>
  /\ IF round.kind = "regression" /\ ~ThisCase.replayable
     THEN Skipped
     ELSE /\ round' = [round EXCEPT !.pc =
               IF round.kind = "validate" /\ EnvWait /\ ~context.started THEN "waiting" ELSE "running"]
          /\ UNCHANGED details
  /\ UNCHANGED context

\* The replay, or a stray one, reads the candidate with its tools.
ReadCandidate ==
  /\ round.kind = "validate" /\ ~context.surfaced
  /\ Replaying \/ (context.stray /\ round.pc \in {"next", "scoring"})
  /\ context' = [context EXCEPT !.surfaced = TRUE]
  /\ UNCHANGED <<round, details>>

\* mark_execution_started(), noticed by the poll at once.
MarkStarted ==
  /\ round.kind = "validate" /\ EnvWait /\ ~context.started
  /\ Replaying \/ (context.stray /\ round.pc \in {"next", "scoring"})
  /\ context' = [context EXCEPT !.started = TRUE]
  /\ round' = [round EXCEPT !.pc = IF @ = "waiting" THEN "running" ELSE @]
  /\ UNCHANGED details

\* score_for_trigger(): the last trace of the new session; if none is complete there
\* is nothing to score.
Rescored == {NewBatch(Metrics), NewBatch({})}

ReplayReturns ==
  /\ Replaying
  /\ \E b \in Rescored : round' = [round EXCEPT !.pc = "scoring", !.batch = b]
  /\ UNCHANGED <<context, details>>

\* How a replay without a session is put down.
Inconclusive ==
  IF round.kind = "regression" THEN "skipped"
  ELSE IF context.started THEN "inconclusive" ELSE "env_wait_timeout"

ReplayRaises ==
  /\ Replaying
  /\ Done(Inconclusive, NoDeltas)
  /\ UNCHANGED context

\* Mistake: a replay that waits for its environment has no deadline.
TimesOutRunning ==
  /\ round.pc = "running"
  /\ Done(Inconclusive, NoDeltas)
  /\ context' \in {context, [context EXCEPT !.stray = TRUE]}

\* A budget expires and the replay is cancelled; a thread of it may go on.
ReplayTimesOut ==
  /\ Replaying
  /\ Done(Inconclusive, NoDeltas)
  /\ context' \in {context, [context EXCEPT !.stray = TRUE]}

-----------------------------------------------------------------------------
(* The scores of a case                                                    *)

\* Metrics both scored and in the baseline, with how far they moved.
Deltas(scores) ==
  LET shared == {m \in DOMAIN scores : scores[m] # NoScore /\ ThisCase.baseline[m] # NoScore}
  IN [m \in shared |-> scores[m] - ThisCase.baseline[m]]

\* Mistake: a replay that never read the candidate counts.
JudgedUnread(scores) ==
  LET deltas == Deltas(scores)
  IN IF \A m \in DOMAIN scores : scores[m] = NoScore THEN Done(Inconclusive, NoDeltas)
     ELSE IF DOMAIN deltas = {} THEN Done("inconclusive", NoDeltas)
     ELSE Done("scored", deltas)

\* A validation round needs a shared metric and a candidate that was read, by this
\* case or an earlier one.
Judged(scores) ==
  LET deltas == Deltas(scores)
  IN IF \A m \in DOMAIN scores : scores[m] = NoScore THEN Done(Inconclusive, NoDeltas)
     ELSE IF DOMAIN deltas = {} THEN Done("inconclusive", NoDeltas)
     ELSE IF ~context.surfaced THEN Done("candidate_not_exercised", NoDeltas)
     ELSE Done("scored", deltas)

\* _classify(): a loss outweighs every gain, small moves are noise.
Classified(scores) ==
  LET deltas == Deltas(scores)
      some(low) == \E m \in DOMAIN deltas : low <= deltas[m]
  IN IF \A m \in DOMAIN scores : scores[m] = NoScore THEN Skipped
     ELSE IF \E m \in DOMAIN deltas : deltas[m] <= -RegressMargin THEN Done("regressed", deltas)
     ELSE IF some(PromoteMargin) THEN Done("improved", deltas)
     ELSE Done("unchanged", deltas)

\* score_for_trigger(): the batch of the replayed session, one command at a time.
ScoreReplay ==
  /\ round.pc = "scoring"
  /\ \/ /\ round.batch.pc = "scored"
        /\ IF round.kind = "regression" THEN Classified(round.batch.scores)
           ELSE Judged(round.batch.scores)
     \/ \E b \in NextBatches(round.batch) :
          IF b.pc = "raised" THEN Done(Inconclusive, NoDeltas)
          ELSE round' = [round EXCEPT !.batch = b] /\ UNCHANGED details
  /\ UNCHANGED context

-----------------------------------------------------------------------------
(* The verdict                                                             *)

Scored == {details.cases[k] : k \in {j \in DOMAIN details.cases : details.cases[j].outcome = "scored"}}

\* A win answers for every metric, a failure for those that may retire the rule.
Lost(d) ==
  \E m \in DOMAIN d.deltas : d.deltas[m] <= -RegressMargin /\ (d.kind = "win" \/ m \in RetireOn)

\* _target_for() and _improved(): the most authoritative metric that was measured,
\* or any if none of them was.
Improved(d) ==
  LET measured == {k \in DOMAIN Targets : Targets[k] \in DOMAIN d.deltas}
  IN IF measured = {} THEN \E m \in DOMAIN d.deltas : d.deltas[m] >= PromoteMargin
     ELSE d.deltas[Targets[CHOOSE k \in measured : \A j \in measured : k <= j]] >= PromoteMargin

\* A regression retires, an improvement promotes, and a failure that was scored and
\* did not improve retires as well.
Verdict ==
  LET failures == {d \in Scored : d.kind = "failure"}
  IN IF \E d \in Scored : Lost(d) THEN "retire"
     ELSE IF \E d \in failures : Improved(d) THEN "promote"
     ELSE IF failures = {} THEN "pending" ELSE "retire"

\* RegressionReport.clean: a case that was skipped is no failure.
Clean == \A k \in DOMAIN details.cases : details.cases[k].outcome # "regressed"

EndRound ==
  /\ round.pc = "next" /\ round.todo = <<>>
  /\ details' = [details EXCEPT !.verdict =
       IF round.kind = "validate" THEN Verdict ELSE IF Clean THEN "clean" ELSE "dirty"]
  /\ round' = [NoRound EXCEPT !.kind = round.kind]
  /\ UNCHANGED context

ReplayRestart ==
  /\ round' = NoRound
  /\ context' = NoContext
  /\ details' = NoDetails

\* What the harness does by itself; the replay's own steps are not among them.
RoundStep == ReadWins \/ StartReplay \/ ReplayTimesOut \/ ScoreReplay \/ EndRound

ReplayNext ==
  BeginRound \/ BeginRegression \/ RoundStep \/ ReadCandidate \/ MarkStarted
    \/ ReplayReturns \/ ReplayRaises

-----------------------------------------------------------------------------
(* Properties *)

Outcome ==
  [id : 1..MaxCaptures, kind : {"failure", "win"},
   outcome : {"skipped", "inconclusive", "env_wait_timeout", "candidate_not_exercised",
              "scored", "improved", "unchanged", "regressed"},
   deltas : UNION {[M -> (-TopScore)..TopScore] : M \in SUBSET Metrics}]

\* Every variable keeps its shape.
ReplayTypeOK ==
  /\ round \in [kind : {"none", "validate", "regression"},
                pc : {"off", "wins", "next", "waiting", "running", "scoring"},
                todo : Seq(CaseRecord), batch : Batch(Metrics)]
  /\ context \in [surfaced : BOOLEAN, started : BOOLEAN, stray : BOOLEAN]
  /\ details \in [cases : Seq(Outcome),
                  verdict : {"none", "promote", "retire", "pending", "clean", "dirty"}]

\* validation/validator.py:323: a replay that "never read the candidate" is no
\* verdict on it.  A promotion or retirement rests on scored cases of a round
\* whose tools have shown the candidate, a promotion on a failure among them
\* and on no win that went down, whatever waits, hangs, raises or stays pending.
VerdictJustified ==
  round.kind = "validate" =>
    /\ Scored # {} => context.surfaced
    /\ details.verdict \in {"promote", "retire"} => Scored # {}
    /\ details.verdict = "promote" =>
         /\ \E d \in Scored : d.kind = "failure"
         /\ \A d \in Scored : d.kind = "win" => \A m \in DOMAIN d.deltas : d.deltas[m] > -RegressMargin

Taken == {details.cases[k].id : k \in DOMAIN details.cases} \cup {round.todo[k].id : k \in DOMAIN round.todo}

\* validation/regression.py:223: "``win`` cases run first (they are the
\* regression guard)".  A regression run that spends its sample on a failure has taken every
\* win, and replays no win after a failure.
WinsGuardFirst ==
  LET k == details.cases \o round.todo
  IN round.kind = "regression" =>
       /\ \A i, j \in DOMAIN k : i < j /\ k[i].kind = "failure" => k[j].kind = "failure"
       /\ (\E i \in DOMAIN k : k[i].kind = "failure") =>
            \A c \in OfKind("win") : (\E id \in Taken : c.id < id) => c.id \in Taken

\* validation/validator.py:451: a hung replay does not "wedge the single-flight
\* validation task".  A round ends even if the replay never returns, never
\* signals and never raises.
RoundEnds == round.pc # "off" ~> round.pc = "off"
=============================================================================
