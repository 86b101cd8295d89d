# A TLA+ model of the PandaProbe harness

The harness (`src/src/pandaprobe_harness/`, called `ph/` below) runs beside a
developer's agent. After each turn it scores the turn's traces, posts a
*diagnostic notice* when a score is bad, lets a *managed repair* run look at the
notice and propose a *rule*, and then *validates* the rule on replays and on live
sessions before it becomes active. All of it lives in one process: an asyncio
event loop, worker threads for file access, and files that outlive the process.

This directory models the parts of it in which order, time and crashes matter,
checks them with TLC and proves the main results about them with TLAPS.

## 1. Inventory

For each component: its state, its operations, what it interacts with, what is hard
about it, and what makes it correct.

### Candidate validation (`ph/validation/validator.py`)
- **State**: none but `_cursor`, the head of the last round; everything else is in
  the rules store.
- **Operations**: `observe_report` (count a session against every open trial),
  `evaluate_candidates` (one round: order the candidates, judge each by replay or
  forward trial, apply the verdict).
- **Interaction**: called by the hook's report handler and by explicit callers;
  writes the rules store from worker threads; replays run the developer's agent.
- **Hard**: rounds, observers and other rounds interleave at every store access; a
  replay takes minutes; stamp and transition are two critical sections; replays can
  stay inconclusive for ever; a round has a budget.
- **Correct** when a rule gets one decision, the decision matches its stamp and its
  evidence, no evidence is lost, the window is respected, and every candidate is
  decided in the end.

### Rules store (`ph/workspace/rules.py`)
- **State**: an append-only log; the latest record of a rule is its state (status
  and `TrialState`). Markdown files are derived from it.
- **Operations**: `add`, `retire`, `promote`, `update_trial`, `candidates`,
  `covering_rules`, `sync_markdown`. Each takes the lock once.
- **Hard**: read-modify-write by several threads; `retire` accepts active rules; the log and
  the files rendered from it are several writes under one lock.
- **Correct** when, between two writers, the rendered guide shows what the log says.

### Hook (`ph/hook/core.py`)
- **State**: one pending evaluation per session, counters of turns and launches,
  notice state per session, circuit breaker, the tasks of background rounds.
- **Operations**: `on_turn_end`, `refresh`, `settle`, report handling and notice
  decision, `_spawn_validation`, `drain_validation`, `settle_validation`,
  `validate_candidates`.
- **Hard**: a newer turn cancels the older turn's evaluation at any await; a barrier
  with a budget joins shielded tasks; eviction of sessions in flight.
- **Correct** when a reported condition has its notice, a trace is scored once, a
  settled caller really has what it waited for.

### Tier ladder, trace locator, trajectory gate, evaluator (`ph/hook/tiers.py`, `ph/evaluation/*.py`)
- **State**: seen traces per session; peak and stall counter per session and metric
  (persisted).
- **Operations**: list new traces, score them (create a run, poll it, retry), fold them in
  order into the gate, escalate to tiers 2 and 3.
- **Hard**: once-only delivery under cancellation and eviction, the numeric edges of
  stall and regression, a fold that outlives its evaluation, a file that lags behind the
  cache after a failed write, a restart that forgets which traces were folded.
- **Correct** when the peak is the best score, a stall is a whole window away from the
  last, and a session that climbs never fires.

### Managed repair (`ph/repair/coordinator.py`, `ph/repair/agent.py`, `ph/agent_tools/toolset.py`)
- **State**: per session: `_tasks` (claims), `_results` (successful results, kept for
  good), `_latest_by_session`; per run: the toolset's memory of what it did.
- **Operations**: `settle` (find the episode, claim or join its run, wait, time out),
  the run's loop of tool calls, `rule_add`, `notice_ack`, `notice_resolve`.
- **Interaction**: called by the hook's `settle`; reads and moves mailbox files and
  adds rules from worker threads.
- **Hard**: several callers share a run; a timeout cancels the task but not the
  thread; retries of an episode; done-callbacks; restarts between two files.
- **Correct** when an episode has one run at a time, no notice is lost, a cached
  result means the episode is resolved, a claim never outlives its run, and `settle`
  always returns.

### Mailbox (`ph/workspace/mailbox.py`)
- **State**: files in `pending/` and `processed/`, the derived `status.json`.
- **Operations**: `post`, `pending`, `read`, `acknowledge`, `acknowledge_many`,
  `status`.
- **Hard**: listing without the lock, a crash between two files, a stale status.
- **Correct** when a notice is pending or resolved but never gone, and the status counts
  what is pending.

### Evaluation cases and regression (`ph/workspace/evalset.py`, `ph/validation/regression.py`)
- **State**: case files, capped; a replay context per run.
- **Operations**: capture with dedup and eviction, attach an input, match cases,
  replay and classify.
- **Interaction**: the hook's persist threads, the host and the developer's tools write
  cases at once; validation and regression rounds read them while they change.
- **Hard**: eviction next to other writers and a crash; a replay that waits for its
  environment, hangs, raises, or goes on in a thread after it was cancelled; one context
  for all cases of a round.
- **Correct** when the set respects its cap and never gives up a win, each case has its
  notice, a verdict rests on cases that read the candidate, wins are replayed first, and
  every round ends.

### Without state worth a model
Journal (append-only log; only its failures are modelled), harness facade, configuration,
calibration, the command line client behind its errors, monitors, sandbox policy, scopes and sanitizing, file layout, framework adapters,
completion client and prompts, benchmarks, examples, paper. `PROJECT.json` lists each
with the reason.

## 2. Modules

| Module | What it is |
| --- | --- |
| `RuleLifecycle` | What validation promises about a rule: propose, witness, decide once. |
| `RuleValidation` | Rules store, validation engine, and the hook's part that starts and drains rounds. |
| `MCRuleValidation` | Constants of its instances. |
| `RuleValidationProofs` | Theorems about `RuleValidation`. |
| `RepairSettlement` | Coordinator, run, toolset and mailbox of one session. |
| `MCRepairSettlement` | Constants of its instances. |
| `TurnEvaluation` | The hook from the end of a turn to a notice: admission, evaluation tasks, trace locator, notice gate, circuit breaker, the barrier. |
| `MCTurnEvaluation` | Constants and symmetry of its instances. |
| `MetricBatch` | One evaluation run on the platform, a value its owner steps through. |
| `TrajectoryGate` | One series of the gate, from the completed traces to the report. |
| `EvalSet` | The case files and their writers. |
| `CaseReplay` | A validation or regression round that replays cases. |
| `HealingEvidence` | The four above composed: scores, notices, cases, verdicts. |
| `MCHealingEvidence` | Constants and scenarios of its instance. |
| `RepairSettlementProofs`, `TurnEvaluationProofs`, `MetricBatchProofs`, `TrajectoryGateProofs`, `EvalSetProofs`, `CaseReplayProofs`, `HealingEvidenceProofs` | Theorems and lemmas about the module in the name, see section 5. |

The three systems meet in the hook: an evaluation that has its report (`Report` in
`TurnEvaluation`) has it observed by validation (`Report` to `ReportHandled` or
`ReportSuperseded` in `RuleValidation`) before the notice gate; the notice it posts
(`ThreadPersist`) is the `Post` of `RepairSettlement`, whose `Settle` is what the hook's
`settle()` does next when its evaluation did not time out. `HealingEvidence` follows the other
path through the hook, that of the evidence: what makes a report bad, which case it leaves
behind, and what a replay of the cases says of a rule. Its `Due` is any outcome of the notice
gate of `TurnEvaluation`; its verdict is the outcome that `RoundReplay` of `RuleValidation`
leaves open.

Definitions whose comment starts with "Mistake:" are not part of the specification:
each is the definition that follows it with a plausible bug, kept to show that the
properties notice it.

### `RuleValidation`

Rules are numbered in the order of creation, the order `RulesStore.all()` returns.
`status[r]` and `trial[r]` are the latest record of the log; `round[w]` holds the locals
of one `evaluate_candidates()` call, with `pc` naming the await it stands at;
`report[s]` those of `observe_report()`; `settler[c]` those of `settle_validation()`.
One access to the store is one step, since each takes the lock once and reads what it
changes under it. Between two accesses a round awaits a thread, so every other actor may
run there.

| Code | Action |
| --- | --- |
| `RulesStore.add` | `AddCandidate` |
| `observe_report` and its caller | `Report`, then `Observe` per candidate in any order, `ReportHandled`, or `ReportSuperseded` if a newer turn has cancelled the handler |
| `_spawn_validation` | the second half of `ReportHandled` |
| `evaluate_candidates` | `RoundLoad`, `RoundOrder`, `RoundTake`, `RoundReplay`, `RoundBump`, `RoundWeigh`, `RoundStamp`, `RoundApply`, `RoundFinish` |
| `settle_validation` | `SettleValidation`, `SettleDrained`, `SettleRound`, a round of its own, `SettleTimeout` |
| `validate_candidates` | `ValidateCandidates`, a round of its own |
| process death | `Restart`: only the log survives |

Abstractions: a replay is its outcome (`promote`, `retire`, `pending`, or an exception);
the forward trial's rate comparison is the number of breached sessions a full window
tolerates (`Tolerated[r]`, which stands for the baseline and the margin); whether the
round budget is spent is free at each loop head but, once spent, stays spent. File
errors are left out. A session has one report under observation at a time; the thread of a
superseded one could overlap with the next, which would only repeat set insertions in
another order. `settled` and `quiet` are history variables for the properties of
`settle_validation`.

### `RepairSettlement`

One session. Code of the event loop is atomic between two awaits; each worker thread is
an actor of its own. `run[t]` is the agent's task and its toolset's memory, `thread[t]`
the tool call it has in a worker thread. The language model is arbitrary: the run may
call any tool whose guard holds, or end.

| Code | Action |
| --- | --- |
| `Mailbox.post`, `_refresh_status` | `Post`, `PostRefreshes` |
| `settle` | `Settle`, `ReadPending` (in a thread, without the lock), `Follow` or `Claim`, `Timeout`, `FollowTimeout` |
| `_pending_episode`, `_related` | `Episode`: the oldest notice and everything connected to it |
| `_single_flight` | `Claim`: cached result, registered run, or a new run |
| `_capture_result`, wake-up of the callers | `RunEnds` |
| `rule_add` | `CallAdd`, `ThreadCover`, `ThreadAdd`, `ThreadSync` per file, `ToolReturns` |
| `notice_ack`, `notice_resolve` | `CallAck`, `ThreadCheck`, `ThreadWrite` per notice, `ThreadUnlink` per notice, `ThreadRefresh`, `ToolReturns` |
| the ends of the loop, `_finish` | `MayCall`, `Outcomes`, `Ends` |
| cancellation of a run | `Timeout` sets `cancel`; the run takes no further step but its end, the thread goes on |
| process death | `Restart`: files survive |

The done-callback of a task and everybody who awaits it are woken in the same turn of
the event loop, so `RunEnds` moves all of them at once. A caller cancelled while it joins
a run it has timed out on is not modelled. Which notices of a turn are related is a
constant, `Related`. For the runs in `Faulty` a journal write may fail: the tool call fails, the
run fails, or, at its end, its task raises. That journaling the time-out of a caller
(`ph/repair/coordinator.py:109`) fails is left out. `torn` remembers that the process died
between a mailbox file and the refresh of `status.json`.

What a journal failure at the end of a run leads to is worth knowing. `_finish`
(`ph/repair/agent.py:381`) journals outside of anything that catches the exception, so the
task raises; `_capture_result` returns without dropping the claim, in a branch commented
"agent folds ordinary exceptions" (`ph/repair/coordinator.py:237`); and the caller's
`suppress(CancelledError)` does not catch it. Every later `settle()` of the episode then joins
the dead task and raises its exception, until a restart. `ClaimIsLive` is stated up to
this case.

### `TurnEvaluation`

`eval[t]` is the task of the t-th launch, with `pc` naming the await it stands at,
`thread[t]` the job it has handed to a worker thread. A newer turn sets `cancel`: the task
takes no further step but its end, which may come before or after steps of the newer task,
and its job is dropped if it was still queued and finishes if not.

| Code | Action |
| --- | --- |
| trace ingestion by the platform (external) | `TraceCompletes` |
| `on_turn_end`, `_admit` | `TurnOverBudget`, `TurnSkipped`, `TurnAdmitted`, the last two with `Counted` and its eviction |
| `_run_eval` | `CheckHealth`, `Acquire`, then the ladder and the report; `EvalFails`, `EvalCancelled`, `Ends` |
| `TraceLocator.new_traces`, `forget` | `Locate` (the seen-set, `Held`, and the locator's own session cap), `List`; `Forgetful`: a listing keeps the seen-set it began with, which an eviction makes an orphan |
| `TierRunner` | `Score` (tier 1), `ThreadFold` (the gate's store), `Report` (escalation and verifier) |
| `_should_notice` | `Due`, `Gated`, used by `Healthy` and `Alert` |
| `_build_dump`, `_breaker_or_notice` | `Dumped` with `Swept` and `Counting`; `DumpFails` |
| `_persist_notice` | `ThreadPersist` or `ThreadPersistFails`, then `Persisted` |
| `settle`, `_await_eval`; `refresh` joins alike | `Settle`, `SettleJoins`, `SettleTimesOut` |

Abstractions: `max_evals_per_run` and `circuit_breaker_max_notices` are positive, the sweep
of the breaker's time window drops any number of the oldest notices, an evaluation's
conditions are any subset of `Conditions`. With a rate limit, a session that has been
evaluated is refused or admitted at will, since the interval may or may not have passed.
The task of a healthy process passes the health check without an await. `evicted`,
`folded`, `told` and `lost` are history variables; `told` and `lost` keep, of the conditions
the gate remembers, those in a posted notice and those whose notice was superseded or
suppressed, or could not be built or written: `_handle_report` swallows the exception of such a
notice and leaves the notice state as it is (`ph/hook/core.py:522`). `evicted` has the sessions
forgotten by the hook or by the locator's own cap; the trim of the ids of one session is in
`TrajectoryGate` only, where what it leads to can be seen.

### `HealingEvidence` and its parts

`MetricBatch` has no variables: `NextBatches(b)` is the set of batches after the next
command of the client, over any exit code, hint and answer of the platform. Both the gate's
evaluations and the rounds hold one.

| Code | Definition |
| --- | --- |
| `_run_batch`, `_backoff` | `NewBatch`, `Retried`, `Failures` |
| `_create_run`, `_poll_scores` | `NextBatches`, `Answers`, `Polled` |
| `cli/errors.py`, `SubprocessCliClient.run` | `ExitErrors`, `CommandErrors`, `Transient` |

`TrajectoryGate` is one metric of one session. `memory` and `disk` are the store's cache and
its file; a sample of a series also says which trace it is of and what the gate made of it,
which the program does not keep. `seen` is the session's seen-set in the order of marking.
`delivered` and `disturbed` are history variables: the traces delivered so far, and whether a
listing delivered one that is not newer than all of those, or delivered any while others were
being folded.

| Code | Action |
| --- | --- |
| the platform (external) | `TraceCompletes`, in any order |
| `on_turn_end` | `Turn`, which supersedes the evaluation before it |
| `new_traces`, `_list` | `List`, which orders by `InOrder` and keeps the latest ids, `Trimmed` |
| `forget`, `_evict_oldest_session` of hook and locator | `GateForget`; a listing under way keeps an orphan |
| `_run_tier1`, `_fold_gate` | `Score`, then `FoldPending`, `FoldTrace` or `FoldFails` per trace, `FoldReturns` |
| `_decide`, `record_gated` | `Decide`, `Recorded` |
| `_escalate`, verifier | `Escalate`, `Report` |

What an eviction leads to is worth knowing. `_evict_oldest_session` calls itself "never a
correctness bug, just a bounded reset" (`ph/hook/core.py:333`); it drops the session's seen-set and
not the gate's entry in the history file. A later turn of the session is given its folded traces
again, the gate measures them against the peak of their successors, and a session whose scores
only rise is reported as regressed. The same follows from the locator's own session cap, from a
restart, and from the trim of the ids when a listing reaches back behind it. `ClimbFiresOnlyDisturbed`
is stated up to the moment where a listing delivers such a trace.

`EvalSet` numbers the cases by age. A capture is `Capture` (the call), `Enter` (lock, duplicate,
cap, eviction) and `Write`; `AttachInput` and `RemoveCase` are one file operation each.
`removed` is a history variable.

`CaseReplay` is one `ReplayValidator.validate` or one `run_regression`: `context` is its
`ReplayContext` and what its toolset has shown, `details` the outcome of each case.

| Code | Action |
| --- | --- |
| `validate` up to its loop | `BeginRound` (failures), `ReadWins` (wins, a read of its own) |
| `run_regression` up to its loop | `BeginRegression` |
| `_bounded_replay`, `replay_case` | `StartReplay`, `MarkStarted`, `ReplayTimesOut` |
| the developer's replay | `ReadCandidate`, `ReplayReturns`, `ReplayRaises`; `stray` is a thread of it that goes on after its cancellation |
| `score_for_trigger` and what the round makes of it | `ScoreReplay` with `Judged` or `Classified` |
| the verdict, the report | `EndRound` |

`HealingEvidence` joins them: `Due` hands a notice to a thread, `Post` and `Keep` are
`_persist_notice`, `HostCaptures` and `HostEdits` the developer's use of the set, `Rounds` the
start of a round and the replay's own steps, `Replay` the round's.

Abstractions: scores are small numbers and compared as such; one series stands for all,
since the store writes under its lock; the verifier's answer in a replay is one of the
scores; the time limits of a replay are steps that may happen at any time.

## 3. Runs

| Run | Instance | Shows |
| --- | --- | --- |
| `ValidationRounds` | 1 rule, 3 sessions, window of 2, at most 2 replay attempts, no explicit callers | `TypeOK`, `WindowBounded`, `VerdictMatchesStatus`, `ForwardRetirementJustified`, refinement `LifecycleSpec` |
| `ValidationVerdicts` | 2 rules, 1 session, window of 1 | liveness `EveryCandidateDecided` |
| `ValidationSettlement` | 1 rule, 1 session, one explicit caller | `SettledMeansDecided`, `EvidenceKept` |
| `ConflictingTransition` | the same, replays that disagree | violates `OneTransition` |
| `Repair` | 2 callers, 2 related notices, 2 calls, journal failures in the first run | `TypeOK`, `NoticeRecoverable`, `CachedMeansResolved`, `OneRunPerEpisode`, `ClaimIsLive`, `CandidateExists`, `SummaryFollows`, `GuideFollows`, liveness `SettleReturns` |
| `RepairCancelEscapes` | 2 callers, 1 notice | violates `TimeoutStaysInside` |
| `RepairTimedOut` | 1 caller, 1 notice | violates `TimedOutMeansPending` |
| `RepairTwoCandidates` | 1 caller, 2 calls | violates `OneCandidatePerEpisode` |
| `Turns` | 2 sessions of which 1 is tracked, 3 evaluations, 2 conditions, rate limit, cooldown | `TypeOK`, `PendingIsCurrent`, `FoldedOnce`, `ReportedConditionsAreTold` |
| `TurnsEnd` | 2 sessions, 2 evaluations, 1 slot, 1 caller | `SettledMeansLanded`, liveness `EvaluationEnds` |
| `TracesScored` | 1 session, 2 evaluations | violates `DeliveredMeansScored` |
| `Evidence` | 10 scenarios of up to 3 traces, 3 turns, 5 cases, 2 metrics, 1 restart, 1 eviction | `TypeOK`, `PeakTracksBest`, `StallsSpaced`, `ClimbFiresOnlyDisturbed`, `CorpusBounded`, `CaseFollowsNotice`, `VerdictJustified`, `WinsGuardFirst`, action property `WinsKept`, liveness `RoundEnds` |

**Bounds.** `MaxRules` bounds the rules ever added: rules interact only through the order
of a round and the cursor, for which two suffice, and everything about one rule needs
one. Three sessions against a window of two exercise the full window, a repeated session
and a refused one; the sessions are symmetric in the safety run. `MaxReplayAttempts` is 1
or 2: both the last replay and the switch to the forward trial are reached. `MaxCalls`
bounds the calls of `settle()`, and with it the runs, since a call starts one at most: two
calls give every pair of a joined, a retried and a followed run, three were tried with one
notice. Three evaluations of two sessions where one is tracked give a session that is evicted
in flight, comes back and is superseded; `MaxEvals` is the program's own launch budget, so
turns go on for ever. `MaxTraces` is 1: a trace is independent of the others but for its order
in the gate, which `TrajectoryGate` models. Two related notices give an episode that is half
acknowledged when it is listed.

`Evidence` starts in one of the `Scenarios` of `MCHealingEvidence`; each is a budget of what may
happen and the case files to start from, so that the parts that interact vary together and
the others stay still: traces against turns, with and without a restart or an eviction; three
traces against a listing and a seen-set of two; notices of two turns against the host and a
crash, over a set with room for three; a notice and the host racing at a set that is already
full, up to a crash between eviction and write; a round over a set that changes under it, or of
three wins with a sample of two; and one turn all the way to the round its notice leads to. Scores are 1 to 3 with a gain of 2, a drop of 1 and a
window of 2, so that a gain, a change too small to be one, a stall and a regression all
occur. Series stay far below the cap of 500 samples. A round replays one failure and one win,
or a sample of two: the next case begins with the context of the one before. Two
stalls of one series need five samples with a window of 2, more than these scenarios fold: the
runs show that a stall resets the counter, the theorem `StallsKeepTheirDistance` the distance
of any two.

**Fairness.** `RuleValidation`: every round and observer keeps taking steps (a replay is
bounded by `replay_timeout_s`, everything else is local file access), every session keeps
producing reports (README: the forward trial decides on live sessions; without sessions
nothing could be promised), and the process does not restart for ever. The replays may
answer anything but an exception, for ever: a `validate()` that raises skips its candidate,
forward trial included, and `ReplayValidator` catches the failures of its own replays. `RepairSettlement`: a caller's own steps, of which
the timeout is one since every wait has a deadline, and the end of a cancelled run. Nothing
is assumed about the model or the threads. `TurnEvaluation`: tasks and threads run, since
every call of the platform has a time-out and its retries are counted, and the developer's
verifier is assumed to end, for which there is no time-out (`ph/hook/tiers.py:190`); the semaphore is
first come, first served, hence strong fairness of `Acquire`. `HealingEvidence`: only the round's
own steps, `Replay`, among them the time-out, since every wait for a replay has a deadline.
That the replay returns, signals or reads anything is not assumed; that it ends when it is
cancelled is, for a replay that swallowed its cancellation would keep `wait_for` waiting. The observer's `ReportHandled`
in `RuleValidation` is strongly fair too: not every turn of a session is superseded.

## 4. What the violation runs show

1. **A promoted rule is retired by a second round** (`ConflictingTransition`).
   `retire()` accepts any live rule and the check of `_apply` is in an earlier critical
   section than the transition.
2. **A cancellation escapes** (`RepairCancelEscapes`). The timeout of one caller cancels
   the task another one awaits.
3. **"Notice remains pending" may be false** (`RepairTimedOut`). The acknowledging thread
   survives the cancelled run.
4. **Two candidates of one episode** (`RepairTwoCandidates`). The guard is the memory of
   one run; a retry has a new one.
5. **A delivered trace that is never scored** (`TracesScored`). The locator marks a trace when
   it lists it, and the evaluation that holds it is superseded before tier 1.

## 5. Theorems

Every safety invariant, every action property and the refinement that the runs check are also
proved, by TLAPS, for every value of the constants that satisfies the named assumptions of the
modules. What those assume is that limits are natural numbers, that thresholds and counts that the
configuration requires to be positive are, that threads are finitely many, and, in
`HealingEvidence`, `ScenariosStart`: the case files to start from are such as the store leaves
behind, none of them of the gated session, which has had no turn yet.

| Module | Theorem | Statement |
| --- | --- | --- |
| `RuleValidationProofs` | `TypeCorrect` | `Spec => []TypeOK` |
| | `WindowCorrect` | `Spec => []WindowBounded` |
| | `EvidenceIsKept` | `Spec => EvidenceKept` |
| | `SettledIsDecided` | `Spec => []SettledMeansDecided` |
| | `VerdictsAreConsistent` | `SingleFlight => (Spec => []VerdictMatchesStatus)` |
| | `ForwardRetirementIsJustified` | `SingleFlight => (Spec => []ForwardRetirementJustified)` |
| | `ValidationImplementsLifecycle` | `SingleFlight => (Spec => LifecycleSpec)` |
| `RepairSettlementProofs` | `TypeCorrect` | `Spec => []TypeOK` |
| | `ClaimsAreLive`, `SingleFlight` | `Spec => []ClaimIsLive`, `Spec => []OneRunPerEpisode` |
| | `SummaryIsCurrent`, `GuideIsCurrent` | `Spec => []SummaryFollows`, `Spec => []GuideFollows` |
| | `NoticesAreRecoverable` | `Spec => []NoticeRecoverable` |
| | `CachedResultsAreFinal` | `Spec => []CachedMeansResolved` |
| | `CandidatesExist` | `Spec => []CandidateExists` |
| `TurnEvaluationProofs` | `TypeCorrect` | `Spec => []TypeOK` |
| | `OneEvaluationPerSession` | `Spec => []PendingIsCurrent` |
| | `TracesFoldOnce` | `Spec => []FoldedOnce` |
| | `SettledHasLanded` | `Spec => []SettledMeansLanded` |
| | `ReportedIsTold` | `Spec => []ReportedConditionsAreTold` |
| `TrajectoryGateProofs` | `GateTypeCorrect` | `GateSpec => []GateTypeOK` |
| | `PeakIsKept` | `GateSpec => []PeakTracksBest` |
| | `StallsKeepTheirDistance` | `GateSpec => []StallsSpaced` |
| | `ClimbingDoesNotFire` | `GateSpec => []ClimbFiresOnlyDisturbed` |
| `HealingEvidenceProofs` | `TypeCorrect` | `Spec => []TypeOK` |
| | `SystemRunsTheGate` | `Spec => GateSpec`; `GateHolds` draws the conclusions |
| | `CorpusStaysBounded`, `WinsAreKept` | `Spec => []CorpusBounded`, `Spec => WinsKept` |
| | `FailuresFollowNotices` | `Spec => []CaseFollowsNotice` |
| | `VerdictsAreJustified` | `Spec => []VerdictJustified` |
| | `WinsComeFirst` | `Spec => []WinsGuardFirst` |

`MetricBatchProofs`, `EvalSetProofs` and `CaseReplayProofs` hold the lemmas about the parts: ranks in
a finite set and the types of a batch; what every operation of the store keeps; what every step of
a round keeps, and what the store's operations do to a round.

**`RuleValidation`.** `SingleFlight` says that there are no explicit callers (`Callers = {}`), so
that the hook's `_spawn_validation` starts every round. The run `ConflictingTransition` shows
that the decisions are not unique without it. `TypeOK` alone is not inductive: `RoundOrder` needs a
candidate to put under the cursor and the later steps a rule to work on; `TypeInv` adds that
(`RoundsConsistent`). The lemma `TrialStep` says all a step may do to a trial (admit a session the
window has room for or already counts, count an attempt, stamp), from which the window and the
evidence follow. `DecisionInv` adds `Deciding`: as long as the only round is past its loop head its
rule is still a candidate, and when it is about to apply, the stamp on the trial is its own
verdict. `ForwardInv` says that a round's snapshot is contained in the trial and that a forward
retirement about to be stamped is true of the trial: evidence only grows, and a full window
admits nobody, so what was true of the snapshot stays true. `SettleInv` says that the round of
a quiet caller overlooks no candidate until it decides one (`Covered`): the candidate is still to be
listed, still to be taken, being judged on evidence that is still the trial's, or its window is
not full. The refinement maps a report to `Witness`, the apply to `Decide`, adding to
`Propose`, and everything else to a stutter.

**`RepairSettlement`.** `ClaimInv` says who stands behind a claim: `ClaimIsLive`; a
live run is registered under its episode, from which single flight follows; whoever waits
waits for a live run, and a run told to stop has a caller that joins it; and there is a
number left for every run that a caller may still start. Above it,
`ToolInv` ties a run to its worker thread (a thread works off the episode of its run, a thinking
run has none out), `NoticeInv` says for each stage of an acknowledgement what is already on
disk, resolutions before removals, which makes a cancelled thread and a crash harmless;
`CandidateInv` follows the promise of a candidate from the log to the resolution; and
`SummaryInv` and `GuideInv` say that the lock has one holder, whose listing or snapshot is
still what the files say when it writes.

**`TurnEvaluation`.** `TaskInv` says which tasks exist, of which session they are, for what a thread
works, and that the pending entry of a session is the one evaluation not cancelled.
`FoldInv` counts the traces of sessions never evicted: folded at most once; not yet folded if unseen; and if a listing, a task or
a thread still owes one (`Owes`), it is seen, not folded, and owed by nobody else. Superseded
tasks give up what they owe unless their thread has it, which is why the order of marking,
listing and cancelling does not matter. `ToldInv` follows a condition from the notice state to the
task or thread that carries its notice, and to `told` or `lost` when that posts, is superseded,
suppressed, or fails.

**`TrajectoryGate`.** `EntryInv` relates the peak, the counter and the marks of a series: the
counter has not passed the distance to any stall, so the next one has a window behind it.
`ClimbInv` says that the peak of an ascending series that climbs is its last score and that
nothing in it has fired. `OrderInv` says that, until a
listing disturbs it, what is scored or being folded is ascending and newer than the whole series,
by one evaluation at a time, and that every sample is of a delivered trace. A restart or a
forgotten seen-set keeps it: the file has samples of delivered traces only, and the next listing
either brings newer ones or sets `disturbed`.

**`HealingEvidence`.** `StoreInv` adds to the cap the room for the case being written (an eviction
is followed by one write under the same lock) and that a number names one case, the latest one the
case being written. `EvidenceInv` counts: files and captures under way of the gated session are
never more than the notices dealt with; a notice leaves room for one case, and the host's keys
are its own. `RoundInv` says where a round can stand, that a verdict is justified, and, for a
regression run, `Guards`: wins first, every case taken is older than any file that will be written
later, and with a failure taken every older win was. The last two parts make it inductive although
captures, evictions and removals go on: a win that appears later is newer than everything the
run has taken.

A listing (`ByAge`, `OldestFirst`) is a function that picks by rank the case or trace with so many
others before it, rather than a sort: of a fold or a recursive sort the provers can establish
nothing, of a rank they can.

Model-checked only: the liveness properties (`EveryCandidateDecided`, `SettleReturns`,
`EvaluationEnds`, `RoundEnds`), since fairness and ENABLED are out of the provers' reach.

## 6. Plan

1. `RuleValidation`, `RuleLifecycle`, `RepairSettlement`, `TurnEvaluation`, `MetricBatch`,
   `TrajectoryGate`, `EvalSet`, `CaseReplay` and `HealingEvidence`: modelled, checked, and their
   safety proved as above. The summary of the mailbox and the guide of the rules store went into
   `RepairSettlement`, next to the threads that write them.
2. Open: abstract specifications of a repair (a notice is posted, assigned, resolved once) and of
   a turn (admitted, then evaluated or superseded), with the refinement of each.

## 7. Not modelled

Texts, prompts, the payloads of records, the wording of the guide, rule search and its ranking, scope
names, token accounting, tracing, the process behind a command of the client, the frameworks'
own behaviour, calibration and the parsing of the configuration, several processes on one
workspace. Of the failures of the file system, only these are: a crash between two operations, a
failing history file, a notice that cannot be built or written (in `TurnEvaluation` and in
`HealingEvidence`), a recovery that cannot be journaled, and a failing journal in the first run of
`Repair`. `Mailbox.acknowledge`, the single acknowledgement, has no caller but the tests. A
candidate whose replay the round budget denied is still undecided when `settle_validation` returns
True: the model reaches it, and the comment beside that return (`ph/hook/core.py:634`) accepts it.

Hazards without a property, each with its reason in `PROJECT.json`: a replay that raises in a
round of `settle_validation`, explicit rounds that `validation_pending` does not count, the
breaker that a recovery of any session resets, the notice that is superseded or fails unseen,
the claim of a run whose end could not be journaled, and the
candidate read in an earlier case of its round only. For none of them does the repository say what
should happen. All are modelled.
