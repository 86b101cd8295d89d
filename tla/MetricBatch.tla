---------------------------- MODULE MetricBatch ----------------------------
(***************************************************************************)
(* One evaluation run on the platform, as seen by its caller: create, poll *)
(* until the scores are in, retry (evaluation/evaluator.py).  A batch is a *)
(* value that its owner steps through; the platform and the command line   *)
(* client between (cli/) answer whatever they like.  Scores are small      *)
(* positive numbers; NoScore stands for None, a pending score.             *)
(***************************************************************************)
EXTENDS Naturals

CONSTANTS
  TopScore,      \* bound: scores are 1..TopScore
  EvalAttempts,  \* eval_retry_attempts
  PollAttempts   \* poll_max_attempts

ASSUME BatchLimits == {TopScore, EvalAttempts, PollAttempts} \subseteq Nat \ {0}

Scores == 1..TopScore
NoScore == 0

NoBatch == [pc |-> "none", attempt |-> 1, polls |-> 0, scores |-> [i \in {} |-> NoScore]]

\* evaluate_traces(): one run for all items, or none at all.
NewBatch(items) ==
  [pc |-> IF items = {} THEN "scored" ELSE "create", attempt |-> 1, polls |-> 0,
   scores |-> [i \in items |-> NoScore]]

\* Mistake: the attempts are not counted against their limit.
RetriedForEver(b, scores) ==
  IF b.attempt <= EvalAttempts
  THEN [b EXCEPT !.pc = "create", !.attempt = @ + 1, !.polls = 0]
  ELSE [b EXCEPT !.pc = "scored", !.polls = 0, !.scores = scores]

\* The attempt is over without a final answer: back off and create another run, or
\* leave it at what there is.
Retried(b, scores) ==
  IF b.attempt < EvalAttempts
  THEN [b EXCEPT !.pc = "create", !.attempt = @ + 1, !.polls = 0]
  ELSE [b EXCEPT !.pc = "scored", !.polls = 0, !.scores = scores]

\* The ways a command of the client fails: by its exit code, or without one because
\* it could not be started, was killed at its deadline, or printed no JSON.
ExitErrors == {"general", "auth", "not_found", "validation", "api"}
CommandErrors == ExitErrors \cup {"timeout", "output"}

\* is_transient(): the platform may catch up, by the kind of the error or by a hint
\* in what the command printed.
Transient(error, hint) == error \in {"not_found", "api"} \/ hint

\* A CliError that is not worth a retry degrades to pending scores; a run without an
\* id raises.
Failures(b) ==
  {IF Transient(e, hint) THEN Retried(b, b.scores) ELSE [b EXCEPT !.pc = "scored", !.polls = 0] :
     e \in CommandErrors, hint \in BOOLEAN}
    \cup IF b.pc = "create" THEN {[b EXCEPT !.pc = "raised"]} ELSE {}

\* One answer to a poll.  A record is absent, pending, failed or a success: the
\* first three have no value.  It is final if there is a record and none is
\* pending, so an answer without a missing value is.
Answers(b) ==
  {[final |-> f, scores |-> v] : f \in BOOLEAN, v \in [DOMAIN b.scores -> Scores \cup {NoScore}]}

Polled(b, answer) ==
  IF answer.final THEN [b EXCEPT !.pc = "scored", !.polls = 0, !.scores = answer.scores]
  ELSE IF b.polls + 1 < PollAttempts THEN [b EXCEPT !.polls = @ + 1]
  ELSE Retried(b, answer.scores)

\* The batch after its next command.
NextBatches(b) ==
  CASE b.pc = "create" -> Failures(b) \cup {[b EXCEPT !.pc = "poll"]}
    [] b.pc = "poll" -> Failures(b) \cup
         {Polled(b, a) : a \in {x \in Answers(b) : x.final \/ \E i \in DOMAIN b.scores : x.scores[i] = NoScore}}
    [] OTHER -> {}

Batch(items) ==
  [pc : {"none", "create", "poll", "scored", "raised"}, attempt : 1..EvalAttempts,
   polls : 0..(PollAttempts - 1), scores : UNION {[D -> Scores \cup {NoScore}] : D \in SUBSET items}]
=============================================================================
