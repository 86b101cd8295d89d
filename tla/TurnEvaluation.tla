--------------------------- MODULE TurnEvaluation ---------------------------
(***************************************************************************)
(* From the end of a turn to a notice: admission, one evaluation per       *)
(* session, the trace locator, the tier ladder, the notice gate with its   *)
(* circuit breaker, and the barrier a host waits on (hook/core.py,         *)
(* hook/tiers.py, evaluation/traces.py).                                   *)
(*                                                                         *)
(* Everything runs on one event loop: a step is the code between two       *)
(* awaits.  A newer turn cancels the evaluation of an older one at the     *)
(* await where it stands; a job the older one has handed to a worker       *)
(* thread is dropped if it was still queued and runs to its end if not.    *)
(* The platform's answers are arbitrary, and so is the set of conditions a *)
(* turn is found to breach.                                                *)
(***************************************************************************)
EXTENDS Naturals, SequencesExt

CONSTANTS
  Sessions,
  Conditions,     \* alert conditions, "<condition>:<metric>"
  MaxTraces,      \* bound: completed traces of one session
  MaxEvals,       \* max_evals_per_run, here positive
  SampleEvery,    \* eval_sample_every
  RateLimit,      \* TRUE iff session_min_eval_interval_s > 0
  MaxConcurrent,  \* max_concurrent_evals
  MaxTracked,     \* _MAX_TRACKED_SESSIONS, of the hook and of the locator
  Cooldown,       \* alert_cooldown_turns
  MaxNotices,     \* circuit_breaker_max_notices, here positive
  Callers         \* tasks of the host that call settle()

ASSUME LimitsArePositive ==
  /\ {MaxEvals, SampleEvery, MaxConcurrent, MaxTracked, MaxNotices} \subseteq Nat \ {0}
  /\ {MaxTraces, Cooldown} \subseteq Nat
ASSUME RateLimitIsSwitch == RateLimit \in BOOLEAN

EvalIds == 1..MaxEvals
NoEval == 0
Traces == 1..MaxTraces

VARIABLES
  traces,    \* traces[s]: how many traces of s the platform has completed
  health,    \* the memoized health check: "unknown", "ok" or "degraded"
  launched,  \* _evals_launched
  tracked,   \* keys of _turn_counts in insertion order
  count,     \* _turn_counts modulo eval_sample_every, 0 for an unknown session
  timed,     \* keys of _last_eval_at
  pending,   \* _pending[s], NoEval for none
  eval,      \* eval[t]: the task of the t-th launch
  thread,    \* thread[t]: the job t has handed to a worker thread
  located,   \* keys of the locator's _seen in insertion order
  seen,      \* seen[s]: what it holds for s
  notice,    \* _notice_state[s]
  breaker,   \* _breaker_tripped and the length of _notice_times
  caller,    \* caller[c]: where c stands in settle()
  evicted,   \* history: sessions that were ever evicted
  folded,    \* history: folded[s][i], how often trace i was folded into the gate
  told,      \* history: told[s], alerting conditions of s that are in a posted notice
  lost       \* history: lost[s], those whose notice was superseded, suppressed, or failed

admission == <<health, launched, tracked, count, timed>>
history == <<evicted, folded, told, lost>>
vars == <<traces, health, launched, tracked, count, timed, pending, eval, thread,
          located, seen, notice, breaker, caller, evicted, folded, told, lost>>

NoTask == [pc |-> "unused", of |-> {}, cancel |-> FALSE, fresh |-> {},
           found |-> {}, forgotten |-> FALSE, known |-> {}]
NoNotice == [known |-> FALSE, signatures |-> {}, cooldown |-> 0]
Outside == [pc |-> "out", of |-> {}, eval |-> NoEval, quiet |-> FALSE, timedOut |-> FALSE]

Ended(t) == eval[t].pc \in {"unused", "done", "failed", "cancelled"}
Running(t) == ~Ended(t) /\ ~eval[t].cancel

Init ==
  /\ traces = [s \in Sessions |-> 0]
  /\ health = "unknown"
  /\ launched = 0
  /\ tracked = <<>>
  /\ count = [s \in Sessions |-> 0]
  /\ timed = {}
  /\ pending = [s \in Sessions |-> NoEval]
  /\ eval = [t \in EvalIds |-> NoTask]
  /\ thread = [t \in EvalIds |-> "idle"]
  /\ located = <<>>
  /\ seen = [s \in Sessions |-> {}]
  /\ notice = [s \in Sessions |-> NoNotice]
  /\ breaker = [tripped |-> FALSE, recent |-> 0]
  /\ caller = [c \in Callers |-> Outside]
  /\ evicted = {}
  /\ folded = [s \in Sessions |-> [i \in Traces |-> 0]]
  /\ told = [s \in Sessions |-> {}]
  /\ lost = [s \in Sessions |-> {}]

\* The platform ingests a trace, possibly long after its turn.
TraceCompletes(s) ==
  /\ traces[s] < MaxTraces
  /\ traces' = [traces EXCEPT ![s] = @ + 1]
  /\ UNCHANGED <<admission, pending, eval, thread, located, seen, notice, breaker, caller, history>>

-----------------------------------------------------------------------------
(* on_turn_end()                                                           *)

\* Mistake: the oldest session goes one too late.
EvictedLate(s) ==
  IF s \notin ToSet(tracked) /\ Len(tracked) > MaxTracked
  THEN {Head(tracked)} ELSE {}

\* The session's turn is counted; one too many evicts the oldest session.
Evicted(s) ==
  IF s \notin ToSet(tracked) /\ Len(tracked) >= MaxTracked
  THEN {Head(tracked)} ELSE {}

\* Sessions in order, but not the one that is out.
Without(order, out) ==
  IF \E i \in DOMAIN order : order[i] \in out
  THEN RemoveAt(order, CHOOSE i \in DOMAIN order : order[i] \in out)
  ELSE order

Counted(s) ==
  LET all == IF s \in ToSet(tracked) THEN tracked ELSE Append(tracked, s)
      out == Evicted(s)
  IN /\ tracked' = IF out = {} THEN all ELSE Tail(all)
     /\ count' = [q \in Sessions |->
          IF q \in out THEN 0
          ELSE IF q = s THEN (count[s] % SampleEvery) + 1 ELSE count[q]]
     /\ notice' = [q \in Sessions |-> IF q \in out THEN NoNotice ELSE notice[q]]
     /\ located' = Without(located, out)
     /\ seen' = [q \in Sessions |-> IF q \in out THEN {} ELSE seen[q]]

\* A turn of s disturbs who waits for s and outdates what others were told.
Disturbed(s) ==
  caller' = [c \in Callers |->
    IF s \notin caller[c].of THEN caller[c]
    ELSE IF caller[c].pc = "out" THEN Outside
    ELSE [caller[c] EXCEPT !.quiet = FALSE]]

\* Past the launch budget nothing is counted at all.
TurnOverBudget(s) ==
  /\ launched >= MaxEvals
  /\ Disturbed(s)
  /\ UNCHANGED <<traces, admission, pending, eval, thread, located, seen, notice, breaker, history>>

SessionOf(t) == CHOOSE s \in Sessions : s \in eval[t].of

\* The seen-set of a listing.
Held(t) == IF eval[t].forgotten THEN eval[t].known ELSE seen[SessionOf(t)]

\* A listing under way keeps the seen-set it started with: forgotten, its marks
\* go nowhere.
Forgetful(t, out) ==
  IF eval[t].pc = "listing" /\ eval[t].of \subseteq out
  THEN [eval[t] EXCEPT !.forgotten = TRUE, !.known = Held(t)] ELSE eval[t]

\* The record of an evicted session's notices goes with its notice state.
Forgotten(out) ==
  /\ evicted' = evicted \cup out
  /\ told' = [q \in Sessions |-> IF q \in out THEN {} ELSE told[q]]
  /\ lost' = [q \in Sessions |-> IF q \in out THEN {} ELSE lost[q]]

\* Sampling or the rate limit refuses the turn, after it has been counted.
TurnSkipped(s) ==
  /\ launched < MaxEvals
  /\ count[s] % SampleEvery # 0 \/ (RateLimit /\ s \in timed)
  /\ Counted(s)
  /\ timed' = timed \ Evicted(s)
  /\ eval' = [t \in EvalIds |-> Forgetful(t, Evicted(s))]
  /\ Forgotten(Evicted(s))
  /\ Disturbed(s)
  /\ UNCHANGED <<traces, health, launched, pending, thread, breaker, folded>>

\* The turn is admitted: the evaluation under way is cancelled and a new one
\* takes its place.  A job of the old one that is still queued is dropped.
TurnAdmitted(s) ==
  LET old == pending[s]
      t == launched + 1
  IN /\ launched < MaxEvals
     /\ count[s] % SampleEvery = 0
     /\ Counted(s)
     /\ launched' = t
     /\ timed' = (timed \ Evicted(s)) \cup {s}
     /\ pending' = [pending EXCEPT ![s] = t]
     /\ eval' = [u \in EvalIds |->
          IF u = t
          THEN [NoTask EXCEPT !.pc = IF health = "ok" THEN "queued" ELSE "starting", !.of = {s}]
          ELSE IF u = old THEN [Forgetful(u, Evicted(s)) EXCEPT !.cancel = TRUE]
          ELSE Forgetful(u, Evicted(s))]
     /\ \/ thread' = thread
        \/ /\ old # NoEval
           /\ thread[old] # "idle"
           /\ thread' = [thread EXCEPT ![old] = "idle"]
     /\ Forgotten(Evicted(s))
     /\ Disturbed(s)
     /\ UNCHANGED <<traces, health, breaker, folded>>

-----------------------------------------------------------------------------
(* The task: _run_eval()                                                   *)

\* Of an ended task only what a thread still needs is kept.
Final(t, outcome) ==
  IF thread[t] = "idle"
  THEN [NoTask EXCEPT !.pc = outcome, !.of = eval[t].of, !.cancel = eval[t].cancel]
  ELSE [eval[t] EXCEPT !.pc = outcome]

\* Mistake: whatever is pending for the session is dropped, newer or not.
EndsAll(t, outcome) ==
  /\ eval' = [eval EXCEPT ![t] = Final(t, outcome)]
  /\ pending' = [pending EXCEPT ![SessionOf(t)] = NoEval]

\* The task ends; its entry in _pending goes, unless a newer task has taken it.
Ends(t, outcome) ==
  /\ eval' = [eval EXCEPT ![t] = Final(t, outcome)]
  /\ pending' = [pending EXCEPT ![SessionOf(t)] = IF @ = t THEN NoEval ELSE @]

\* What t was to tell of its session is not told.
Drops(t) ==
  lost' = [lost EXCEPT ![SessionOf(t)] =
    @ \cup (eval[t].found \cap notice[SessionOf(t)].signatures)]

\* A superseded task stops at its await.
EvalCancelled(t) ==
  /\ ~Ended(t) /\ eval[t].cancel
  /\ Ends(t, "cancelled")
  /\ IF eval[t].pc = "dumping" \/ (eval[t].pc = "persisting" /\ thread[t] = "idle")
     THEN Drops(t) ELSE UNCHANGED lost
  /\ UNCHANGED <<traces, admission, thread, located, seen, notice, breaker, caller,
                 evicted, folded, told>>

\* check_health(): the first answer holds for the rest of the process.  A task
\* that finds it good goes on without an await.
CheckHealth(t) ==
  /\ Running(t) /\ eval[t].pc = "starting"
  /\ health' \in IF health = "unknown" THEN {"ok", "degraded"} ELSE {health}
  /\ IF health' = "ok"
     THEN eval' = [eval EXCEPT ![t].pc = "queued"] /\ UNCHANGED pending
     ELSE Ends(t, "failed")
  /\ UNCHANGED <<traces, launched, tracked, count, timed, thread, located, seen, notice,
                 breaker, caller, history>>

\* Mistake: a superseded task keeps its place in the ladder.
HoldsSlotForEver(t) ==
  eval[t].pc \in {"acquired", "listing", "scoring", "reporting", "cancelled"}

\* The semaphore is held up to the report.
HoldsSlot(t) == eval[t].pc \in {"acquired", "listing", "scoring", "reporting"}

Acquire(t) ==
  /\ Running(t) /\ eval[t].pc = "queued"
  /\ Cardinality({u \in EvalIds : HoldsSlot(u)}) < MaxConcurrent
  /\ eval' = [eval EXCEPT ![t].pc = "acquired"]
  /\ UNCHANGED <<traces, admission, pending, thread, located, seen, notice, breaker, caller, history>>

\* new_traces() takes the session's seen-set, or a new one; one too many evicts the
\* oldest session of the locator.
Locate(t) ==
  LET s == SessionOf(t)
      all == IF s \in ToSet(located) THEN located ELSE Append(located, s)
      out == IF Len(all) > MaxTracked THEN {Head(all)} ELSE {}
  IN /\ Running(t) /\ eval[t].pc = "acquired"
     /\ located' = IF out = {} THEN all ELSE Tail(all)
     /\ seen' = [q \in Sessions |-> IF q \in out THEN {} ELSE seen[q]]
     /\ evicted' = evicted \cup out
     /\ eval' = [u \in EvalIds |->
          IF u = t THEN [eval[t] EXCEPT !.pc = "listing"] ELSE Forgetful(u, out)]
     /\ UNCHANGED <<traces, admission, pending, thread, notice, breaker, caller,
                    folded, told, lost>>

\* Mistake: traces are marked as delivered once they have been scored.
ListUnmarked(t) ==
  LET s == SessionOf(t)
  IN /\ Running(t) /\ eval[t].pc = "listing"
     /\ \E fresh \in {(1..traces[s]) \ Held(t), {}} :
          eval' = [eval EXCEPT ![t].fresh = fresh,
                              ![t].pc = IF fresh = {} THEN "reporting" ELSE "scoring"]
     /\ UNCHANGED <<traces, admission, pending, thread, located, seen, notice, breaker, caller, history>>

\* It returns what is not in the seen-set and marks it; nothing if the listing fails.
List(t) ==
  LET s == SessionOf(t)
  IN /\ Running(t) /\ eval[t].pc = "listing"
     /\ \E fresh \in {(1..traces[s]) \ Held(t), {}} :
          /\ eval' = [eval EXCEPT ![t].fresh = fresh, ![t].forgotten = FALSE, ![t].known = {},
                                  ![t].pc = IF fresh = {} THEN "reporting" ELSE "scoring"]
          /\ seen' = IF eval[t].forgotten THEN seen ELSE [seen EXCEPT ![s] = @ \cup fresh]
     /\ UNCHANGED <<traces, admission, pending, thread, located, notice, breaker, caller, history>>

\* Tier 1 has scored the traces; a thread folds them into the gate.
Score(t) ==
  /\ Running(t) /\ eval[t].pc = "scoring"
  /\ eval' = [eval EXCEPT ![t].pc = "reporting"]
  /\ thread' = [thread EXCEPT ![t] = "fold"]
  /\ UNCHANGED <<traces, admission, pending, located, seen, notice, breaker, caller, history>>

\* The higher tiers and the verifier are in: the report is handled, and first
\* of all observed by validation, which RuleValidation models.
Report(t, found) ==
  /\ Running(t) /\ eval[t].pc = "reporting" /\ thread[t] = "idle"
  /\ eval' = [eval EXCEPT ![t].pc = "observing", ![t].found = found, ![t].fresh = {}]
  /\ UNCHANGED <<traces, admission, pending, thread, located, seen, notice, breaker, caller, history>>

\* An exception anywhere in the ladder ends the task without a report.
EvalFails(t) ==
  /\ Running(t) /\ eval[t].pc \in {"listing", "scoring", "reporting"} /\ thread[t] = "idle"
  /\ Ends(t, "failed")
  /\ UNCHANGED <<traces, admission, thread, located, seen, notice, breaker, caller, history>>

\* _should_notice(), on the conditions found: is a notice due?
Due(s, found) ==
  LET known == notice[s].signatures
  IN \/ found \ known # {}
     \/ found = known /\ Cooldown > 0 /\ notice[s].cooldown = 0

\* The notice state the gate leaves behind.
Gated(s, found) ==
  [known |-> TRUE, signatures |-> found,
   cooldown |-> IF Due(s, found) THEN Cooldown
                ELSE IF notice[s].cooldown = 0 THEN 0 ELSE notice[s].cooldown - 1]

\* Mistake: the recovered session keeps its notice state.
HealthyUnreset(t) ==
  LET s == SessionOf(t)
  IN /\ Running(t) /\ eval[t].pc = "observing"
     /\ eval[t].found = {}
     /\ told' = [told EXCEPT ![s] = {}]
     /\ lost' = [lost EXCEPT ![s] = {}]
     /\ IF notice[s].known
        THEN /\ breaker' = [tripped |-> FALSE, recent |-> 0]
             /\ eval' = [eval EXCEPT ![t].pc = "recovering"]
             /\ UNCHANGED pending
        ELSE Ends(t, "done") /\ UNCHANGED breaker
     /\ UNCHANGED <<traces, admission, thread, located, seen, notice, caller,
                    evicted, folded>>

\* A healthy report is the session's recovery and resets the breaker of all.
Healthy(t) ==
  LET s == SessionOf(t)
  IN /\ Running(t) /\ eval[t].pc = "observing"
     /\ eval[t].found = {}
     /\ notice' = [notice EXCEPT ![s] = NoNotice]
     /\ told' = [told EXCEPT ![s] = {}]
     /\ lost' = [lost EXCEPT ![s] = {}]
     /\ IF notice[s].known
        THEN /\ breaker' = [tripped |-> FALSE, recent |-> 0]
             /\ eval' = [eval EXCEPT ![t].pc = "recovering"]
             /\ UNCHANGED pending
        ELSE Ends(t, "done") /\ UNCHANGED breaker
     /\ UNCHANGED <<traces, admission, thread, located, seen, caller,
                    evicted, folded>>

\* The recovery is in the journal; if it cannot be written the report is lost.
Recovered(t) ==
  /\ Running(t) /\ eval[t].pc = "recovering"
  /\ \E outcome \in {"done", "failed"} : Ends(t, outcome)
  /\ UNCHANGED <<traces, admission, thread, located, seen, notice, breaker, caller, history>>

\* An alerting report is gated; if a notice is due its dump is built first.
Alert(t) ==
  LET s == SessionOf(t)
      found == eval[t].found
  IN /\ Running(t) /\ eval[t].pc = "observing"
     /\ found # {}
     /\ notice' = [notice EXCEPT ![s] = Gated(s, found)]
     /\ told' = [told EXCEPT ![s] = @ \cap found]
     /\ lost' = [lost EXCEPT ![s] = @ \cap found]
     /\ IF Due(s, found)
        THEN eval' = [eval EXCEPT ![t].pc = "dumping"] /\ UNCHANGED pending
        ELSE Ends(t, "done")
     /\ UNCHANGED <<traces, admission, thread, located, seen, breaker, caller,
                    evicted, folded>>

\* The oldest notices may have left the window; a drained window closes the breaker.
Swept == {[tripped |-> breaker.tripped /\ recent # 0, recent |-> recent] :
            recent \in 0..breaker.recent}

\* One more notice: a full window opens the breaker instead of counting it.
Counting(b) == IF b.recent >= MaxNotices THEN [b EXCEPT !.tripped = TRUE]
               ELSE [b EXCEPT !.recent = @ + 1]

\* The dump is built and _breaker_or_notice() decides: an open breaker suppresses
\* the notice.  Only the notice that opens it, the alarm, is posted past the limit.
Dumped(t) ==
  /\ Running(t) /\ eval[t].pc = "dumping"
  /\ \E b \in Swept :
       \/ /\ b.tripped
          /\ breaker' = b
          /\ Ends(t, "done") /\ Drops(t)
          /\ UNCHANGED thread
       \/ /\ ~b.tripped
          /\ breaker' = Counting(b)
          /\ eval' = [eval EXCEPT ![t].pc = "persisting"]
          /\ thread' = [thread EXCEPT ![t] = "persist"]
          /\ UNCHANGED <<pending, lost>>
  /\ UNCHANGED <<traces, admission, located, seen, notice, caller, evicted, folded, told>>

\* An exception of the dump, or of the notice when the breaker has counted it, is
\* swallowed: the report is returned, and the notice state stays.
DumpFails(t) ==
  /\ Running(t) /\ eval[t].pc = "dumping"
  /\ breaker' \in {breaker} \cup {Counting(b) : b \in {c \in Swept : ~c.tripped}}
  /\ Ends(t, "done") /\ Drops(t)
  /\ UNCHANGED <<traces, admission, thread, located, seen, notice, caller,
                 evicted, folded, told>>

\* Mistake: the task does not wait for its notice to be posted.
PersistedUnawaited(t) ==
  /\ Running(t) /\ eval[t].pc = "persisting"
  /\ Ends(t, "done")
  /\ UNCHANGED <<traces, admission, thread, located, seen, notice, breaker, caller, history>>

\* The thread is done, whether it has posted the notice or raised: the report is
\* returned.
Persisted(t) ==
  /\ Running(t) /\ eval[t].pc = "persisting" /\ thread[t] = "idle"
  /\ Ends(t, "done")
  /\ UNCHANGED <<traces, admission, thread, located, seen, notice, breaker, caller, history>>

EvalStep(t) ==
  \/ EvalCancelled(t) \/ CheckHealth(t) \/ List(t) \/ Score(t)
  \/ \E found \in SUBSET Conditions : Report(t, found)
  \/ EvalFails(t) \/ Healthy(t) \/ Recovered(t) \/ Alert(t)
  \/ Dumped(t) \/ DumpFails(t) \/ Persisted(t)

-----------------------------------------------------------------------------
(* Worker threads                                                          *)

ThreadFold(t) ==
  /\ thread[t] = "fold"
  /\ thread' = [thread EXCEPT ![t] = "idle"]
  /\ folded' = [folded EXCEPT ![SessionOf(t)] =
       [i \in Traces |-> IF i \in eval[t].fresh THEN @[i] + 1 ELSE @[i]]]
  /\ UNCHANGED <<traces, admission, pending, eval, located, seen, notice, breaker, caller,
                 evicted, told, lost>>

\* _persist_notice() posts the notice.
ThreadPersist(t) ==
  LET s == SessionOf(t)
  IN /\ thread[t] = "persist"
     /\ thread' = [thread EXCEPT ![t] = "idle"]
     /\ told' = [told EXCEPT ![s] = @ \cup (eval[t].found \cap notice[s].signatures)]
     /\ UNCHANGED <<traces, admission, pending, eval, located, seen, notice, breaker, caller,
                    evicted, folded, lost>>

\* It raises before the notice is in the mailbox: the exception goes to the task,
\* which swallows it, if it still waits.
ThreadPersistFails(t) ==
  /\ thread[t] = "persist"
  /\ thread' = [thread EXCEPT ![t] = "idle"]
  /\ Drops(t)
  /\ UNCHANGED <<traces, admission, pending, eval, located, seen, notice, breaker, caller,
                 evicted, folded, told>>

ThreadStep(t) == ThreadFold(t) \/ ThreadPersist(t) \/ ThreadPersistFails(t)

-----------------------------------------------------------------------------
(* The barrier: settle() up to the repair it then runs.  refresh() joins    *)
(* the task in the same way.                                               *)

Settle(c, s) ==
  /\ caller[c].pc = "out"
  /\ caller' = [caller EXCEPT ![c] =
       IF pending[s] = NoEval
       THEN [Outside EXCEPT !.of = {s}, !.quiet = TRUE]
       ELSE [Outside EXCEPT !.pc = "waiting", !.of = {s}, !.eval = pending[s], !.quiet = TRUE]]
  /\ UNCHANGED <<traces, admission, pending, eval, thread, located, seen, notice, breaker, history>>

\* Without a report the caller is told that the evaluation timed out whenever
\* there is one pending.
Returns(c, reported) ==
  caller' = [caller EXCEPT
    ![c].pc = "out", ![c].eval = NoEval,
    ![c].timedOut = ~reported /\ \E s \in caller[c].of : pending[s] # NoEval]

SettleJoins(c) ==
  /\ caller[c].pc = "waiting"
  /\ Ended(caller[c].eval)
  /\ Returns(c, eval[caller[c].eval].pc = "done")
  /\ UNCHANGED <<traces, admission, pending, eval, thread, located, seen, notice, breaker, history>>

SettleTimesOut(c) ==
  /\ caller[c].pc = "waiting"
  /\ Returns(c, FALSE)
  /\ UNCHANGED <<traces, admission, pending, eval, thread, located, seen, notice, breaker, history>>

-----------------------------------------------------------------------------
Next ==
  \/ \E s \in Sessions :
       TraceCompletes(s) \/ TurnOverBudget(s) \/ TurnSkipped(s) \/ TurnAdmitted(s)
  \/ \E t \in EvalIds : EvalStep(t) \/ Acquire(t) \/ Locate(t) \/ ThreadStep(t)
  \/ \E c \in Callers :
       \/ \E s \in Sessions : Settle(c, s)
       \/ SettleJoins(c) \/ SettleTimesOut(c)

Spec == Init /\ [][Next]_vars

\* Tasks and threads run, every call of the platform has a time-out, and the
\* developer's verifier is assumed to end.  The semaphore is first come, first served.
Fairness ==
  \A t \in EvalIds :
    /\ WF_vars(EvalStep(t) \/ Locate(t)) /\ WF_vars(ThreadStep(t))
    /\ SF_vars(Acquire(t))

FairSpec == Spec /\ Fairness

-----------------------------------------------------------------------------
(* Properties *)

TaskState ==
  [pc : {"unused", "starting", "queued", "acquired", "listing", "scoring", "reporting", "observing",
         "recovering", "dumping", "persisting", "done", "failed", "cancelled"},
   of : SUBSET Sessions, cancel : BOOLEAN, fresh : SUBSET Traces,
   found : SUBSET Conditions, forgotten : BOOLEAN, known : SUBSET Traces]
NoticeState == [known : BOOLEAN, signatures : SUBSET Conditions, cooldown : 0..Cooldown]
CallerState ==
  [pc : {"out", "waiting"}, of : SUBSET Sessions, eval : 0..MaxEvals,
   quiet : BOOLEAN, timedOut : BOOLEAN]

\* Every variable keeps its shape.
TypeOK ==
  /\ traces \in [Sessions -> 0..MaxTraces]
  /\ health \in {"unknown", "ok", "degraded"}
  /\ launched \in 0..MaxEvals
  /\ tracked \in Seq(Sessions) /\ Len(tracked) <= MaxTracked
  /\ count \in [Sessions -> 0..SampleEvery]
  /\ timed \in SUBSET Sessions
  /\ pending \in [Sessions -> 0..MaxEvals]
  /\ eval \in [EvalIds -> TaskState]
  /\ thread \in [EvalIds -> {"idle", "fold", "persist"}]
  /\ located \in Seq(Sessions) /\ Len(located) <= MaxTracked
  /\ seen \in [Sessions -> SUBSET Traces]
  /\ notice \in [Sessions -> NoticeState]
  /\ breaker \in [tripped : BOOLEAN, recent : 0..MaxNotices]
  /\ caller \in [Callers -> CallerState]
  /\ evicted \in SUBSET Sessions
  /\ folded \in [Sessions -> [Traces -> Nat]]
  /\ told \in [Sessions -> SUBSET Conditions]
  /\ lost \in [Sessions -> SUBSET Conditions]

\* A running evaluation is the one its session's next turn would cancel and its
\* barrier would join, whatever was cancelled, failed or evicted before; there
\* is never a second one, and an entry never outlives its task.
PendingIsCurrent ==
  /\ \A t \in EvalIds : Running(t) => pending[SessionOf(t)] = t
  /\ \A s \in Sessions : pending[s] # NoEval => Running(pending[s])

\* No trace enters the gate twice, which would count its drop or its stall twice,
\* although a cancelled evaluation's thread may still be folding when the next
\* one lists; what an evicted session has seen is forgotten on purpose.
FoldedOnce ==
  \A s \in Sessions \ evicted : \A i \in Traces : folded[s][i] <= 1

\* A settle() that did not time out and after which no turn ended has waited for
\* the last evaluation to the end, its notice, posted or failed, included.
SettledMeansLanded ==
  \A c \in Callers :
    caller[c].pc = "out" /\ caller[c].quiet /\ ~caller[c].timedOut =>
      \A t \in EvalIds :
        eval[t].of = caller[c].of /\ ~eval[t].cancel => Ended(t) /\ thread[t] # "persist"

\* A condition the gate takes for reported is in a notice or on its way into one,
\* or its notice was superseded, suppressed by the breaker, or could not be written:
\* a notice is not lost in any other way.
ReportedConditionsAreTold ==
  \A s \in Sessions : \A c \in notice[s].signatures :
    \/ c \in told[s] \cup lost[s]
    \/ \E t \in EvalIds :
         /\ eval[t].of = {s} /\ c \in eval[t].found
         /\ eval[t].pc \in {"dumping", "persisting"} \/ thread[t] = "persist"

\* Every evaluation ends, done, failed or superseded: no slot of the semaphore is
\* lost to a cancelled one.
EvaluationEnds == \A t \in EvalIds : ~Ended(t) ~> Ended(t)

\* evaluation/traces.py:13: "a trace is Tier-1 scored exactly once no matter how
\* often the barrier runs".  Once nothing runs any more, every delivered trace
\* has been; failed evaluations are not counted.
DeliveredMeansScored ==
  (\A t \in EvalIds : Ended(t) /\ thread[t] = "idle" /\ eval[t].pc # "failed") =>
    \A s \in Sessions : \A i \in seen[s] : folded[s][i] = 1
=============================================================================
