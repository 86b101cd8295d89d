------------------------ MODULE TurnEvaluationProofs ------------------------
(***************************************************************************)
(* Theorems about TurnEvaluation, for any number of sessions, conditions,  *)
(* traces, evaluations and callers, and every setting of the limits.       *)
(***************************************************************************)
EXTENDS TurnEvaluation, TLAPS

-----------------------------------------------------------------------------
(* Operators *)

\* A task is of the one session it was launched for.
LEMMA SessionIs ==
  ASSUME NEW t, NEW s \in Sessions, eval[t].of = {s}
  PROVE  SessionOf(t) = s
<1>1. s \in eval[t].of /\ \A q \in eval[t].of : q = s
  BY SMT
<1>2. \E q \in Sessions : q \in eval[t].of
  BY <1>1
<1>3. SessionOf(t) \in eval[t].of
  BY <1>2, Zenon DEF SessionOf
<1> QED
  BY <1>1, <1>3

\* The records a task, a session's notices and a caller start from.
LEMMA FreshRecords ==
  NoTask \in TaskState /\ NoNotice \in NoticeState /\ Outside \in CallerState
BY LimitsArePositive DEF NoTask, TaskState, NoNotice, NoticeState, Outside, CallerState, NoEval

\* An ended task keeps its session and its mark, and the rest only for a thread that
\* still runs.
LEMMA FinalType ==
  ASSUME TypeOK, NEW t \in EvalIds, NEW outcome \in {"done", "failed", "cancelled"}
  PROVE  /\ Final(t, outcome) \in TaskState
         /\ Final(t, outcome).pc = outcome
         /\ Final(t, outcome).of = eval[t].of
         /\ Final(t, outcome).cancel = eval[t].cancel
         /\ thread[t] = "idle" => /\ Final(t, outcome).fresh = {}
                                  /\ Final(t, outcome).found = {}
                                  /\ ~Final(t, outcome).forgotten
         /\ thread[t] # "idle" => /\ Final(t, outcome).fresh = eval[t].fresh
                                  /\ Final(t, outcome).found = eval[t].found
                                  /\ Final(t, outcome).forgotten = eval[t].forgotten
<1>0. eval[t] \in TaskState
  BY DEF TypeOK
<1>1. CASE thread[t] = "idle"
  <2> DEFINE x == [NoTask EXCEPT !.pc = outcome, !.of = eval[t].of, !.cancel = eval[t].cancel]
  <2>1. Final(t, outcome) = x
    BY <1>1 DEF Final
  <2>2. /\ x \in TaskState /\ x.pc = outcome /\ x.of = eval[t].of /\ x.cancel = eval[t].cancel
        /\ x.fresh = {} /\ x.found = {} /\ ~x.forgotten
    BY <1>0 DEF NoTask, TaskState
  <2> HIDE DEF x
  <2> QED
    BY <1>1, <2>1, <2>2
<1>2. CASE thread[t] # "idle"
  BY <1>0, <1>2 DEF Final, TaskState
<1> QED
  BY <1>1, <1>2

-----------------------------------------------------------------------------
(* Shapes, and the tasks that are pending *)

\* A launch has its task and its session; what is not launched has neither.
LaunchInv ==
  \A t \in EvalIds :
    /\ t > launched => eval[t].pc = "unused" /\ thread[t] = "idle"
    /\ t <= launched => eval[t].pc # "unused" /\ \E s \in Sessions : eval[t].of = {s}

\* A thread works for a task that waits for it, or was cancelled while it did.
ThreadInv ==
  \A t \in EvalIds :
    /\ thread[t] = "fold" => eval[t].pc \in {"reporting", "cancelled"}
    /\ thread[t] = "persist" => eval[t].pc \in {"persisting", "cancelled"}
    /\ eval[t].pc = "cancelled" => eval[t].cancel

PendingOwned == \A s \in Sessions : pending[s] # NoEval => eval[pending[s]].of = {s}

TaskInv == TypeOK /\ LaunchInv /\ ThreadInv /\ PendingOwned /\ PendingIsCurrent

LEMMA TaskInit == Init => TaskInv
<1> SUFFICES ASSUME Init PROVE TaskInv
  OBVIOUS
<1>0. MaxEvals \in Nat /\ MaxTraces \in Nat /\ SampleEvery \in Nat /\ MaxNotices \in Nat
      /\ MaxTracked \in Nat
  BY LimitsArePositive
<1>1. TypeOK
  <2>1. /\ eval \in [EvalIds -> TaskState] /\ notice \in [Sessions -> NoticeState]
        /\ caller \in [Callers -> CallerState]
    BY FreshRecords DEF Init
  <2>2. /\ tracked \in Seq(Sessions) /\ Len(tracked) <= MaxTracked
        /\ located \in Seq(Sessions) /\ Len(located) <= MaxTracked
    BY <1>0 DEF Init
  <2> QED
    BY <1>0, <2>1, <2>2 DEF Init, TypeOK, NoEval
<1>2. \A t \in EvalIds : eval[t] = NoTask /\ thread[t] = "idle" /\ t > launched
  BY <1>0 DEF Init, EvalIds
<1>3. LaunchInv
  BY <1>0, <1>2 DEF LaunchInv, Init, EvalIds, NoTask
<1>4. ThreadInv /\ PendingOwned /\ PendingIsCurrent
  BY <1>2 DEF ThreadInv, PendingOwned, PendingIsCurrent, Init, Running, Ended, NoTask
<1> QED
  BY <1>1, <1>3, <1>4 DEF TaskInv

\* The steps of a task t of session s, field by field.  What they have in common:
Takes(t) ==
  /\ ~Ended(t)
  /\ eval' \in [EvalIds -> TaskState]
  /\ \A u \in EvalIds \ {t} : eval'[u] = eval[u]
  /\ eval'[t].of = eval[t].of /\ eval'[t].cancel = eval[t].cancel
  /\ eval'[t].forgotten => eval[t].forgotten
  /\ UNCHANGED <<traces, launched, tracked, count, timed, located, caller, evicted, folded>>

Stays(t) ==
  /\ eval'[t].pc \notin {"unused", "done", "failed", "cancelled"}
  /\ UNCHANGED pending

Leaves(t) ==
  /\ \/ eval'[t].pc = "cancelled" /\ eval[t].cancel
     \/ eval'[t].pc \in {"done", "failed"} /\ ~eval[t].cancel
  /\ thread[t] = "idle" => eval'[t].fresh = {} /\ eval'[t].found = {}
  /\ thread[t] # "idle" => eval'[t].fresh = eval[t].fresh /\ eval'[t].found = eval[t].found
  /\ pending' \in [Sessions -> 0..MaxEvals]
  /\ \A q \in Sessions :
       pending'[q] = IF eval[t].of = {q} /\ pending[q] = t THEN NoEval ELSE pending[q]

Goes(t) ==
  /\ Takes(t) /\ Stays(t)
  /\ eval[t].pc \in {"starting", "queued"} /\ eval'[t].pc \in {"queued", "acquired"}
  /\ eval'[t].fresh = eval[t].fresh /\ eval'[t].found = eval[t].found
  /\ UNCHANGED <<thread, seen, notice, breaker, told, lost>>

\* The task ends where nothing is gated.
Stops(t, s) ==
  /\ Takes(t) /\ Leaves(t)
  /\ eval[t].cancel \/ thread[t] = "idle"
  /\ \/ /\ lost' = lost
        /\ eval[t].pc \in {"dumping", "persisting"} =>
             eval[t].pc = "persisting" /\ (thread[t] = "idle" => ~eval[t].cancel)
     \/ lost' = [lost EXCEPT ![s] = @ \cup (eval[t].found \cap notice[s].signatures)]
  /\ UNCHANGED <<thread, seen, notice, told>>

Lists(t, s) ==
  /\ Takes(t) /\ Stays(t)
  /\ eval[t].pc = "listing" /\ eval'[t].pc \in {"reporting", "scoring"}
  /\ ~eval[t].forgotten => eval'[t].fresh \cap seen[s] = {}
  /\ eval'[t].found = eval[t].found
  /\ seen' = IF eval[t].forgotten THEN seen ELSE [seen EXCEPT ![s] = @ \cup eval'[t].fresh]
  /\ UNCHANGED <<thread, notice, breaker, told, lost>>

Scores(t) ==
  /\ Takes(t) /\ Stays(t)
  /\ eval[t].pc = "scoring" /\ eval'[t].pc = "reporting"
  /\ eval'[t].fresh = eval[t].fresh /\ eval'[t].found = eval[t].found
  /\ thread' = [thread EXCEPT ![t] = "fold"]
  /\ UNCHANGED <<seen, notice, breaker, told, lost>>

Reports(t) ==
  /\ Takes(t) /\ Stays(t)
  /\ eval[t].pc = "reporting" /\ eval'[t].pc = "observing" /\ thread[t] = "idle"
  /\ eval'[t].fresh = {}
  /\ UNCHANGED <<thread, seen, notice, breaker, told, lost>>

Recovers(t, s) ==
  /\ Takes(t)
  /\ eval[t].pc = "observing" /\ ~eval[t].cancel
  /\ Leaves(t) \/ (/\ Stays(t) /\ eval'[t].pc = "recovering"
                   /\ eval'[t].fresh = eval[t].fresh /\ eval'[t].found = eval[t].found)
  /\ notice' = [notice EXCEPT ![s] = NoNotice]
  /\ told' = [told EXCEPT ![s] = {}]
  /\ lost' = [lost EXCEPT ![s] = {}]
  /\ UNCHANGED <<thread, seen>>

Gates(t, s) ==
  /\ Takes(t)
  /\ eval[t].pc = "observing" /\ ~eval[t].cancel
  /\ \/ /\ Leaves(t) /\ ~Due(s, eval[t].found)
     \/ /\ Stays(t) /\ eval'[t].pc = "dumping"
        /\ eval'[t].fresh = eval[t].fresh /\ eval'[t].found = eval[t].found
  /\ notice' = [notice EXCEPT ![s] = Gated(s, eval[t].found)]
  /\ told' = [told EXCEPT ![s] = @ \cap eval[t].found]
  /\ lost' = [lost EXCEPT ![s] = @ \cap eval[t].found]
  /\ UNCHANGED <<thread, seen, breaker>>

Persists(t) ==
  /\ Takes(t) /\ Stays(t)
  /\ eval[t].pc = "dumping" /\ eval'[t].pc = "persisting"
  /\ eval'[t].fresh = eval[t].fresh /\ eval'[t].found = eval[t].found
  /\ thread' = [thread EXCEPT ![t] = "persist"]
  /\ UNCHANGED <<seen, notice, told, lost>>

TaskShape(t, s) ==
  \/ Goes(t) \/ Stops(t, s) \/ Lists(t, s) \/ Scores(t) \/ Reports(t) \/ Recovers(t, s)
  \/ Gates(t, s) \/ Persists(t)

\* Whatever has a task has its session.
LEMMA TaskHasSession ==
  ASSUME TaskInv, NEW t \in EvalIds, eval[t].pc # "unused"
  PROVE  \E s \in Sessions : eval[t].of = {s}
<1>1. launched \in Nat /\ t \in Nat
  BY LimitsArePositive DEF TaskInv, TypeOK, EvalIds
<1>2. t <= launched
  BY <1>1 DEF TaskInv, LaunchInv, NoTask
<1> QED
  BY <1>2 DEF TaskInv, LaunchInv

\* A task whose session is forgotten while it lists forgets what it marks.
LEMMA ForgetfulType ==
  ASSUME TaskInv, NEW t \in EvalIds, NEW out
  PROVE  /\ Forgetful(t, out) \in TaskState
         /\ Forgetful(t, out).pc = eval[t].pc
         /\ Forgetful(t, out).of = eval[t].of
         /\ Forgetful(t, out).cancel = eval[t].cancel
         /\ Forgetful(t, out).fresh = eval[t].fresh
         /\ Forgetful(t, out).found = eval[t].found
         /\ eval[t].pc = "listing" /\ eval[t].of \subseteq out => Forgetful(t, out).forgotten
         /\ Forgetful(t, out).forgotten => eval[t].forgotten \/ eval[t].of \subseteq out
<1>0. eval[t] \in TaskState /\ seen \in [Sessions -> SUBSET Traces]
  BY DEF TaskInv, TypeOK
<1>1. CASE eval[t].pc = "listing" /\ eval[t].of \subseteq out
  <2> DEFINE held == Held(t)
             x == [eval[t] EXCEPT !.forgotten = TRUE, !.known = held]
  <2>1. PICK s \in Sessions : eval[t].of = {s}
    BY <1>1, TaskHasSession
  <2>2. SessionOf(t) = s
    BY <2>1, SessionIs
  <2>3. held \in SUBSET Traces
    BY <1>0, <2>2 DEF Held, TaskState
  <2>4. Forgetful(t, out) = x
    BY <1>1 DEF Forgetful
  <2> HIDE DEF held
  <2>5. /\ x \in TaskState /\ x.pc = eval[t].pc /\ x.of = eval[t].of
        /\ x.cancel = eval[t].cancel /\ x.fresh = eval[t].fresh /\ x.found = eval[t].found
        /\ x.forgotten
    BY <1>0, <2>3 DEF TaskState
  <2> HIDE DEF x
  <2> QED
    BY <1>1, <2>4, <2>5
<1>2. CASE ~(eval[t].pc = "listing" /\ eval[t].of \subseteq out)
  <2>1. Forgetful(t, out) = eval[t]
    BY <1>2 DEF Forgetful
  <2> QED
    BY <1>0, <1>2, <2>1
<1> QED
  BY <1>1, <1>2

LEMMA StaysShape ==
  ASSUME TypeOK, NEW t \in EvalIds, ~Ended(t), NEW x \in TaskState,
         eval' = [eval EXCEPT ![t] = x],
         x.of = eval[t].of, x.cancel = eval[t].cancel, x.forgotten => eval[t].forgotten,
         UNCHANGED <<traces, launched, tracked, count, timed, located, caller, evicted, folded>>
  PROVE  Takes(t) /\ eval'[t] = x
BY DEF Takes, TypeOK

LEMMA EndsShape ==
  ASSUME TaskInv, NEW t \in EvalIds, NEW s \in Sessions, eval[t].of = {s}, ~Ended(t),
         NEW outcome \in {"done", "failed", "cancelled"}, Ends(t, outcome),
         outcome = "cancelled" <=> eval[t].cancel,
         UNCHANGED <<traces, launched, tracked, count, timed, located, caller, evicted, folded>>
  PROVE  Takes(t) /\ Leaves(t)
<1>0. TypeOK /\ pending \in [Sessions -> 0..MaxEvals]
  BY DEF TaskInv, TypeOK
<1>1. eval' = [eval EXCEPT ![t] = Final(t, outcome)]
  BY DEF Ends
<1>2. Takes(t) /\ eval'[t] = Final(t, outcome)
  <2> DEFINE x == Final(t, outcome)
  <2>1. x \in TaskState /\ x.of = eval[t].of /\ x.cancel = eval[t].cancel
    BY <1>0, FinalType
  <2>2. x.forgotten => eval[t].forgotten
    BY <1>0, FinalType
  <2>3. eval' = [eval EXCEPT ![t] = x]
    BY <1>1
  <2> HIDE DEF x
  <2> QED
    BY <1>0, <2>1, <2>2, <2>3, StaysShape DEF x
<1>3. pending' = [pending EXCEPT ![s] = IF pending[s] = t THEN NoEval ELSE pending[s]]
  BY SessionIs DEF Ends
<1>4. /\ pending' \in [Sessions -> 0..MaxEvals]
      /\ \A q \in Sessions :
           pending'[q] = IF eval[t].of = {q} /\ pending[q] = t THEN NoEval ELSE pending[q]
  BY <1>0, <1>3, LimitsArePositive DEF NoEval
<1> QED
  BY <1>0, <1>2, <1>4, FinalType DEF Leaves

LEMMA TaskShapes ==
  ASSUME TaskInv, NEW t \in EvalIds, EvalStep(t) \/ Acquire(t)
  PROVE  \E s \in Sessions : eval[t].of = {s} /\ TaskShape(t, s)
<1>0. /\ TypeOK /\ eval \in [EvalIds -> TaskState] /\ eval[t] \in TaskState
      /\ thread \in [EvalIds -> {"idle", "fold", "persist"}]
  BY DEF TaskInv, TypeOK
<1>1. ~Ended(t)
  BY DEF EvalStep, Acquire, EvalCancelled, CheckHealth, List, Score, Report, EvalFails,
     Healthy, Recovered, Alert, Dumped, DumpFails, Persisted, Running
<1>2. PICK s \in Sessions : eval[t].of = {s}
  BY <1>1, TaskHasSession DEF Ended
<1>3. SessionOf(t) = s
  BY <1>2, SessionIs
<1>4. thread[t] = "idle" \/ eval[t].pc \in {"reporting", "persisting", "cancelled"}
  BY <1>0 DEF TaskInv, ThreadInv
<1> SUFFICES TaskShape(t, s)
  BY <1>2
<1>5. CASE EvalCancelled(t)
  <2>1. Takes(t) /\ Leaves(t)
    BY <1>1, <1>2, <1>5, EndsShape DEF EvalCancelled, admission
  <2>2. Stops(t, s)
    BY <1>0, <1>3, <1>5, <2>1 DEF EvalCancelled, Drops, Stops
  <2> QED
    BY <2>2 DEF TaskShape
<1>6. CASE CheckHealth(t)
  <2>0. /\ eval[t].pc = "starting" /\ ~eval[t].cancel /\ thread[t] = "idle"
        /\ UNCHANGED <<traces, launched, tracked, count, timed, thread, located, seen, notice,
                       breaker, caller, evicted, folded, told, lost>>
    BY <1>4, <1>6 DEF CheckHealth, Running, history
  <2>1. CASE Ends(t, "failed")
    <3>1. Takes(t) /\ Leaves(t)
      BY <1>1, <1>2, <2>0, <2>1, EndsShape
    <3> QED
      BY <2>0, <3>1 DEF Stops, TaskShape
  <2>2. CASE eval' = [eval EXCEPT ![t].pc = "queued"] /\ UNCHANGED pending
    <3> DEFINE x == [eval[t] EXCEPT !.pc = "queued"]
    <3>1. /\ x \in TaskState /\ x.pc = "queued" /\ x.of = eval[t].of
          /\ x.cancel = eval[t].cancel /\ x.forgotten = eval[t].forgotten
          /\ x.fresh = eval[t].fresh /\ x.found = eval[t].found
          /\ eval' = [eval EXCEPT ![t] = x]
      BY <1>0, <2>2 DEF TaskState
    <3> HIDE DEF x
    <3>2. Takes(t) /\ eval'[t] = x
      BY <1>0, <1>1, <2>0, <3>1, StaysShape
    <3> QED
      BY <2>0, <2>2, <3>1, <3>2 DEF Goes, Stays, TaskShape
  <2> QED
    BY <1>6, <2>1, <2>2 DEF CheckHealth
<1>7. CASE Acquire(t)
  <2> DEFINE x == [eval[t] EXCEPT !.pc = "acquired"]
  <2>1. /\ x \in TaskState /\ x.pc = "acquired" /\ x.of = eval[t].of
        /\ x.cancel = eval[t].cancel /\ x.forgotten = eval[t].forgotten
        /\ x.fresh = eval[t].fresh /\ x.found = eval[t].found
        /\ eval' = [eval EXCEPT ![t] = x]
    BY <1>0, <1>7 DEF Acquire, TaskState
  <2>2. /\ eval[t].pc = "queued"
        /\ UNCHANGED <<traces, admission, pending, thread, located, seen, notice, breaker, caller,
                       history>>
    BY <1>7 DEF Acquire
  <2> HIDE DEF x
  <2>3. Takes(t) /\ eval'[t] = x
    BY <1>0, <1>1, <2>1, <2>2, StaysShape DEF admission, history
  <2> QED
    BY <2>1, <2>2, <2>3 DEF Goes, Stays, TaskShape, history
<1>8. CASE List(t)
  <2>0. traces[s] \in 0..MaxTraces /\ MaxTraces \in Nat
    BY <1>0, LimitsArePositive DEF TypeOK
  <2>1. PICK fresh \in {(1..traces[s]) \ Held(t), {}} :
          /\ eval' = [eval EXCEPT ![t].fresh = fresh, ![t].forgotten = FALSE, ![t].known = {},
                                  ![t].pc = IF fresh = {} THEN "reporting" ELSE "scoring"]
          /\ seen' = IF eval[t].forgotten THEN seen ELSE [seen EXCEPT ![s] = @ \cup fresh]
    BY <1>3, <1>8, Zenon DEF List
  <2>2. fresh \in SUBSET Traces /\ (~eval[t].forgotten => fresh \cap seen[s] = {})
    BY <1>3, <2>0, <2>1 DEF Traces, Held
  <2>3. /\ eval[t].pc = "listing"
        /\ UNCHANGED <<traces, admission, pending, thread, located, notice, breaker, caller,
                       history>>
    BY <1>8 DEF List
  <2> DEFINE pc == IF fresh = {} THEN "reporting" ELSE "scoring"
             x == [eval[t] EXCEPT !.fresh = fresh, !.forgotten = FALSE, !.known = {}, !.pc = pc]
  <2>4. pc \in {"reporting", "scoring"}
    OBVIOUS
  <2>5. eval' = [eval EXCEPT ![t].fresh = fresh, ![t].forgotten = FALSE, ![t].known = {},
                             ![t].pc = pc]
    BY <2>1, Zenon
  <2> HIDE DEF pc
  <2>6. eval' = [eval EXCEPT ![t] = x]
    BY <1>0, <2>5
  <2>7. /\ x \in TaskState /\ x.pc = pc /\ x.of = eval[t].of /\ x.cancel = eval[t].cancel
        /\ ~x.forgotten /\ x.fresh = fresh /\ x.found = eval[t].found
    BY <1>0, <2>2, <2>4 DEF TaskState
  <2> HIDE DEF x
  <2>8. Takes(t) /\ eval'[t] = x
    BY <1>0, <1>1, <2>3, <2>6, <2>7, StaysShape DEF admission, history
  <2> QED
    BY <2>1, <2>2, <2>3, <2>4, <2>7, <2>8 DEF Lists, Stays, TaskShape, history
<1>9. CASE Score(t)
  <2> DEFINE x == [eval[t] EXCEPT !.pc = "reporting"]
  <2>1. /\ x \in TaskState /\ x.pc = "reporting" /\ x.of = eval[t].of
        /\ x.cancel = eval[t].cancel /\ x.forgotten = eval[t].forgotten
        /\ x.fresh = eval[t].fresh /\ x.found = eval[t].found
        /\ eval' = [eval EXCEPT ![t] = x]
    BY <1>0, <1>9 DEF Score, TaskState
  <2>2. /\ eval[t].pc = "scoring" /\ thread' = [thread EXCEPT ![t] = "fold"]
        /\ UNCHANGED <<traces, admission, pending, located, seen, notice, breaker, caller, history>>
    BY <1>9 DEF Score
  <2> HIDE DEF x
  <2>3. Takes(t) /\ eval'[t] = x
    BY <1>0, <1>1, <2>1, <2>2, StaysShape DEF admission, history
  <2> QED
    BY <2>1, <2>2, <2>3 DEF Scores, Stays, TaskShape, history
<1>10. ASSUME NEW found \in SUBSET Conditions, Report(t, found) PROVE TaskShape(t, s)
  <2> DEFINE x == [eval[t] EXCEPT !.pc = "observing", !.found = found, !.fresh = {}]
  <2>1. /\ eval[t].pc = "reporting" /\ thread[t] = "idle"
        /\ UNCHANGED <<traces, admission, pending, thread, located, seen, notice, breaker, caller,
                       history>>
    BY <1>10 DEF Report
  <2>2. eval' = [eval EXCEPT ![t] = x]
    BY <1>0, <1>10 DEF Report
  <2>3. /\ x \in TaskState /\ x.pc = "observing" /\ x.of = eval[t].of
        /\ x.cancel = eval[t].cancel /\ x.forgotten = eval[t].forgotten /\ x.fresh = {}
    BY <1>0 DEF TaskState
  <2> HIDE DEF x
  <2>4. Takes(t) /\ eval'[t] = x
    BY <1>0, <1>1, <2>1, <2>2, <2>3, StaysShape DEF admission, history
  <2> QED
    BY <2>1, <2>3, <2>4 DEF Reports, Stays, TaskShape, history
<1>11. CASE EvalFails(t)
  <2>1. /\ Ends(t, "failed") /\ ~eval[t].cancel /\ thread[t] = "idle"
        /\ eval[t].pc \in {"listing", "scoring", "reporting"}
        /\ UNCHANGED <<traces, admission, thread, located, seen, notice, breaker, caller, history>>
    BY <1>11 DEF EvalFails, Running
  <2>2. Takes(t) /\ Leaves(t)
    BY <1>1, <1>2, <2>1, EndsShape DEF admission, history
  <2> QED
    BY <2>1, <2>2 DEF Stops, TaskShape, history
<1>12. CASE Recovered(t) \/ Persisted(t)
  <2>1. /\ \E outcome \in {"done", "failed"} : Ends(t, outcome)
        /\ ~eval[t].cancel /\ thread[t] = "idle"
        /\ eval[t].pc \in {"recovering", "persisting"}
        /\ UNCHANGED <<traces, admission, thread, located, seen, notice, breaker, caller, history>>
    BY <1>4, <1>12 DEF Recovered, Persisted, Running
  <2>2. Takes(t) /\ Leaves(t)
    BY <1>1, <1>2, <2>1, EndsShape DEF admission, history
  <2> QED
    BY <2>1, <2>2 DEF Stops, TaskShape, history
<1>13. CASE Healthy(t)
  <2>1. /\ eval[t].pc = "observing" /\ ~eval[t].cancel
        /\ notice' = [notice EXCEPT ![s] = NoNotice]
        /\ told' = [told EXCEPT ![s] = {}]
        /\ lost' = [lost EXCEPT ![s] = {}]
        /\ UNCHANGED <<traces, admission, thread, located, seen, caller, evicted, folded>>
    BY <1>3, <1>13 DEF Healthy, Running
  <2>2. CASE Ends(t, "done")
    <3>1. Takes(t) /\ Leaves(t)
      BY <1>1, <1>2, <2>1, <2>2, EndsShape DEF admission
    <3> QED
      BY <2>1, <3>1 DEF Recovers, TaskShape
  <2>3. CASE eval' = [eval EXCEPT ![t].pc = "recovering"] /\ UNCHANGED pending
    <3> DEFINE x == [eval[t] EXCEPT !.pc = "recovering"]
    <3>1. /\ x \in TaskState /\ x.pc = "recovering" /\ x.of = eval[t].of
          /\ x.cancel = eval[t].cancel /\ x.forgotten = eval[t].forgotten
          /\ x.fresh = eval[t].fresh /\ x.found = eval[t].found
          /\ eval' = [eval EXCEPT ![t] = x]
      BY <1>0, <2>3 DEF TaskState
    <3> HIDE DEF x
    <3>2. Takes(t) /\ eval'[t] = x
      BY <1>0, <1>1, <2>1, <3>1, StaysShape DEF admission
    <3> QED
      BY <2>1, <2>3, <3>1, <3>2 DEF Recovers, Stays, TaskShape
  <2> QED
    BY <1>13, <2>2, <2>3 DEF Healthy
<1>14. CASE Alert(t)
  <2>1. /\ eval[t].pc = "observing" /\ ~eval[t].cancel
        /\ notice' = [notice EXCEPT ![s] = Gated(s, eval[t].found)]
        /\ told' = [told EXCEPT ![s] = @ \cap eval[t].found]
        /\ lost' = [lost EXCEPT ![s] = @ \cap eval[t].found]
        /\ UNCHANGED <<traces, admission, thread, located, seen, breaker, caller, evicted, folded>>
    BY <1>3, <1>14 DEF Alert, Running
  <2>2. CASE Ends(t, "done") /\ ~Due(s, eval[t].found)
    <3>1. Takes(t) /\ Leaves(t)
      BY <1>1, <1>2, <2>1, <2>2, EndsShape DEF admission
    <3> QED
      BY <2>1, <2>2, <3>1 DEF Gates, TaskShape
  <2>3. CASE eval' = [eval EXCEPT ![t].pc = "dumping"] /\ UNCHANGED pending
    <3> DEFINE x == [eval[t] EXCEPT !.pc = "dumping"]
    <3>1. /\ x \in TaskState /\ x.pc = "dumping" /\ x.of = eval[t].of
          /\ x.cancel = eval[t].cancel /\ x.forgotten = eval[t].forgotten
          /\ x.fresh = eval[t].fresh /\ x.found = eval[t].found
          /\ eval' = [eval EXCEPT ![t] = x]
      BY <1>0, <2>3 DEF TaskState
    <3> HIDE DEF x
    <3>2. Takes(t) /\ eval'[t] = x
      BY <1>0, <1>1, <2>1, <3>1, StaysShape DEF admission
    <3> QED
      BY <2>1, <2>3, <3>1, <3>2 DEF Gates, Stays, TaskShape
  <2> QED
    BY <1>3, <1>14, <2>2, <2>3 DEF Alert
<1>15. CASE Dumped(t) \/ DumpFails(t)
  <2>1. /\ eval[t].pc = "dumping" /\ ~eval[t].cancel /\ thread[t] = "idle"
        /\ UNCHANGED <<traces, admission, located, seen, notice, caller, evicted, folded, told>>
    BY <1>4, <1>15 DEF Dumped, DumpFails, Running
  <2>2. CASE Ends(t, "done") /\ Drops(t) /\ UNCHANGED thread
    <3>1. Takes(t) /\ Leaves(t)
      BY <1>1, <1>2, <2>1, <2>2, EndsShape DEF admission
    <3>2. lost' = [lost EXCEPT ![s] = @ \cup (eval[t].found \cap notice[s].signatures)]
      BY <1>3, <2>2 DEF Drops
    <3> QED
      BY <2>1, <2>2, <3>1, <3>2 DEF Stops, TaskShape
  <2>3. CASE /\ eval' = [eval EXCEPT ![t].pc = "persisting"]
             /\ thread' = [thread EXCEPT ![t] = "persist"]
             /\ UNCHANGED <<pending, lost>>
    <3> DEFINE x == [eval[t] EXCEPT !.pc = "persisting"]
    <3>1. /\ x \in TaskState /\ x.pc = "persisting" /\ x.of = eval[t].of
          /\ x.cancel = eval[t].cancel /\ x.forgotten = eval[t].forgotten
          /\ x.fresh = eval[t].fresh /\ x.found = eval[t].found
          /\ eval' = [eval EXCEPT ![t] = x]
      BY <1>0, <2>3 DEF TaskState
    <3> HIDE DEF x
    <3>2. Takes(t) /\ eval'[t] = x
      BY <1>0, <1>1, <2>1, <3>1, StaysShape DEF admission
    <3> QED
      BY <2>1, <2>3, <3>1, <3>2 DEF Persists, Stays, TaskShape
  <2> QED
    BY <1>15, <2>2, <2>3 DEF Dumped, DumpFails
<1> QED
  BY <1>5, <1>6, <1>7, <1>8, <1>9, <1>10, <1>11, <1>12, <1>13, <1>14, <1>15 DEF EvalStep

\* The steps of a turn of s that is counted, field by field; out was evicted.
Remembers(u, out) ==
  /\ eval'[u].pc = eval[u].pc /\ eval'[u].of = eval[u].of
  /\ eval'[u].fresh = eval[u].fresh /\ eval'[u].found = eval[u].found
  /\ eval'[u].forgotten => eval[u].forgotten \/ eval[u].of \subseteq out
  /\ eval[u].pc = "listing" /\ eval[u].of \subseteq out => eval'[u].forgotten

Skips(out) ==
  /\ \A u \in EvalIds : Remembers(u, out) /\ eval'[u].cancel = eval[u].cancel
  /\ UNCHANGED <<launched, pending, thread>>

Admits(s, out) ==
  LET t == launched + 1
  IN /\ t \in EvalIds /\ launched' = t /\ pending' = [pending EXCEPT ![s] = t]
     /\ eval'[t].pc \in {"starting", "queued"} /\ eval'[t].of = {s} /\ ~eval'[t].cancel
     /\ eval'[t].fresh = {} /\ eval'[t].found = {} /\ ~eval'[t].forgotten
     /\ \A u \in EvalIds \ {t} :
          Remembers(u, out) /\ eval'[u].cancel = (eval[u].cancel \/ u = pending[s])
     /\ \A u \in EvalIds :
          thread'[u] = thread[u] \/ (u = pending[s] /\ thread'[u] = "idle")

Turns(s, out) ==
  /\ out \in SUBSET Sessions
  /\ eval' \in [EvalIds -> TaskState] /\ thread' \in [EvalIds -> {"idle", "fold", "persist"}]
  /\ notice' = [q \in Sessions |-> IF q \in out THEN NoNotice ELSE notice[q]]
  /\ seen' = [q \in Sessions |-> IF q \in out THEN {} ELSE seen[q]]
  /\ Forgotten(out)
  /\ Disturbed(s)
  /\ UNCHANGED <<traces, health, breaker, folded>>
  /\ Skips(out) \/ Admits(s, out)

\* The sessions that are tracked stay within their number.
LEMMA CountedType ==
  ASSUME TypeOK, NEW s \in Sessions, Counted(s)
  PROVE  /\ Evicted(s) \in SUBSET Sessions
         /\ located' \in Seq(Sessions) /\ Len(located') <= MaxTracked
         /\ tracked' \in Seq(Sessions) /\ Len(tracked') <= MaxTracked
         /\ count' \in [Sessions -> 0..SampleEvery]
<1>0. /\ tracked \in Seq(Sessions) /\ Len(tracked) <= MaxTracked
      /\ count \in [Sessions -> 0..SampleEvery]
      /\ MaxTracked \in Nat \ {0} /\ SampleEvery \in Nat \ {0} /\ Len(tracked) \in Nat
  BY LimitsArePositive DEF TypeOK
<1>1. Evicted(s) = {} \/ (Evicted(s) = {Head(tracked)} /\ Len(tracked) >= MaxTracked)
  BY DEF Evicted
<1>2. Evicted(s) \in SUBSET Sessions
  BY <1>0, <1>1
<1>3. tracked' \in Seq(Sessions) /\ Len(tracked') <= MaxTracked
  <2> DEFINE known == s \in ToSet(tracked)
             all == IF known THEN tracked ELSE Append(tracked, s)
  <2>1. tracked' = IF Evicted(s) = {} THEN all ELSE Tail(all)
    BY DEF Counted
  <2>2. CASE known
    <3>1. Evicted(s) = {}
      BY <2>2 DEF Evicted
    <3> QED
      BY <1>0, <2>1, <2>2, <3>1
  <2>3. CASE ~known
    <3>1. Evicted(s) = IF Len(tracked) >= MaxTracked THEN {Head(tracked)} ELSE {}
      BY <2>3 DEF Evicted
    <3>2. all = Append(tracked, s)
      BY <2>3
    <3> HIDE DEF all, known
    <3>3. all \in Seq(Sessions) /\ Len(all) = Len(tracked) + 1
      BY <1>0, <3>2
    <3>4. CASE Len(tracked) >= MaxTracked
      <4>1. Evicted(s) # {}
        BY <3>1, <3>4
      <4>2. tracked' = Tail(all)
        BY <2>1, <4>1
      <4>3. all # <<>> /\ Len(all) - 1 <= MaxTracked
        BY <1>0, <3>3
      <4>4. Tail(all) \in Seq(Sessions) /\ Len(Tail(all)) = Len(all) - 1
        BY <3>3, <4>3
      <4> QED
        BY <4>2, <4>3, <4>4
    <3>5. CASE ~(Len(tracked) >= MaxTracked)
      BY <1>0, <2>1, <3>1, <3>3, <3>5
    <3> QED
      BY <3>4, <3>5
  <2> QED
    BY <2>2, <2>3
<1>4. count' \in [Sessions -> 0..SampleEvery]
  <2>1. count[s] % SampleEvery \in 0..(SampleEvery - 1)
    BY <1>0
  <2>2. (count[s] % SampleEvery) + 1 \in 0..SampleEvery /\ 0 \in 0..SampleEvery
    BY <1>0, <2>1
  <2>3. count' = [q \in Sessions |->
           IF q \in Evicted(s) THEN 0
           ELSE IF q = s THEN (count[s] % SampleEvery) + 1 ELSE count[q]]
    BY DEF Counted
  <2> QED
    BY <1>0, <2>2, <2>3
<1>5. located' \in Seq(Sessions) /\ Len(located') <= MaxTracked
  <2>0. located \in Seq(Sessions) /\ Len(located) <= MaxTracked
    BY DEF TypeOK
  <2> DEFINE there == \E i \in DOMAIN located : located[i] \in Evicted(s)
             i == CHOOSE j \in DOMAIN located : located[j] \in Evicted(s)
  <2>1. located' = IF there THEN RemoveAt(located, i) ELSE located
    BY Zenon DEF Counted, Without
  <2>2. there => i \in DOMAIN located
    BY Zenon
  <2> HIDE DEF there, i
  <2>3. i \in DOMAIN located => /\ RemoveAt(located, i) \in Seq(Sessions)
                                /\ Len(RemoveAt(located, i)) <= Len(located)
    BY <2>0 DEF RemoveAt
  <2> QED
    BY <1>0, <2>0, <2>1, <2>2, <2>3
<1> QED
  BY <1>2, <1>3, <1>4, <1>5

LEMMA TurnShapes ==
  ASSUME TaskInv, NEW s \in Sessions, TurnSkipped(s) \/ TurnAdmitted(s)
  PROVE  Turns(s, Evicted(s))
<1> DEFINE out == Evicted(s)
           t == launched + 1
<1>0. /\ TypeOK /\ eval \in [EvalIds -> TaskState]
      /\ thread \in [EvalIds -> {"idle", "fold", "persist"}]
      /\ launched \in Nat /\ MaxEvals \in Nat
  BY LimitsArePositive DEF TaskInv, TypeOK
<1>1. /\ Counted(s) /\ Forgotten(out) /\ Disturbed(s) /\ launched < MaxEvals
      /\ UNCHANGED <<traces, health, breaker, folded>>
  BY DEF TurnSkipped, TurnAdmitted
<1>2. /\ out \in SUBSET Sessions
      /\ notice' = [q \in Sessions |-> IF q \in out THEN NoNotice ELSE notice[q]]
      /\ seen' = [q \in Sessions |-> IF q \in out THEN {} ELSE seen[q]]
  BY <1>0, <1>1, CountedType DEF Counted
<1>3. t \in EvalIds
  BY <1>0, <1>1 DEF EvalIds
<1> HIDE DEF out
<1>4. CASE TurnSkipped(s)
  <2>1. /\ eval' = [u \in EvalIds |-> Forgetful(u, out)]
        /\ UNCHANGED <<launched, pending, thread>>
    BY <1>4 DEF TurnSkipped, out
  <2>2. eval' \in [EvalIds -> TaskState] /\ Skips(out)
    BY <1>0, <2>1, ForgetfulType DEF Skips, Remembers
  <2> QED
    BY <1>0, <1>1, <1>2, <2>1, <2>2 DEF Turns, out
<1>5. CASE TurnAdmitted(s)
  <2> DEFINE pc == IF health = "ok" THEN "queued" ELSE "starting"
             new == [NoTask EXCEPT !.pc = pc, !.of = {s}]
             old == pending[s]
             marked(u) == [Forgetful(u, out) EXCEPT !.cancel = TRUE]
  <2>1. /\ eval' = [u \in EvalIds |-> IF u = t THEN new
                      ELSE IF u = old THEN marked(u) ELSE Forgetful(u, out)]
        /\ launched' = t /\ pending' = [pending EXCEPT ![s] = t]
        /\ thread' = thread \/ thread' = [thread EXCEPT ![old] = "idle"]
    BY <1>5, Zenon DEF TurnAdmitted, out
  <2>2. /\ new \in TaskState /\ new.pc \in {"starting", "queued"} /\ new.of = {s} /\ ~new.cancel
        /\ new.fresh = {} /\ new.found = {} /\ ~new.forgotten
    <3> HIDE DEF pc
    <3>1. pc \in {"starting", "queued"}
      BY DEF pc
    <3> QED
      BY <3>1 DEF NoTask, TaskState
  <2>3. ASSUME NEW u \in EvalIds
        PROVE  /\ marked(u) \in TaskState /\ marked(u).cancel
               /\ marked(u).pc = Forgetful(u, out).pc /\ marked(u).of = Forgetful(u, out).of
               /\ marked(u).fresh = Forgetful(u, out).fresh
               /\ marked(u).found = Forgetful(u, out).found
               /\ marked(u).forgotten = Forgetful(u, out).forgotten
    <3> DEFINE x == Forgetful(u, out)
    <3>1. x \in TaskState
      BY <1>0, ForgetfulType
    <3>2. marked(u) = [x EXCEPT !.cancel = TRUE]
      OBVIOUS
    <3> HIDE DEF x, marked
    <3>3. /\ marked(u) \in TaskState /\ marked(u).cancel
          /\ marked(u).pc = x.pc /\ marked(u).of = x.of /\ marked(u).fresh = x.fresh
          /\ marked(u).found = x.found /\ marked(u).forgotten = x.forgotten
      BY <3>1, <3>2 DEF TaskState
    <3> QED
      BY <3>3 DEF x
  <2> HIDE DEF new, marked, t, old
  <2>4. eval' \in [EvalIds -> TaskState]
    BY <1>0, <2>1, <2>2, <2>3, ForgetfulType
  <2>5. \A u \in EvalIds \ {t} :
          Remembers(u, out) /\ eval'[u].cancel = (eval[u].cancel \/ u = old)
    <3> SUFFICES ASSUME NEW u \in EvalIds, u # t
                 PROVE  Remembers(u, out) /\ eval'[u].cancel = (eval[u].cancel \/ u = old)
      BY Zenon
    <3>1. CASE u = old
      <4>1. eval'[u] = marked(u)
        BY <2>1, <3>1
      <4>2. Remembers(u, out) /\ eval'[u].cancel
        BY <1>0, <2>3, <4>1, ForgetfulType DEF Remembers
      <4>3. eval'[u].cancel \in BOOLEAN
        BY <2>4 DEF TaskState
      <4> QED
        BY <3>1, <4>2, <4>3
    <3>2. CASE u # old
      <4>1. eval'[u] = Forgetful(u, out)
        BY <2>1, <3>2
      <4>2. Remembers(u, out) /\ eval'[u].cancel = eval[u].cancel
        BY <1>0, <4>1, ForgetfulType DEF Remembers
      <4>3. eval[u].cancel \in BOOLEAN
        BY <1>0 DEF TaskState
      <4> QED
        BY <3>2, <4>2, <4>3
    <3> QED
      BY <3>1, <3>2
  <2>6. \A u \in EvalIds : thread'[u] = thread[u] \/ (u = old /\ thread'[u] = "idle")
    BY <1>0, <2>1
  <2>7. thread' \in [EvalIds -> {"idle", "fold", "persist"}]
    BY <1>0, <2>1
  <2>8. eval'[t] = new
    BY <1>3, <2>1
  <2>9. Admits(s, out)
    BY <1>3, <2>1, <2>2, <2>5, <2>6, <2>8 DEF Admits, t, old
  <2> QED
    BY <1>1, <1>2, <2>4, <2>7, <2>9 DEF Turns, out
<1> QED
  BY <1>4, <1>5

\* The locator takes the session of t in, and out goes its oldest one.
Locates(t, out) ==
  /\ ~Ended(t) /\ eval[t].pc = "acquired"
  /\ eval' \in [EvalIds -> TaskState]
  /\ eval'[t].pc = "listing"
  /\ eval'[t].of = eval[t].of /\ eval'[t].cancel = eval[t].cancel
  /\ eval'[t].fresh = eval[t].fresh /\ eval'[t].found = eval[t].found
  /\ eval'[t].forgotten => eval[t].forgotten
  /\ \A u \in EvalIds \ {t} : Remembers(u, out) /\ eval'[u].cancel = eval[u].cancel
  /\ out \in SUBSET Sessions
  /\ located' \in Seq(Sessions) /\ Len(located') <= MaxTracked
  /\ seen' = [q \in Sessions |-> IF q \in out THEN {} ELSE seen[q]]
  /\ evicted' = evicted \cup out
  /\ UNCHANGED <<traces, admission, pending, thread, notice, breaker, caller,
                 folded, told, lost>>

LEMMA LocateShape ==
  ASSUME TaskInv, NEW t \in EvalIds, Locate(t)
  PROVE  \E out : Locates(t, out)
<1> DEFINE s == SessionOf(t)
           all == IF s \in ToSet(located) THEN located ELSE Append(located, s)
           out == IF Len(all) > MaxTracked THEN {Head(all)} ELSE {}
           x == [eval[t] EXCEPT !.pc = "listing"]
<1>0. /\ eval[t] \in TaskState /\ located \in Seq(Sessions) /\ Len(located) <= MaxTracked
      /\ MaxTracked \in Nat \ {0}
  BY LimitsArePositive DEF TaskInv, TypeOK
<1>1. /\ ~Ended(t) /\ eval[t].pc = "acquired"
      /\ located' = IF out = {} THEN all ELSE Tail(all)
      /\ seen' = [q \in Sessions |-> IF q \in out THEN {} ELSE seen[q]]
      /\ evicted' = evicted \cup out
      /\ eval' = [u \in EvalIds |-> IF u = t THEN x ELSE Forgetful(u, out)]
      /\ UNCHANGED <<traces, admission, pending, thread, notice, breaker, caller,
                     folded, told, lost>>
  BY Zenon DEF Locate, Running
<1>2. s \in Sessions
  <2>1. PICK q \in Sessions : eval[t].of = {q}
    BY <1>1, TaskHasSession
  <2> QED
    BY <2>1, SessionIs
<1>3. all \in Seq(Sessions) /\ Len(all) <= MaxTracked + 1 /\ Len(all) \in Nat
  BY <1>0, <1>2
<1>4. /\ x \in TaskState /\ x.pc = "listing" /\ x.of = eval[t].of /\ x.cancel = eval[t].cancel
      /\ x.fresh = eval[t].fresh /\ x.found = eval[t].found /\ x.forgotten = eval[t].forgotten
  BY <1>0 DEF TaskState
<1> HIDE DEF s, all
<1>5. /\ out \in SUBSET Sessions
      /\ located' \in Seq(Sessions) /\ Len(located') <= MaxTracked
  <2>1. CASE Len(all) > MaxTracked
    <3>1. all # <<>> /\ out = {Head(all)} /\ located' = Tail(all)
      BY <1>0, <1>1, <1>3, <2>1
    <3>2. Tail(all) \in Seq(Sessions) /\ Len(Tail(all)) = Len(all) - 1 /\ Head(all) \in Sessions
      BY <1>3, <3>1
    <3> QED
      BY <1>0, <1>3, <3>1, <3>2
  <2>2. CASE ~(Len(all) > MaxTracked)
    BY <1>0, <1>1, <1>3, <2>2
  <2> QED
    BY <2>1, <2>2
<1> HIDE DEF out, x
<1>6. /\ eval' \in [EvalIds -> TaskState] /\ eval'[t] = x
      /\ \A u \in EvalIds \ {t} : eval'[u] = Forgetful(u, out)
  BY <1>1, <1>4, ForgetfulType
<1>7. \A u \in EvalIds \ {t} : Remembers(u, out) /\ eval'[u].cancel = eval[u].cancel
  BY <1>6, ForgetfulType DEF Remembers
<1> QED
  BY <1>1, <1>4, <1>5, <1>6, <1>7 DEF Locates

-----------------------------------------------------------------------------
(* PendingIsCurrent *)

\* PendingIsCurrent without the choice of a session.
Current ==
  /\ \A t \in EvalIds : \A s \in Sessions :
       Running(t) /\ eval[t].of = {s} => pending[s] = t
  /\ \A s \in Sessions : pending[s] # NoEval => Running(pending[s])

LEMMA CurrentIs ==
  ASSUME TypeOK, LaunchInv
  PROVE  Current <=> PendingIsCurrent
<1>1. ASSUME NEW t \in EvalIds, Running(t)
      PROVE  \E s \in Sessions : eval[t].of = {s} /\ SessionOf(t) = s
  <2>1. launched \in Nat /\ t \in Nat
    BY LimitsArePositive DEF TypeOK, EvalIds
  <2>2. t <= launched
    BY <1>1, <2>1 DEF LaunchInv, NoTask, Running, Ended
  <2>3. PICK s \in Sessions : eval[t].of = {s}
    BY <2>2 DEF LaunchInv
  <2> QED
    BY <2>3, SessionIs
<1>2. ASSUME Current PROVE PendingIsCurrent
  BY <1>1, <1>2, Zenon DEF Current, PendingIsCurrent
<1>3. ASSUME PendingIsCurrent PROVE Current
  <2> SUFFICES ASSUME NEW t \in EvalIds, NEW s \in Sessions, Running(t), eval[t].of = {s}
               PROVE  pending[s] = t
    BY <1>3, Zenon DEF Current, PendingIsCurrent
  <2>1. SessionOf(t) = s
    BY SessionIs
  <2> QED
    BY <1>3, <2>1 DEF PendingIsCurrent
<1> QED
  BY <1>2, <1>3

\* What every step of a task does, and whom it leaves running.
LEMMA TaskMoves ==
  ASSUME TaskInv, NEW t \in EvalIds, NEW s \in Sessions, eval[t].of = {s}, TaskShape(t, s)
  PROVE  /\ Takes(t) /\ (Stays(t) \/ Leaves(t))
         /\ \A u \in EvalIds \ {t} : thread'[u] = thread[u]
         /\ thread' \in [EvalIds -> {"idle", "fold", "persist"}]
         /\ \A u \in EvalIds \ {t} : Running(u)' <=> Running(u)
         /\ Stays(t) => (Running(t)' <=> Running(t)) /\ ~Ended(t)'
         /\ Leaves(t) => ~Running(t)' /\ Ended(t)'
<1>1. Takes(t) /\ (Stays(t) \/ Leaves(t))
  BY DEF TaskShape, Goes, Stops, Lists, Scores, Reports, Recovers, Gates, Persists
<1>2. thread \in [EvalIds -> {"idle", "fold", "persist"}]
  BY DEF TaskInv, TypeOK
<1>3. \/ thread' = thread
      \/ thread' = [thread EXCEPT ![t] = "fold"] \/ thread' = [thread EXCEPT ![t] = "persist"]
  BY DEF TaskShape, Goes, Stops, Lists, Scores, Reports, Recovers, Gates, Persists
<1>4. /\ \A u \in EvalIds \ {t} : Running(u)' <=> Running(u)
      /\ Stays(t) => (Running(t)' <=> Running(t)) /\ ~Ended(t)'
      /\ Leaves(t) => ~Running(t)' /\ Ended(t)'
  BY <1>1 DEF Takes, Stays, Leaves, Running, Ended
<1> QED
  BY <1>1, <1>2, <1>3, <1>4

LEMMA TaskStepPending ==
  ASSUME TaskInv, NEW t \in EvalIds, NEW s \in Sessions, eval[t].of = {s}, TaskShape(t, s)
  PROVE  Current' /\ PendingOwned'
<1>0. Current /\ PendingOwned /\ pending \in [Sessions -> 0..MaxEvals]
  BY CurrentIs DEF TaskInv, TypeOK
<1>1. /\ Takes(t) /\ (Stays(t) \/ Leaves(t))
      /\ \A u \in EvalIds \ {t} : Running(u)' <=> Running(u)
      /\ Stays(t) => (Running(t)' <=> Running(t))
      /\ Leaves(t) => ~Running(t)'
  BY TaskMoves
<1>2. \A u \in EvalIds : eval'[u].of = eval[u].of
  BY <1>1 DEF Takes
<1>3. \A q \in Sessions : pending'[q] # pending[q] =>
        eval[t].of = {q} /\ pending[q] = t /\ pending'[q] = NoEval /\ Leaves(t)
  BY <1>1 DEF Stays, Leaves
<1>4. ASSUME NEW u \in EvalIds, NEW q \in Sessions, Running(u)', eval'[u].of = {q}
      PROVE  pending'[q] = u
  <2>1. Running(u) /\ eval[u].of = {q} /\ (u = t => ~Leaves(t))
    BY <1>1, <1>2, <1>4
  <2>2. pending[q] = u
    BY <1>0, <2>1 DEF Current
  <2> QED
    BY <1>3, <2>1, <2>2
<1>5. ASSUME NEW q \in Sessions, pending'[q] # NoEval
      PROVE  /\ \E u \in EvalIds : pending'[q] = u /\ Running(u)' /\ eval'[u].of = {q}
  <2>1. pending'[q] = pending[q]
    BY <1>3, <1>5
  <2>2. PICK u \in EvalIds : u = pending[q]
    BY <1>0, <1>5, <2>1, LimitsArePositive DEF EvalIds, NoEval
  <2>3. Running(u) /\ eval[u].of = {q}
    BY <1>0, <1>5, <2>1, <2>2 DEF Current, PendingOwned
  <2>4. u = t => Stays(t)
    <3> SUFFICES ASSUME u = t, Leaves(t) PROVE FALSE
      BY <1>1
    <3>1. pending'[q] = NoEval
      BY <2>2, <2>3 DEF Leaves
    <3> QED
      BY <1>5, <3>1
  <2>5. Running(u)'
    BY <1>1, <2>3, <2>4
  <2> QED
    BY <1>2, <2>1, <2>2, <2>3, <2>5
<1>6. Current'
  BY <1>4, <1>5 DEF Current, Running, Ended
<1>7. PendingOwned'
  BY <1>5 DEF PendingOwned
<1> QED
  BY <1>6, <1>7

LEMMA TaskStepThreads ==
  ASSUME TaskInv, NEW t \in EvalIds, NEW s \in Sessions, eval[t].of = {s}, TaskShape(t, s)
  PROVE  LaunchInv' /\ ThreadInv'
<1>0. /\ eval[t] \in TaskState /\ eval'[t] \in TaskState /\ launched \in Nat
      /\ thread[t] \in {"idle", "fold", "persist"}
  <2>1. eval[t] \in TaskState /\ thread[t] \in {"idle", "fold", "persist"}
    BY DEF TaskInv, TypeOK
  <2>2. eval'[t] \in TaskState
    BY TaskMoves DEF Takes
  <2>3. launched \in Nat
    BY LimitsArePositive DEF TaskInv, TypeOK
  <2> QED
    BY <2>1, <2>2, <2>3
<1>1. /\ Takes(t) /\ (Stays(t) \/ Leaves(t))
      /\ \A u \in EvalIds \ {t} : thread'[u] = thread[u] /\ eval'[u] = eval[u]
      /\ ~Ended(t) /\ launched' = launched
      /\ eval'[t].pc # "unused" /\ eval'[t].of = {s} /\ eval'[t].cancel = eval[t].cancel
  <2>1. Takes(t) /\ (Stays(t) \/ Leaves(t)) /\ \A u \in EvalIds \ {t} : thread'[u] = thread[u]
    BY TaskMoves
  <2>2. /\ \A u \in EvalIds \ {t} : eval'[u] = eval[u]
        /\ ~Ended(t) /\ launched' = launched
        /\ eval'[t].of = {s} /\ eval'[t].cancel = eval[t].cancel
    BY <2>1 DEF Takes
  <2>3. eval'[t].pc # "unused"
    BY <2>1 DEF Stays, Leaves
  <2> QED
    BY <2>1, <2>2, <2>3
<1>2. t <= launched
  BY <1>0, <1>1 DEF TaskInv, LaunchInv, NoTask, Ended, EvalIds
<1>3. LaunchInv'
  <2> SUFFICES ASSUME NEW u \in EvalIds
               PROVE  /\ u > launched => eval'[u].pc = "unused" /\ thread'[u] = "idle"
                      /\ u <= launched => eval'[u].pc # "unused" /\ \E q \in Sessions : eval'[u].of = {q}
    BY <1>1 DEF LaunchInv
  <2>1. CASE u = t
    BY <1>0, <1>1, <1>2, <2>1 DEF EvalIds
  <2>2. CASE u # t
    BY <1>1, <2>2 DEF TaskInv, LaunchInv
  <2> QED
    BY <2>1, <2>2
<1>4. /\ thread'[t] = "fold" => eval'[t].pc \in {"reporting", "cancelled"}
      /\ thread'[t] = "persist" => eval'[t].pc \in {"persisting", "cancelled"}
      /\ eval'[t].pc = "cancelled" => eval'[t].cancel
  <2>0. /\ thread[t] = "fold" => eval[t].pc = "reporting"
        /\ thread[t] = "persist" => eval[t].pc = "persisting"
        /\ thread \in [EvalIds -> {"idle", "fold", "persist"}]
    BY <1>1 DEF TaskInv, ThreadInv, Ended, TypeOK
  <2>1. eval'[t].pc = "cancelled" => eval'[t].cancel
    BY <1>1 DEF Stays, Leaves
  <2>2. CASE thread[t] = "idle" /\ thread'[t] = thread[t]
    BY <2>1, <2>2
  <2>3. CASE thread[t] # "idle"
    <3>1. Stops(t, s)
      BY <1>0, <2>0, <2>3 DEF TaskShape, Goes, Lists, Scores, Reports, Recovers, Gates, Persists
    <3>2. thread'[t] = thread[t] /\ eval'[t].pc = "cancelled"
      BY <2>3, <3>1 DEF Stops, Leaves
    <3> QED
      BY <1>0, <2>1, <3>2
  <2>4. CASE thread'[t] # thread[t]
    <3>1. Scores(t) \/ Persists(t)
      BY <2>4 DEF TaskShape, Goes, Stops, Lists, Reports, Recovers, Gates
    <3> QED
      BY <2>0, <3>1 DEF Scores, Persists
  <2> QED
    BY <2>2, <2>3, <2>4
<1>5. ThreadInv'
  BY <1>1, <1>4 DEF TaskInv, ThreadInv
<1> QED
  BY <1>3, <1>5

\* The gate leaves a cooldown within its bound.
LEMMA GatedType ==
  ASSUME TypeOK, NEW s \in Sessions, NEW found \in SUBSET Conditions
  PROVE  Gated(s, found) \in NoticeState /\ Gated(s, found).signatures = found
<1>1. notice[s].cooldown \in 0..Cooldown /\ Cooldown \in Nat
  BY LimitsArePositive DEF TypeOK, NoticeState
<1> DEFINE left == IF Due(s, found) THEN Cooldown
                   ELSE IF notice[s].cooldown = 0 THEN 0 ELSE notice[s].cooldown - 1
<1>2. left \in 0..Cooldown
  BY <1>1
<1>3. Gated(s, found) = [known |-> TRUE, signatures |-> found, cooldown |-> left]
  BY DEF Gated
<1> HIDE DEF left
<1> QED
  BY <1>2, <1>3 DEF NoticeState

\* The health check answers once, and the breaker's window stays within its limit.
LEMMA PlatformType ==
  ASSUME TypeOK, NEW t \in EvalIds, EvalStep(t) \/ Acquire(t)
  PROVE  /\ health' \in {"unknown", "ok", "degraded"}
         /\ breaker' \in [tripped : BOOLEAN, recent : 0..MaxNotices]
<1>0. /\ health \in {"unknown", "ok", "degraded"} /\ MaxNotices \in Nat \ {0}
      /\ breaker \in [tripped : BOOLEAN, recent : 0..MaxNotices]
  BY LimitsArePositive DEF TypeOK
<1>1. CASE CheckHealth(t)
  BY <1>0, <1>1 DEF CheckHealth
<1>2. CASE Healthy(t)
  <2>1. breaker' = breaker \/ breaker' = [tripped |-> FALSE, recent |-> 0]
    BY <1>2 DEF Healthy
  <2>2. health' = health
    BY <1>2 DEF Healthy, admission
  <2>3. [tripped |-> FALSE, recent |-> 0] \in [tripped : BOOLEAN, recent : 0..MaxNotices]
    BY <1>0
  <2> QED
    BY <1>0, <2>1, <2>2, <2>3
<1>3. CASE Dumped(t) \/ DumpFails(t)
  <2>1. ASSUME NEW b \in Swept PROVE b \in [tripped : BOOLEAN, recent : 0..MaxNotices]
    <3>1. PICK recent \in 0..breaker.recent :
            b = [tripped |-> breaker.tripped /\ recent # 0, recent |-> recent]
      BY Zenon DEF Swept
    <3>2. PICK tripped \in BOOLEAN : tripped = (breaker.tripped /\ recent # 0)
      OBVIOUS
    <3>3. b = [tripped |-> tripped, recent |-> recent] /\ recent \in 0..MaxNotices
      BY <1>0, <3>1, <3>2
    <3> QED
      BY <3>3
  <2>2. ASSUME NEW b \in Swept
        PROVE  Counting(b) \in [tripped : BOOLEAN, recent : 0..MaxNotices]
    <3>1. b.tripped \in BOOLEAN /\ b.recent \in 0..MaxNotices
      BY <2>1
    <3>2. CASE b.recent >= MaxNotices
      <4>1. Counting(b) = [b EXCEPT !.tripped = TRUE]
        BY <3>2 DEF Counting
      <4> QED
        BY <2>1, <4>1
    <3>3. CASE ~(b.recent >= MaxNotices)
      <4>1. Counting(b) = [b EXCEPT !.recent = b.recent + 1]
        BY <3>3 DEF Counting
      <4>2. b.recent + 1 \in 0..MaxNotices
        BY <1>0, <3>1, <3>3
      <4> QED
        BY <2>1, <4>1, <4>2
    <3> QED
      BY <3>2, <3>3
  <2>3. breaker' \in {breaker} \cup Swept \cup {Counting(b) : b \in Swept}
    BY <1>3 DEF Dumped, DumpFails
  <2> QED
    BY <1>0, <1>3, <2>1, <2>2, <2>3 DEF Dumped, DumpFails, admission
<1>4. CASE EvalCancelled(t) \/ List(t) \/ Score(t) \/ EvalFails(t) \/ Recovered(t) \/ Alert(t)
           \/ Persisted(t) \/ Acquire(t) \/ \E found \in SUBSET Conditions : Report(t, found)
  BY <1>0, <1>4
     DEF EvalCancelled, List, Score, EvalFails, Recovered, Alert, Persisted, Acquire, Report,
         admission
<1> QED
  BY <1>1, <1>2, <1>3, <1>4 DEF EvalStep

LEMMA TaskStepType ==
  ASSUME TaskInv, NEW t \in EvalIds, EvalStep(t) \/ Acquire(t)
  PROVE  TypeOK'
<1>0. /\ TypeOK
      /\ seen \in [Sessions -> SUBSET Traces] /\ notice \in [Sessions -> NoticeState]
      /\ told \in [Sessions -> SUBSET Conditions] /\ lost \in [Sessions -> SUBSET Conditions]
  BY DEF TaskInv, TypeOK
<1>1. PICK s \in Sessions : eval[t].of = {s} /\ TaskShape(t, s)
  BY TaskShapes
<1>2. /\ Takes(t) /\ (Stays(t) \/ Leaves(t))
      /\ thread' \in [EvalIds -> {"idle", "fold", "persist"}]
  BY <1>1, TaskMoves
<1>3. /\ eval' \in [EvalIds -> TaskState] /\ pending' \in [Sessions -> 0..MaxEvals]
      /\ traces' = traces /\ launched' = launched /\ tracked' = tracked /\ count' = count
      /\ timed' = timed /\ caller' = caller /\ evicted' = evicted /\ folded' = folded
      /\ located' = located
  BY <1>0, <1>2 DEF Takes, Stays, Leaves, TypeOK
<1>4. eval[t].found \in SUBSET Conditions /\ eval'[t].fresh \in SUBSET Traces
  BY <1>0, <1>3 DEF TypeOK, TaskState
<1>5. seen' \in [Sessions -> SUBSET Traces]
  <2>1. seen' = seen \/ seen' = [seen EXCEPT ![s] = @ \cup eval'[t].fresh]
    BY <1>1 DEF TaskShape, Goes, Stops, Lists, Scores, Reports, Recovers, Gates, Persists
  <2> QED
    BY <1>0, <1>4, <2>1
<1>6. notice' \in [Sessions -> NoticeState]
  <2>1. \/ notice' = notice \/ notice' = [notice EXCEPT ![s] = NoNotice]
        \/ notice' = [notice EXCEPT ![s] = Gated(s, eval[t].found)]
    BY <1>1 DEF TaskShape, Goes, Stops, Lists, Scores, Reports, Recovers, Gates, Persists
  <2> QED
    BY <1>0, <1>4, <2>1, GatedType, FreshRecords
<1>7. told' \in [Sessions -> SUBSET Conditions]
  <2>1. \/ told' = told \/ told' = [told EXCEPT ![s] = {}]
        \/ told' = [told EXCEPT ![s] = @ \cap eval[t].found]
    BY <1>1 DEF TaskShape, Goes, Stops, Lists, Scores, Reports, Recovers, Gates, Persists
  <2> QED
    BY <1>0, <1>4, <2>1
<1>8. lost' \in [Sessions -> SUBSET Conditions]
  <2>1. \/ lost' = lost \/ lost' = [lost EXCEPT ![s] = {}]
        \/ lost' = [lost EXCEPT ![s] = @ \cap eval[t].found]
        \/ lost' = [lost EXCEPT ![s] = @ \cup (eval[t].found \cap notice[s].signatures)]
    BY <1>1 DEF TaskShape, Goes, Stops, Lists, Scores, Reports, Recovers, Gates, Persists
  <2> QED
    BY <1>0, <1>4, <2>1
<1>9. /\ health' \in {"unknown", "ok", "degraded"}
      /\ breaker' \in [tripped : BOOLEAN, recent : 0..MaxNotices]
  BY <1>0, PlatformType
<1> QED
  BY <1>0, <1>2, <1>3, <1>5, <1>6, <1>7, <1>8, <1>9 DEF TypeOK

\* A turn takes its session's entry from the evaluation it cancels.
LEMMA TurnStepPending ==
  ASSUME TaskInv, NEW s \in Sessions, NEW out, Turns(s, out), TypeOK'
  PROVE  LaunchInv' /\ ThreadInv' /\ Current' /\ PendingOwned'
<1>0. /\ Current /\ PendingOwned /\ LaunchInv /\ ThreadInv
      /\ pending \in [Sessions -> 0..MaxEvals] /\ launched \in Nat /\ MaxEvals \in Nat
  <2>1. MaxEvals \in Nat
    BY LimitsArePositive
  <2>2. pending \in [Sessions -> 0..MaxEvals] /\ launched \in Nat
    BY <2>1 DEF TaskInv, TypeOK
  <2> QED
    BY <2>1, <2>2, CurrentIs DEF TaskInv
<1>1. CASE Skips(out)
  <2>1. \A u \in EvalIds : /\ eval'[u].pc = eval[u].pc /\ eval'[u].of = eval[u].of
                           /\ eval'[u].cancel = eval[u].cancel
    BY <1>1 DEF Skips, Remembers
  <2>2. launched' = launched /\ pending' = pending /\ thread' = thread
    BY <1>1 DEF Skips
  <2>3. \A u \in EvalIds : Running(u)' <=> Running(u)
    BY <2>1 DEF Running, Ended
  <2>4. \A q \in Sessions : pending[q] # NoEval => pending[q] \in EvalIds
    BY <1>0 DEF EvalIds, NoEval
  <2>5. LaunchInv'
    BY <1>0, <2>1, <2>2 DEF LaunchInv
  <2>6. ThreadInv'
    BY <1>0, <2>1, <2>2 DEF ThreadInv
  <2>7. Current'
    <3>1. ASSUME NEW q \in Sessions, pending'[q] # NoEval PROVE Running(pending[q])'
      BY <1>0, <2>2, <2>3, <2>4, <3>1 DEF Current
    <3>2. ASSUME NEW u \in EvalIds, NEW q \in Sessions, Running(u)', eval'[u].of = {q}
          PROVE  pending'[q] = u
      BY <1>0, <2>1, <2>2, <2>3, <3>2 DEF Current
    <3> QED
      BY <2>2, <3>1, <3>2 DEF Current, Running, Ended
  <2>8. PendingOwned'
    BY <1>0, <2>1, <2>2, <2>4 DEF PendingOwned
  <2> QED
    BY <2>5, <2>6, <2>7, <2>8
<1>2. CASE Admits(s, out)
  <2>0. PICK t \in EvalIds : t = launched + 1
    BY <1>2 DEF Admits
  <2>1. /\ t \in EvalIds /\ launched' = t /\ pending' = [pending EXCEPT ![s] = t]
        /\ eval'[t].pc \in {"starting", "queued"} /\ eval'[t].of = {s} /\ ~eval'[t].cancel
    BY <1>2, <2>0 DEF Admits
  <2>2. \A u \in EvalIds \ {t} :
          /\ eval'[u].pc = eval[u].pc /\ eval'[u].of = eval[u].of
          /\ eval'[u].cancel = (eval[u].cancel \/ u = pending[s])
    BY <1>2, <2>0 DEF Admits, Remembers
  <2>3. \A u \in EvalIds : thread'[u] = thread[u] \/ thread'[u] = "idle"
    BY <1>2 DEF Admits
  <2>4. eval[t].pc = "unused" /\ thread[t] = "idle"
    BY <1>0, <2>0 DEF LaunchInv
  <2>5. Running(t)'
    BY <2>1 DEF Running, Ended
  <2>6. \A u \in EvalIds \ {t} : Running(u)' <=> Running(u) /\ u # pending[s]
    BY <2>2 DEF Running, Ended
  <2>7. LaunchInv'
    <3> SUFFICES ASSUME NEW u \in EvalIds
                 PROVE  /\ u > t => eval'[u].pc = "unused" /\ thread'[u] = "idle"
                        /\ u <= t => eval'[u].pc # "unused" /\ \E q \in Sessions : eval'[u].of = {q}
      BY <2>1 DEF LaunchInv
    <3>0. u \in Nat /\ t \in Nat
      BY <1>0 DEF EvalIds
    <3>1. CASE u = t
      BY <2>1, <3>0, <3>1
    <3>2. CASE u > t
      BY <1>0, <2>0, <2>2, <2>3, <3>0, <3>2 DEF LaunchInv
    <3>3. CASE u < t
      BY <1>0, <2>0, <2>2, <3>0, <3>3 DEF LaunchInv
    <3> QED
      BY <3>0, <3>1, <3>2, <3>3
  <2>8. ThreadInv'
    <3> SUFFICES ASSUME NEW u \in EvalIds
                 PROVE  /\ thread'[u] = "fold" => eval'[u].pc \in {"reporting", "cancelled"}
                        /\ thread'[u] = "persist" => eval'[u].pc \in {"persisting", "cancelled"}
                        /\ eval'[u].pc = "cancelled" => eval'[u].cancel
      BY DEF ThreadInv
    <3>1. CASE u = t
      BY <2>1, <2>3, <2>4, <3>1
    <3>2. CASE u # t
      BY <1>0, <2>2, <2>3, <3>2 DEF ThreadInv
    <3> QED
      BY <3>1, <3>2
  <2>9. ASSUME NEW u \in EvalIds, NEW q \in Sessions, Running(u)', eval'[u].of = {q}
        PROVE  pending'[q] = u
    <3>1. CASE u = t
      BY <1>0, <2>1, <2>9, <3>1
    <3>2. CASE u # t
      <4>1. Running(u) /\ u # pending[s] /\ eval[u].of = {q}
        BY <2>2, <2>6, <2>9, <3>2
      <4>2. pending[q] = u
        BY <1>0, <4>1 DEF Current
      <4> QED
        BY <1>0, <2>1, <4>1, <4>2
    <3> QED
      BY <3>1, <3>2
  <2>10. ASSUME NEW q \in Sessions, pending'[q] # NoEval
         PROVE  \E u \in EvalIds : pending'[q] = u /\ Running(u)' /\ eval'[u].of = {q}
    <3>1. CASE q = s
      BY <1>0, <2>1, <2>5, <3>1
    <3>2. CASE q # s
      <4>1. pending'[q] = pending[q]
        BY <1>0, <2>1, <3>2
      <4>2. PICK u \in EvalIds : u = pending[q]
        BY <1>0, <2>10, <4>1 DEF EvalIds, NoEval
      <4>3. Running(u) /\ eval[u].of = {q}
        BY <1>0, <2>10, <4>1, <4>2 DEF Current, PendingOwned
      <4>4. u # t
        BY <2>4, <4>3 DEF Running, Ended
      <4>5. u # pending[s]
        <5> SUFFICES ASSUME u = pending[s] PROVE FALSE
          OBVIOUS
        <5>1. u # NoEval
          BY <1>0 DEF EvalIds, NoEval
        <5>2. eval[u].of = {s}
          BY <1>0, <5>1 DEF PendingOwned
        <5> QED
          BY <3>2, <4>3, <5>2
      <4> QED
        BY <2>2, <2>6, <4>1, <4>2, <4>3, <4>4, <4>5
    <3> QED
      BY <3>1, <3>2
  <2>11. Current'
    BY <2>9, <2>10 DEF Current, Running, Ended
  <2>12. PendingOwned'
    BY <2>10 DEF PendingOwned
  <2> QED
    BY <2>7, <2>8, <2>11, <2>12
<1> QED
  BY <1>1, <1>2 DEF Turns

-----------------------------------------------------------------------------
(* The host *)

\* A caller joins what is pending for its session, or finds nothing.
LEMMA SettleShape ==
  ASSUME TypeOK, NEW c \in Callers, NEW s \in Sessions, Settle(c, s)
  PROVE  /\ caller' \in [Callers -> CallerState]
         /\ \A d \in Callers \ {c} : caller'[d] = caller[d]
         /\ caller'[c].of = {s} /\ caller'[c].quiet /\ ~caller'[c].timedOut
         /\ \/ caller'[c].pc = "out" /\ pending[s] = NoEval
            \/ caller'[c].pc = "waiting" /\ caller'[c].eval = pending[s] /\ pending[s] # NoEval
<1>0. caller \in [Callers -> CallerState] /\ pending[s] \in 0..MaxEvals
  BY DEF TypeOK
<1> DEFINE x == [Outside EXCEPT !.of = {s}, !.quiet = TRUE]
           y == [Outside EXCEPT !.pc = "waiting", !.of = {s}, !.eval = pending[s], !.quiet = TRUE]
<1>1. caller' = [caller EXCEPT ![c] = IF pending[s] = NoEval THEN x ELSE y]
  BY Zenon DEF Settle
<1>4. Outside \in CallerState /\ ~Outside.timedOut /\ Outside.pc = "out"
  BY FreshRecords DEF Outside
<1>2. x \in CallerState /\ x.of = {s} /\ x.quiet /\ ~x.timedOut /\ x.pc = "out"
  BY <1>4 DEF CallerState
<1>3. /\ y \in CallerState /\ y.of = {s} /\ y.quiet /\ ~y.timedOut /\ y.pc = "waiting"
      /\ y.eval = pending[s]
  BY <1>0, <1>4 DEF CallerState
<1> HIDE DEF x, y
<1> QED
  BY <1>0, <1>1, <1>2, <1>3

\* A caller that returns keeps what it waited for.
LEMMA ReturnsShape ==
  ASSUME TypeOK, NEW c \in Callers, NEW reported \in BOOLEAN, Returns(c, reported)
  PROVE  /\ caller' \in [Callers -> CallerState]
         /\ \A d \in Callers \ {c} : caller'[d] = caller[d]
         /\ caller'[c].pc = "out" /\ caller'[c].of = caller[c].of
         /\ caller'[c].quiet = caller[c].quiet
         /\ caller'[c].timedOut <=> ~reported /\ \E s \in caller[c].of : pending[s] # NoEval
<1>0. caller \in [Callers -> CallerState]
  BY DEF TypeOK
<1> DEFINE late == ~reported /\ \E s \in caller[c].of : pending[s] # NoEval
           x == [caller[c] EXCEPT !.pc = "out", !.eval = NoEval, !.timedOut = late]
<1>1. caller' = [caller EXCEPT ![c] = x]
  BY <1>0, Zenon DEF Returns
<1>2. late \in BOOLEAN
  OBVIOUS
<1> HIDE DEF late
<1>4. caller[c] \in CallerState /\ NoEval \in 0..MaxEvals
  BY <1>0, LimitsArePositive DEF NoEval
<1>5. /\ x \in CallerState /\ x.pc = "out" /\ x.of = caller[c].of /\ x.quiet = caller[c].quiet
      /\ x.timedOut = late
  BY <1>2, <1>4 DEF CallerState
<1> HIDE DEF x
<1>6. caller'[c] = x
  BY <1>0, <1>1
<1> QED
  BY <1>0, <1>1, <1>5, <1>6 DEF late

LEMMA DisturbedShape ==
  ASSUME TypeOK, NEW s \in Sessions, Disturbed(s)
  PROVE  /\ caller' \in [Callers -> CallerState]
         /\ \A c \in Callers : IF s \in caller[c].of THEN ~caller'[c].quiet
                               ELSE caller'[c] = caller[c]
<1>0. caller \in [Callers -> CallerState]
  BY DEF TypeOK
<1> DEFINE x(c) == [caller[c] EXCEPT !.quiet = FALSE]
<1>1. caller' = [c \in Callers |->
        IF s \notin caller[c].of THEN caller[c]
        ELSE IF caller[c].pc = "out" THEN Outside ELSE x(c)]
  BY Zenon DEF Disturbed
<1>2. ASSUME NEW c \in Callers PROVE x(c) \in CallerState /\ ~x(c).quiet
  BY <1>0 DEF CallerState
<1>3. Outside \in CallerState /\ ~Outside.quiet
  BY FreshRecords DEF Outside
<1> HIDE DEF x
<1> QED
  BY <1>0, <1>1, <1>2, <1>3

\* Whatever leaves the tasks alone, but for a thread that ends, keeps their invariant.
LEMMA TasksKept ==
  ASSUME TaskInv, UNCHANGED <<launched, pending, eval>>,
         \A u \in EvalIds : thread'[u] = thread[u] \/ thread'[u] = "idle"
  PROVE  LaunchInv' /\ ThreadInv' /\ PendingOwned' /\ Current'
<1>1. Current
  BY CurrentIs DEF TaskInv
<1>2. LaunchInv' /\ ThreadInv' /\ PendingOwned'
  BY DEF TaskInv, LaunchInv, ThreadInv, PendingOwned
<1>3. Current'
  BY <1>1 DEF Current, Running, Ended
<1> QED
  BY <1>2, <1>3

\* The steps of the worker threads, which leave the records of the tasks alone.
LEMMA ThreadShapes ==
  ASSUME TaskInv, NEW t \in EvalIds, ThreadStep(t)
  PROVE  \E s \in Sessions :
           /\ eval[t].of = {s}
           /\ thread' = [thread EXCEPT ![t] = "idle"]
           /\ \/ /\ thread[t] = "fold" /\ UNCHANGED <<told, lost>>
                 /\ folded' = [folded EXCEPT ![s] =
                      [i \in Traces |-> IF i \in eval[t].fresh THEN folded[s][i] + 1
                                        ELSE folded[s][i]]]
              \/ /\ thread[t] = "persist" /\ UNCHANGED <<folded, lost>>
                 /\ told' = [told EXCEPT ![s] = @ \cup (eval[t].found \cap notice[s].signatures)]
              \/ /\ thread[t] = "persist" /\ UNCHANGED <<folded, told>>
                 /\ lost' = [lost EXCEPT ![s] = @ \cup (eval[t].found \cap notice[s].signatures)]
           /\ UNCHANGED <<traces, admission, pending, eval, located, seen, notice, breaker, caller,
                          evicted>>
<1>1. eval[t].pc # "unused"
  BY DEF TaskInv, ThreadInv, ThreadStep, ThreadFold, ThreadPersist, ThreadPersistFails
<1>2. PICK s \in Sessions : eval[t].of = {s}
  BY <1>1, TaskHasSession
<1>3. SessionOf(t) = s
  BY <1>2, SessionIs
<1>4. CASE ThreadFold(t)
  BY <1>2, <1>3, <1>4, Zenon DEF ThreadFold
<1>5. CASE ThreadPersist(t)
  BY <1>2, <1>3, <1>5, Zenon DEF ThreadPersist
<1>6. CASE ThreadPersistFails(t)
  BY <1>2, <1>3, <1>6, Zenon DEF ThreadPersistFails, Drops
<1> QED
  BY <1>4, <1>5, <1>6 DEF ThreadStep

-----------------------------------------------------------------------------
(* TypeOK and PendingIsCurrent *)

LEMMA TurnStepType ==
  ASSUME TaskInv, NEW s \in Sessions, TurnSkipped(s) \/ TurnAdmitted(s)
  PROVE  TypeOK'
<1> DEFINE out == Evicted(s)
<1>0. TypeOK /\ launched \in Nat /\ MaxEvals \in Nat
  <2>1. MaxEvals \in Nat
    BY LimitsArePositive
  <2> QED
    BY <2>1 DEF TaskInv, TypeOK
<1>1. Turns(s, out)
  BY TurnShapes
<1>2. Counted(s) /\ launched < MaxEvals
  BY DEF TurnSkipped, TurnAdmitted
<1>3. /\ out \in SUBSET Sessions /\ tracked' \in Seq(Sessions) /\ Len(tracked') <= MaxTracked
      /\ located' \in Seq(Sessions) /\ Len(located') <= MaxTracked
      /\ count' \in [Sessions -> 0..SampleEvery]
  BY <1>0, <1>2, CountedType
<1>4. timed' \in SUBSET Sessions
  <2>1. timed \in SUBSET Sessions
    BY <1>0 DEF TypeOK
  <2>2. timed' = timed \ out \/ timed' = (timed \ out) \cup {s}
    BY Zenon DEF TurnSkipped, TurnAdmitted
  <2> HIDE DEF out
  <2> QED
    BY <2>1, <2>2
<1> HIDE DEF out
<1>5. notice' \in [Sessions -> NoticeState] /\ seen' \in [Sessions -> SUBSET Traces]
  <2>1. notice \in [Sessions -> NoticeState] /\ seen \in [Sessions -> SUBSET Traces]
    BY <1>0 DEF TypeOK
  <2>2. /\ notice' = [q \in Sessions |-> IF q \in out THEN NoNotice ELSE notice[q]]
        /\ seen' = [q \in Sessions |-> IF q \in out THEN {} ELSE seen[q]]
    BY <1>1 DEF Turns
  <2> QED
    BY <2>1, <2>2, FreshRecords
<1>6. /\ evicted' \in SUBSET Sessions /\ told' \in [Sessions -> SUBSET Conditions]
      /\ lost' \in [Sessions -> SUBSET Conditions]
  <2>1. /\ evicted \in SUBSET Sessions /\ told \in [Sessions -> SUBSET Conditions]
        /\ lost \in [Sessions -> SUBSET Conditions]
    BY <1>0 DEF TypeOK
  <2> QED
    BY <1>1, <1>3, <2>1 DEF Turns, Forgotten
<1>7. caller' \in [Callers -> CallerState]
  BY <1>0, <1>1, DisturbedShape DEF Turns
<1>8. launched' \in 0..MaxEvals /\ pending' \in [Sessions -> 0..MaxEvals]
  <2>1. pending \in [Sessions -> 0..MaxEvals] /\ launched \in 0..MaxEvals
    BY <1>0 DEF TypeOK
  <2>2. CASE Skips(out)
    BY <2>1, <2>2 DEF Skips
  <2>3. CASE Admits(s, out)
    <3>1. /\ launched' = launched + 1 /\ pending' = [pending EXCEPT ![s] = launched + 1]
      BY <2>3 DEF Admits
    <3>2. launched + 1 \in 0..MaxEvals
      BY <1>0, <1>2
    <3> QED
      BY <2>1, <3>1, <3>2
  <2> QED
    BY <1>1, <2>2, <2>3 DEF Turns
<1>9. /\ eval' \in [EvalIds -> TaskState] /\ thread' \in [EvalIds -> {"idle", "fold", "persist"}]
      /\ UNCHANGED <<traces, health, breaker, folded>>
  BY <1>1 DEF Turns
<1> QED
  BY <1>0, <1>3, <1>4, <1>5, <1>6, <1>7, <1>8, <1>9 DEF TypeOK

LEMMA ThreadStepType ==
  ASSUME TaskInv, NEW t \in EvalIds, ThreadStep(t)
  PROVE  TypeOK'
<1>0. TypeOK
  BY DEF TaskInv
<1>1. /\ thread \in [EvalIds -> {"idle", "fold", "persist"}]
      /\ folded \in [Sessions -> [Traces -> Nat]] /\ told \in [Sessions -> SUBSET Conditions]
      /\ lost \in [Sessions -> SUBSET Conditions] /\ eval[t].found \in SUBSET Conditions
  BY <1>0 DEF TypeOK, TaskState
<1>2. PICK s \in Sessions :
        /\ thread' = [thread EXCEPT ![t] = "idle"]
        /\ \/ /\ UNCHANGED <<told, lost>>
              /\ folded' = [folded EXCEPT ![s] =
                   [i \in Traces |-> IF i \in eval[t].fresh THEN folded[s][i] + 1
                                     ELSE folded[s][i]]]
           \/ /\ UNCHANGED <<folded, lost>>
              /\ told' = [told EXCEPT ![s] = @ \cup (eval[t].found \cap notice[s].signatures)]
           \/ /\ UNCHANGED <<folded, told>>
              /\ lost' = [lost EXCEPT ![s] = @ \cup (eval[t].found \cap notice[s].signatures)]
        /\ UNCHANGED <<traces, admission, pending, eval, located, seen, notice, breaker, caller,
                       evicted>>
  BY ThreadShapes, Zenon
<1>3. thread' \in [EvalIds -> {"idle", "fold", "persist"}]
  BY <1>1, <1>2
<1>4. folded' \in [Sessions -> [Traces -> Nat]]
  <2> DEFINE more == [i \in Traces |-> IF i \in eval[t].fresh THEN folded[s][i] + 1
                                       ELSE folded[s][i]]
  <2>1. more \in [Traces -> Nat]
    BY <1>1
  <2>2. folded' = folded \/ folded' = [folded EXCEPT ![s] = more]
    BY <1>2, Zenon
  <2> HIDE DEF more
  <2> QED
    BY <1>1, <2>1, <2>2
<1>5. told' \in [Sessions -> SUBSET Conditions] /\ lost' \in [Sessions -> SUBSET Conditions]
  <2>1. \/ told' = told /\ lost' = lost
        \/ /\ told' = [told EXCEPT ![s] = @ \cup (eval[t].found \cap notice[s].signatures)]
           /\ lost' = lost
        \/ /\ lost' = [lost EXCEPT ![s] = @ \cup (eval[t].found \cap notice[s].signatures)]
           /\ told' = told
    BY <1>2
  <2> QED
    BY <1>1, <2>1
<1> QED
  BY <1>0, <1>2, <1>3, <1>4, <1>5 DEF TypeOK, admission

LEMMA CallerStepType ==
  ASSUME TypeOK, caller' \in [Callers -> CallerState],
         UNCHANGED <<traces, admission, pending, eval, thread, located, seen, notice, breaker,
                     history>>
  PROVE  TypeOK'
BY DEF TypeOK, admission, history

\* No task starts or ends, and no thread does.
LEMMA LocateStep ==
  ASSUME TaskInv, NEW t \in EvalIds, NEW out, Locates(t, out)
  PROVE  TypeOK' /\ LaunchInv' /\ ThreadInv' /\ PendingOwned' /\ Current'
<1>0. TypeOK /\ LaunchInv /\ ThreadInv /\ PendingOwned /\ Current
  BY CurrentIs DEF TaskInv
<1>1. /\ \A u \in EvalIds : eval'[u].of = eval[u].of /\ eval'[u].cancel = eval[u].cancel
      /\ \A u \in EvalIds \ {t} : eval'[u].pc = eval[u].pc
      /\ eval[t].pc = "acquired" /\ eval'[t].pc = "listing"
      /\ launched' = launched /\ pending' = pending /\ thread' = thread
  BY DEF Locates, Remembers, admission
<1>2. \A u \in EvalIds : Running(u)' <=> Running(u)
  BY <1>1 DEF Running, Ended
<1>3. TypeOK'
  <2>1. seen' \in [Sessions -> SUBSET Traces] /\ evicted' \in SUBSET Sessions
    <3>1. seen \in [Sessions -> SUBSET Traces] /\ evicted \in SUBSET Sessions
      BY <1>0 DEF TypeOK
    <3> QED
      BY <3>1 DEF Locates
  <2> QED
    BY <1>0, <2>1 DEF TypeOK, Locates, admission
<1>4. LaunchInv'
  BY <1>0, <1>1 DEF LaunchInv
<1>5. ThreadInv'
  BY <1>0, <1>1 DEF ThreadInv
<1>6. \A q \in Sessions : pending[q] # NoEval => pending[q] \in EvalIds
  BY <1>0, LimitsArePositive DEF TypeOK, EvalIds, NoEval
<1>7. PendingOwned'
  BY <1>0, <1>1, <1>6 DEF PendingOwned
<1>8. Current'
  <2>1. ASSUME NEW q \in Sessions, pending'[q] # NoEval PROVE Running(pending[q])'
    BY <1>0, <1>1, <1>2, <1>6, <2>1 DEF Current
  <2>2. ASSUME NEW u \in EvalIds, NEW q \in Sessions, Running(u)', eval'[u].of = {q}
        PROVE  pending'[q] = u
    BY <1>0, <1>1, <1>2, <2>2 DEF Current
  <2> QED
    BY <1>1, <2>1, <2>2 DEF Current, Running, Ended
<1> QED
  BY <1>3, <1>4, <1>5, <1>7, <1>8

\* Every step of the specification keeps the shapes, and exactly the tasks that run
\* pending.
LEMMA TaskStep == TaskInv /\ [Next]_vars => TaskInv'
<1> SUFFICES ASSUME TaskInv, [Next]_vars PROVE TaskInv'
  OBVIOUS
<1>0. TypeOK
  BY DEF TaskInv
<1>a. ASSUME TypeOK', LaunchInv', ThreadInv', PendingOwned', Current' PROVE TaskInv'
  <2>1. PendingIsCurrent'
    BY <1>a, CurrentIs, PTL
  <2> QED
    BY <1>a, <2>1 DEF TaskInv
<1>b. ASSUME TypeOK', UNCHANGED <<launched, pending, eval, thread>> PROVE TaskInv'
  BY <1>a, <1>b, TasksKept
<1>1. ASSUME NEW s \in Sessions, TraceCompletes(s) PROVE TaskInv'
  <2>1. traces \in [Sessions -> 0..MaxTraces] /\ MaxTraces \in Nat
    BY <1>0, LimitsArePositive DEF TypeOK
  <2>2. traces[s] + 1 \in 0..MaxTraces
    BY <1>1, <2>1 DEF TraceCompletes
  <2>3. traces' \in [Sessions -> 0..MaxTraces]
    BY <1>1, <2>1, <2>2 DEF TraceCompletes
  <2>4. TypeOK'
    BY <1>0, <1>1, <2>3 DEF TraceCompletes, TypeOK, admission, history
  <2> QED
    BY <1>1, <1>b, <2>4 DEF TraceCompletes, admission
<1>2. ASSUME NEW s \in Sessions, TurnOverBudget(s) PROVE TaskInv'
  <2>1. TypeOK'
    BY <1>0, <1>2, DisturbedShape, CallerStepType DEF TurnOverBudget
  <2> QED
    BY <1>2, <1>b, <2>1 DEF TurnOverBudget, admission
<1>3. ASSUME NEW s \in Sessions, TurnSkipped(s) \/ TurnAdmitted(s) PROVE TaskInv'
  <2>1. TypeOK'
    BY <1>3, TurnStepType
  <2>2. Turns(s, Evicted(s))
    BY <1>3, TurnShapes
  <2> QED
    BY <1>a, <2>1, <2>2, TurnStepPending
<1>4. ASSUME NEW t \in EvalIds, EvalStep(t) \/ Acquire(t) PROVE TaskInv'
  <2>1. TypeOK'
    BY <1>4, TaskStepType
  <2>2. PICK s \in Sessions : eval[t].of = {s} /\ TaskShape(t, s)
    BY <1>4, TaskShapes
  <2> QED
    BY <1>a, <2>1, <2>2, TaskStepPending, TaskStepThreads
<1>5. ASSUME NEW t \in EvalIds, ThreadStep(t) PROVE TaskInv'
  <2>1. TypeOK'
    BY <1>5, ThreadStepType
  <2>2. thread' = [thread EXCEPT ![t] = "idle"] /\ UNCHANGED <<launched, pending, eval>>
    BY <1>5 DEF ThreadStep, ThreadFold, ThreadPersist, ThreadPersistFails, admission
  <2>3. \A u \in EvalIds : thread'[u] = thread[u] \/ thread'[u] = "idle"
    BY <1>0, <2>2 DEF TypeOK
  <2> QED
    BY <1>a, <2>1, <2>2, <2>3, TasksKept
<1>6. ASSUME NEW c \in Callers, NEW s \in Sessions, Settle(c, s) PROVE TaskInv'
  <2>1. TypeOK'
    BY <1>0, <1>6, SettleShape, CallerStepType DEF Settle
  <2> QED
    BY <1>6, <1>b, <2>1 DEF Settle, admission
<1>7. ASSUME NEW c \in Callers, SettleJoins(c) \/ SettleTimesOut(c) PROVE TaskInv'
  <2>1. \E reported \in BOOLEAN : Returns(c, reported)
    BY <1>7 DEF SettleJoins, SettleTimesOut
  <2>2. caller' \in [Callers -> CallerState]
    BY <1>0, <2>1, ReturnsShape
  <2>3. UNCHANGED <<traces, admission, pending, eval, thread, located, seen, notice, breaker,
                    history>>
    BY <1>7 DEF SettleJoins, SettleTimesOut
  <2>4. TypeOK'
    BY <1>0, <2>2, <2>3, CallerStepType
  <2> QED
    BY <1>b, <2>3, <2>4 DEF admission
<1>8. ASSUME UNCHANGED vars PROVE TaskInv'
  <2>1. TypeOK'
    BY <1>0, <1>8 DEF vars, TypeOK
  <2> QED
    BY <1>8, <1>b, <2>1 DEF vars
<1>9. ASSUME NEW t \in EvalIds, Locate(t) PROVE TaskInv'
  BY <1>9, <1>a, LocateShape, LocateStep
<1> QED
  BY <1>1, <1>2, <1>3, <1>4, <1>5, <1>6, <1>7, <1>8, <1>9 DEF Next

THEOREM TaskInvariant == Spec => []TaskInv
BY TaskInit, TaskStep, PTL DEF Spec

\* Every variable keeps its shape: the counters stay within their limits, a task, a
\* notice state and a caller keep their fields, and no more sessions are tracked than
\* _MAX_TRACKED_SESSIONS.
THEOREM TypeCorrect == Spec => []TypeOK
<1>1. TaskInv => TypeOK
  BY DEF TaskInv
<1> QED
  BY <1>1, TaskInvariant, PTL

\* The evaluation that runs for a session is the one the session's next turn cancels
\* and its barrier joins: hook/core.py never loses track of one, and never keeps an
\* entry for one that has ended.
THEOREM OneEvaluationPerSession == Spec => []PendingIsCurrent
<1>1. TaskInv => PendingIsCurrent
  BY DEF TaskInv
<1> QED
  BY <1>1, TaskInvariant, PTL

-----------------------------------------------------------------------------
(* FoldedOnce *)

\* Task t is to fold trace i into the gate and has not.
Owes(t, i) == i \in eval[t].fresh /\ (eval[t].pc = "scoring" \/ thread[t] = "fold")

\* Only an evicted session's listing works on a seen-set that is no longer kept.
ForgetsEvicted == \A t \in EvalIds : eval[t].forgotten => eval[t].of \subseteq evicted

\* A trace is folded after it was marked, and owed by at most one task until it is.
FoldsOnce(s, i) ==
  /\ folded[s][i] <= 1
  /\ i \notin seen[s] => folded[s][i] = 0
  /\ \A t \in EvalIds : eval[t].of = {s} /\ Owes(t, i) => i \in seen[s] /\ folded[s][i] = 0
  /\ \A t \in EvalIds : \A u \in EvalIds :
       eval[t].of = {s} /\ Owes(t, i) /\ eval[u].of = {s} /\ Owes(u, i) => t = u

FoldInv ==
  ForgetsEvicted /\ \A s \in Sessions \ evicted : \A i \in Traces : FoldsOnce(s, i)

LEMMA FoldInit == Init => FoldInv
BY DEF Init, FoldInv, ForgetsEvicted, FoldsOnce, Owes, NoTask

\* A step after which no task owes what it did not owe before.
LEMMA FoldKept ==
  ASSUME FoldInv, ForgetsEvicted', evicted \subseteq evicted', folded' = folded,
         \A s \in Sessions \ evicted' : seen'[s] = seen[s],
         \A t \in EvalIds : \A i \in Traces : Owes(t, i)' => Owes(t, i) /\ eval'[t].of = eval[t].of
  PROVE  FoldInv'
<1> SUFFICES ASSUME NEW s \in Sessions \ evicted', NEW i \in Traces
             PROVE  FoldsOnce(s, i)'
  BY DEF FoldInv
<1>1. FoldsOnce(s, i) /\ folded'[s][i] = folded[s][i] /\ seen'[s] = seen[s]
  BY DEF FoldInv
<1> QED
  BY <1>1 DEF FoldsOnce

\* A task comes to owe a trace when it lists it, and marks it then.
LEMMA TaskOwes ==
  ASSUME TaskInv, ForgetsEvicted, NEW t \in EvalIds, NEW s \in Sessions, eval[t].of = {s},
         TaskShape(t, s), NEW i \in Traces, Owes(t, i)'
  PROVE  Owes(t, i) \/ (s \notin evicted => i \notin seen[s] /\ i \in seen'[s])
<1>1. CASE Lists(t, s)
  <2> SUFFICES ASSUME s \notin evicted PROVE i \notin seen[s] /\ i \in seen'[s]
    OBVIOUS
  <2>1. ~eval[t].forgotten
    BY DEF ForgetsEvicted
  <2>2. seen' = [seen EXCEPT ![s] = @ \cup eval'[t].fresh]
    BY <1>1, <2>1 DEF Lists
  <2>3. i \in eval'[t].fresh /\ i \notin seen[s]
    BY <1>1, <2>1 DEF Lists, Owes
  <2>4. seen \in [Sessions -> SUBSET Traces]
    BY DEF TaskInv, TypeOK
  <2> QED
    BY <2>2, <2>3, <2>4
<1>2. CASE Scores(t)
  BY <1>2 DEF Scores, Owes
<1>3. CASE Persists(t)
  <2>1. thread'[t] = "persist"
    BY <1>3 DEF Persists, TaskInv, TypeOK
  <2> QED
    BY <1>3, <2>1 DEF Persists, Owes
<1>4. CASE Goes(t) \/ Reports(t)
  BY <1>4 DEF Goes, Reports, Owes
<1>5. CASE Stops(t, s) \/ Recovers(t, s) \/ Gates(t, s)
  BY <1>5 DEF Stops, Recovers, Gates, Leaves, Owes
<1> QED
  BY <1>1, <1>2, <1>3, <1>4, <1>5 DEF TaskShape

LEMMA TaskStepFolds ==
  ASSUME TaskInv, FoldInv, NEW t \in EvalIds, NEW s \in Sessions, eval[t].of = {s},
         TaskShape(t, s)
  PROVE  FoldInv'
<1>0. /\ seen \in [Sessions -> SUBSET Traces] /\ ForgetsEvicted
  BY DEF TaskInv, TypeOK, FoldInv
<1>1. /\ evicted' = evicted /\ folded' = folded
      /\ \A u \in EvalIds : eval'[u].of = eval[u].of /\ (eval'[u].forgotten => eval[u].forgotten)
      /\ \A u \in EvalIds \ {t} : eval'[u] = eval[u] /\ thread'[u] = thread[u]
  BY TaskMoves DEF Takes
<1>2. ForgetsEvicted'
  BY <1>0, <1>1 DEF ForgetsEvicted
<1>3. \A q \in Sessions : seen[q] \subseteq seen'[q] /\ (q # s => seen'[q] = seen[q])
  <2>1. seen' = seen \/ seen' = [seen EXCEPT ![s] = @ \cup eval'[t].fresh]
    BY DEF TaskShape, Goes, Stops, Lists, Scores, Reports, Recovers, Gates, Persists
  <2> QED
    BY <1>0, <2>1
<1> SUFFICES ASSUME NEW q \in Sessions \ evicted, NEW i \in Traces
             PROVE  FoldsOnce(q, i)'
  BY <1>1, <1>2 DEF FoldInv
<1>4. FoldsOnce(q, i) /\ folded'[q][i] = folded[q][i]
  BY <1>1 DEF FoldInv
<1>5. \A u \in EvalIds \ {t} : Owes(u, i)' <=> Owes(u, i)
  BY <1>1 DEF Owes
<1>6. eval[t].of = {q} /\ Owes(t, i)' => Owes(t, i) \/ (i \notin seen[q] /\ i \in seen'[q])
  BY <1>0, TaskOwes
<1>7. /\ folded'[q][i] <= 1
      /\ i \notin seen'[q] => folded'[q][i] = 0
  BY <1>3, <1>4 DEF FoldsOnce
<1>8. ASSUME NEW u \in EvalIds, eval'[u].of = {q}, Owes(u, i)'
      PROVE  i \in seen'[q] /\ folded'[q][i] = 0
  <2>1. CASE Owes(u, i)
    BY <1>1, <1>3, <1>4, <1>8, <2>1 DEF FoldsOnce
  <2>2. CASE ~Owes(u, i)
    BY <1>1, <1>4, <1>5, <1>6, <1>8, <2>2 DEF FoldsOnce
  <2> QED
    BY <2>1, <2>2
<1>9. ASSUME NEW u \in EvalIds, NEW v \in EvalIds, eval'[u].of = {q}, Owes(u, i)',
             eval'[v].of = {q}, Owes(v, i)'
      PROVE  u = v
  <2>1. CASE Owes(u, i) /\ Owes(v, i)
    BY <1>1, <1>4, <1>9, <2>1 DEF FoldsOnce
  <2>2. CASE ~Owes(u, i)
    BY <1>1, <1>4, <1>5, <1>6, <1>9, <2>2 DEF FoldsOnce
  <2>3. CASE ~Owes(v, i)
    BY <1>1, <1>4, <1>5, <1>6, <1>9, <2>3 DEF FoldsOnce
  <2> QED
    BY <2>1, <2>2, <2>3
<1> QED
  BY <1>7, <1>8, <1>9 DEF FoldsOnce

LEMMA ThreadStepFolds ==
  ASSUME TaskInv, FoldInv, NEW t \in EvalIds, ThreadStep(t)
  PROVE  FoldInv'
<1>0. /\ thread \in [EvalIds -> {"idle", "fold", "persist"}]
      /\ folded \in [Sessions -> [Traces -> Nat]] /\ ForgetsEvicted
  BY DEF TaskInv, TypeOK, FoldInv
<1>1. PICK s \in Sessions :
        /\ eval[t].of = {s}
        /\ thread' = [thread EXCEPT ![t] = "idle"]
        /\ \/ /\ thread[t] = "fold"
              /\ folded' = [folded EXCEPT ![s] =
                   [i \in Traces |-> IF i \in eval[t].fresh THEN folded[s][i] + 1
                                     ELSE folded[s][i]]]
           \/ thread[t] = "persist" /\ UNCHANGED folded
        /\ UNCHANGED <<eval, seen, evicted>>
  BY ThreadShapes, Zenon
<1>2. ForgetsEvicted'
  BY <1>0, <1>1 DEF ForgetsEvicted
<1>3. \A u \in EvalIds : \A i \in Traces : Owes(u, i)' => Owes(u, i)
  BY <1>0, <1>1 DEF Owes
<1>4. CASE folded' = folded
  BY <1>1, <1>2, <1>3, <1>4, FoldKept
<1>5. CASE thread[t] = "fold" /\ folded' # folded
  <2>1. ~(\E i \in Traces : Owes(t, i)')
    BY <1>0, <1>1, <1>5 DEF Owes, TaskInv, ThreadInv
  <2> SUFFICES ASSUME NEW q \in Sessions \ evicted, NEW i \in Traces
               PROVE  FoldsOnce(q, i)'
    BY <1>1, <1>2 DEF FoldInv
  <2>2. FoldsOnce(q, i)
    BY DEF FoldInv
  <2>3. CASE q = s /\ i \in eval[t].fresh
    <3>1. Owes(t, i)
      BY <1>5, <2>3 DEF Owes
    <3>2. i \in seen[q] /\ folded[q][i] = 0 /\ folded'[q][i] = folded[q][i] + 1
      BY <1>0, <1>1, <1>5, <2>2, <2>3, <3>1 DEF FoldsOnce
    <3>3. \A u \in EvalIds : eval'[u].of = {q} => ~Owes(u, i)'
      BY <1>1, <1>3, <2>1, <2>2, <2>3, <3>1 DEF FoldsOnce
    <3> QED
      BY <1>1, <3>2, <3>3 DEF FoldsOnce
  <2>4. CASE ~(q = s /\ i \in eval[t].fresh)
    <3>1. folded'[q][i] = folded[q][i]
      BY <1>0, <1>1, <1>5, <2>4
    <3> QED
      BY <1>1, <1>3, <2>2, <3>1 DEF FoldsOnce
  <2> QED
    BY <2>3, <2>4
<1> QED
  BY <1>1, <1>4, <1>5

LEMMA TurnStepFolds ==
  ASSUME TaskInv, FoldInv, NEW s \in Sessions, NEW out, Turns(s, out)
  PROVE  FoldInv'
<1>0. /\ ForgetsEvicted /\ thread \in [EvalIds -> {"idle", "fold", "persist"}]
      /\ seen \in [Sessions -> SUBSET Traces]
  BY DEF FoldInv, TaskInv, TypeOK
<1>1. /\ evicted' = evicted \cup out /\ folded' = folded
      /\ seen' = [q \in Sessions |-> IF q \in out THEN {} ELSE seen[q]]
  BY DEF Turns, Forgotten
<1>2. ASSUME NEW u \in EvalIds
      PROVE  /\ eval'[u].forgotten => eval'[u].of \subseteq evicted'
             /\ \A i \in Traces : Owes(u, i)' => Owes(u, i) /\ eval'[u].of = eval[u].of
  <2>1. CASE Remembers(u, out) /\ (thread'[u] = thread[u] \/ thread'[u] = "idle")
    BY <1>0, <1>1, <2>1 DEF Remembers, Owes, ForgetsEvicted
  <2>2. CASE ~eval'[u].forgotten /\ eval'[u].fresh = {}
    BY <2>2 DEF Owes
  <2>3. CASE Skips(out)
    BY <2>1, <2>3 DEF Skips
  <2>4. CASE Admits(s, out)
    BY <2>1, <2>2, <2>4 DEF Admits
  <2> QED
    BY <2>3, <2>4 DEF Turns
<1>3. ForgetsEvicted'
  BY <1>2 DEF ForgetsEvicted
<1>4. evicted \subseteq evicted' /\ \A q \in Sessions \ evicted' : seen'[q] = seen[q]
  BY <1>1
<1> QED
  BY <1>1, <1>2, <1>3, <1>4, FoldKept

LEMMA LocateFolds ==
  ASSUME TaskInv, FoldInv, NEW t \in EvalIds, NEW out, Locates(t, out)
  PROVE  FoldInv'
<1>1. /\ evicted' = evicted \cup out /\ folded' = folded /\ thread' = thread
      /\ seen' = [q \in Sessions |-> IF q \in out THEN {} ELSE seen[q]]
  BY DEF Locates
<1>2. ASSUME NEW u \in EvalIds
      PROVE  /\ eval'[u].forgotten => eval'[u].of \subseteq evicted'
             /\ \A i \in Traces : Owes(u, i)' => Owes(u, i) /\ eval'[u].of = eval[u].of
  <2>0. eval[u].forgotten => eval[u].of \subseteq evicted
    BY DEF FoldInv, ForgetsEvicted
  <2>1. CASE u = t
    BY <1>1, <2>0, <2>1 DEF Locates, Owes
  <2>2. CASE u # t
    <3>1. Remembers(u, out)
      BY <2>2 DEF Locates
    <3> QED
      BY <1>1, <2>0, <3>1 DEF Remembers, Owes
  <2> QED
    BY <2>1, <2>2
<1>3. ForgetsEvicted'
  BY <1>2 DEF ForgetsEvicted
<1>4. evicted \subseteq evicted' /\ \A q \in Sessions \ evicted' : seen'[q] = seen[q]
  BY <1>1
<1> QED
  BY <1>1, <1>2, <1>3, <1>4, FoldKept

LEMMA FoldStep == TaskInv /\ FoldInv /\ [Next]_vars => FoldInv'
<1> SUFFICES ASSUME TaskInv, FoldInv, [Next]_vars PROVE FoldInv'
  OBVIOUS
<1>1. ASSUME UNCHANGED <<eval, thread, seen, evicted, folded>> PROVE FoldInv'
  BY <1>1 DEF FoldInv, ForgetsEvicted, FoldsOnce, Owes
<1>2. ASSUME NEW s \in Sessions, TurnSkipped(s) \/ TurnAdmitted(s) PROVE FoldInv'
  BY <1>2, TurnShapes, TurnStepFolds
<1>3. ASSUME NEW t \in EvalIds, EvalStep(t) \/ Acquire(t) PROVE FoldInv'
  BY <1>3, TaskShapes, TaskStepFolds
<1>4. ASSUME NEW t \in EvalIds, ThreadStep(t) PROVE FoldInv'
  BY <1>4, ThreadStepFolds
<1>5. ASSUME \/ \E s \in Sessions : TraceCompletes(s) \/ TurnOverBudget(s)
             \/ \E c \in Callers : \/ \E s \in Sessions : Settle(c, s)
                                   \/ SettleJoins(c) \/ SettleTimesOut(c)
             \/ UNCHANGED vars
      PROVE  UNCHANGED <<eval, thread, seen, evicted, folded>>
  BY <1>5 DEF TraceCompletes, TurnOverBudget, Settle, SettleJoins, SettleTimesOut, vars, history
<1>6. ASSUME NEW t \in EvalIds, Locate(t) PROVE FoldInv'
  BY <1>6, LocateShape, LocateFolds
<1> QED
  BY <1>1, <1>2, <1>3, <1>4, <1>5, <1>6 DEF Next

\* No trace of a session that was never evicted is folded into the trajectory gate
\* twice: it is marked when it is listed, owed by the one task that listed it, and owed
\* no longer once its thread has folded it, although a newer task may list meanwhile.
THEOREM TracesFoldOnce == Spec => []FoldedOnce
<1>1. FoldInv => FoldedOnce
  BY DEF FoldInv, FoldsOnce, FoldedOnce
<1>2. Spec => []FoldInv
  BY TaskInvariant, FoldInit, FoldStep, PTL DEF Spec
<1> QED
  BY <1>1, <1>2, PTL

-----------------------------------------------------------------------------
(* SettledMeansLanded *)

\* Whatever runs for the session of a caller that no turn has disturbed is what the
\* caller waits for, or what it has given up on.
Quiet(c) ==
  caller[c].quiet =>
    /\ \E s \in Sessions : caller[c].of = {s}
    /\ \A t \in EvalIds : Running(t) /\ eval[t].of = caller[c].of =>
         \/ caller[c].pc = "waiting" /\ caller[c].eval = t
         \/ caller[c].pc = "out" /\ caller[c].timedOut

QuietInv == \A c \in Callers : Quiet(c)

LEMMA QuietInit == Init => QuietInv
BY DEF Init, QuietInv, Quiet, Outside

\* A step that starts nothing, seen from a caller it leaves alone.
LEMMA QuietKept ==
  ASSUME NEW c \in Callers, Quiet(c), caller'[c] = caller[c],
         \A t \in EvalIds : Running(t)' /\ eval'[t].of = caller[c].of =>
           Running(t) /\ eval[t].of = caller[c].of
  PROVE  Quiet(c)'
BY DEF Quiet, Running, Ended

LEMMA TurnStepQuiet ==
  ASSUME TaskInv, QuietInv, NEW s \in Sessions, NEW out, Turns(s, out)
  PROVE  QuietInv'
<1>0. TypeOK
  BY DEF TaskInv
<1> SUFFICES ASSUME NEW c \in Callers PROVE Quiet(c)'
  BY DEF QuietInv
<1>1. Quiet(c)
  BY DEF QuietInv
<1>2. IF s \in caller[c].of THEN ~caller'[c].quiet ELSE caller'[c] = caller[c]
  BY <1>0, DisturbedShape DEF Turns
<1>3. CASE s \in caller[c].of
  BY <1>2, <1>3 DEF Quiet
<1>4. CASE s \notin caller[c].of
  <2>1. ASSUME NEW u \in EvalIds, Running(u)', eval'[u].of = caller[c].of
        PROVE  Running(u) /\ eval[u].of = caller[c].of
    <3>1. CASE eval'[u].of = {s}
      BY <1>4, <2>1, <3>1
    <3>2. CASE Remembers(u, out) /\ (eval[u].cancel => eval'[u].cancel)
      BY <2>1, <3>2 DEF Remembers, Running, Ended
    <3>3. CASE Skips(out)
      BY <3>2, <3>3 DEF Skips
    <3>4. CASE Admits(s, out)
      BY <3>1, <3>2, <3>4 DEF Admits
    <3> QED
      BY <3>3, <3>4 DEF Turns
  <2> QED
    BY <1>1, <1>2, <1>4, <2>1, QuietKept
<1> QED
  BY <1>3, <1>4

LEMMA TaskStepQuiet ==
  ASSUME TaskInv, QuietInv, NEW t \in EvalIds, NEW s \in Sessions, eval[t].of = {s},
         TaskShape(t, s)
  PROVE  QuietInv'
<1>1. /\ caller' = caller /\ \A u \in EvalIds : eval'[u].of = eval[u].of
      /\ \A u \in EvalIds : Running(u)' => Running(u)
  BY TaskMoves DEF Takes
<1> QED
  BY <1>1, QuietKept DEF QuietInv

LEMMA SettleQuiet ==
  ASSUME TaskInv, QuietInv, NEW c \in Callers, NEW s \in Sessions, Settle(c, s)
  PROVE  QuietInv'
<1>0. TypeOK /\ Current
  BY CurrentIs DEF TaskInv
<1>1. /\ \A d \in Callers \ {c} : caller'[d] = caller[d]
      /\ caller'[c].of = {s}
      /\ \/ pending[s] = NoEval
         \/ caller'[c].pc = "waiting" /\ caller'[c].eval = pending[s]
  BY <1>0, SettleShape
<1>2. eval' = eval
  BY DEF Settle
<1>3. \A u \in EvalIds : u # NoEval
  BY DEF EvalIds, NoEval
<1>4. Quiet(c)'
  <2> SUFFICES ASSUME NEW u \in EvalIds, Running(u)', eval'[u].of = {s}
               PROVE  caller'[c].pc = "waiting" /\ caller'[c].eval = u
    BY <1>1 DEF Quiet
  <2>1. pending[s] = u
    BY <1>0, <1>2 DEF Current, Running, Ended
  <2> QED
    BY <1>1, <1>3, <2>1
<1>5. ASSUME NEW d \in Callers \ {c} PROVE Quiet(d)'
  BY <1>1, <1>2, QuietKept DEF QuietInv, Running, Ended
<1> QED
  BY <1>4, <1>5 DEF QuietInv

LEMMA ReturnsQuiet ==
  ASSUME TaskInv, QuietInv, NEW c \in Callers, SettleJoins(c) \/ SettleTimesOut(c)
  PROVE  QuietInv'
<1>0. TypeOK /\ Current
  BY CurrentIs DEF TaskInv
<1>1. caller[c].pc = "waiting" /\ eval' = eval
  BY DEF SettleJoins, SettleTimesOut
<1>2. PICK reported \in BOOLEAN :
        Returns(c, reported) /\ (Ended(caller[c].eval) \/ ~reported)
  BY DEF SettleJoins, SettleTimesOut
<1>3. /\ \A d \in Callers \ {c} : caller'[d] = caller[d]
      /\ caller'[c].pc = "out" /\ caller'[c].of = caller[c].of
      /\ caller'[c].quiet = caller[c].quiet
      /\ caller'[c].timedOut <=> ~reported /\ \E q \in caller[c].of : pending[q] # NoEval
  BY <1>0, <1>2, ReturnsShape
<1>4. Quiet(c)'
  <2> SUFFICES ASSUME caller[c].quiet
               PROVE  /\ \E s \in Sessions : caller[c].of = {s}
                      /\ \A u \in EvalIds : Running(u)' /\ eval'[u].of = caller[c].of =>
                           caller'[c].timedOut
    BY <1>3 DEF Quiet
  <2>1. PICK s \in Sessions : caller[c].of = {s}
    BY DEF QuietInv, Quiet
  <2>2. ASSUME NEW u \in EvalIds, Running(u)', eval'[u].of = caller[c].of
        PROVE  caller'[c].timedOut
    <3>1. Running(u) /\ eval[u].of = {s}
      BY <1>1, <2>1, <2>2 DEF Running, Ended
    <3>2. caller[c].eval = u
      BY <1>1, <2>1, <3>1 DEF QuietInv, Quiet
    <3>3. ~reported
      BY <1>2, <3>1, <3>2 DEF Running
    <3>4. pending[s] # NoEval
      BY <1>0, <3>1 DEF Current, EvalIds, NoEval
    <3> QED
      BY <1>3, <2>1, <3>3, <3>4
  <2> QED
    BY <2>1, <2>2
<1>5. ASSUME NEW d \in Callers \ {c} PROVE Quiet(d)'
  BY <1>1, <1>3, QuietKept DEF QuietInv, Running, Ended
<1> QED
  BY <1>4, <1>5 DEF QuietInv

LEMMA LocateQuiet ==
  ASSUME TaskInv, QuietInv, NEW t \in EvalIds, NEW out, Locates(t, out)
  PROVE  QuietInv'
<1>1. /\ caller' = caller
      /\ \A u \in EvalIds : eval'[u].of = eval[u].of /\ eval'[u].cancel = eval[u].cancel
      /\ \A u \in EvalIds \ {t} : eval'[u].pc = eval[u].pc
      /\ eval[t].pc = "acquired"
  BY DEF Locates, Remembers
<1>2. \A u \in EvalIds : Running(u)' => Running(u)
  BY <1>1 DEF Running, Ended
<1> QED
  BY <1>1, <1>2, QuietKept DEF QuietInv

LEMMA QuietStep == TaskInv /\ QuietInv /\ [Next]_vars => QuietInv'
<1> SUFFICES ASSUME TaskInv, QuietInv, [Next]_vars PROVE QuietInv'
  OBVIOUS
<1>0. TypeOK
  BY DEF TaskInv
<1>1. ASSUME UNCHANGED <<eval, caller>> PROVE QuietInv'
  BY <1>1 DEF QuietInv, Quiet, Running, Ended
<1>2. ASSUME NEW s \in Sessions, TurnSkipped(s) \/ TurnAdmitted(s) PROVE QuietInv'
  BY <1>2, TurnShapes, TurnStepQuiet
<1>3. ASSUME NEW s \in Sessions, TurnOverBudget(s) PROVE QuietInv'
  <2>1. /\ eval' = eval
        /\ \A c \in Callers : ~caller'[c].quiet \/ caller'[c] = caller[c]
    BY <1>0, <1>3, DisturbedShape DEF TurnOverBudget
  <2> QED
    BY <2>1, QuietKept DEF QuietInv, Quiet, Running, Ended
<1>4. ASSUME NEW t \in EvalIds, EvalStep(t) \/ Acquire(t) PROVE QuietInv'
  BY <1>4, TaskShapes, TaskStepQuiet
<1>5. ASSUME NEW t \in EvalIds, ThreadStep(t) PROVE QuietInv'
  BY <1>1, <1>5 DEF ThreadStep, ThreadFold, ThreadPersist, ThreadPersistFails
<1>6. ASSUME NEW s \in Sessions, TraceCompletes(s) PROVE QuietInv'
  BY <1>1, <1>6 DEF TraceCompletes
<1>7. ASSUME NEW c \in Callers, NEW s \in Sessions, Settle(c, s) PROVE QuietInv'
  BY <1>7, SettleQuiet
<1>8. ASSUME NEW c \in Callers, SettleJoins(c) \/ SettleTimesOut(c) PROVE QuietInv'
  BY <1>8, ReturnsQuiet
<1>9. ASSUME UNCHANGED vars PROVE QuietInv'
  BY <1>1, <1>9 DEF vars
<1>10. ASSUME NEW t \in EvalIds, Locate(t) PROVE QuietInv'
  BY <1>10, LocateShape, LocateQuiet
<1> QED
  BY <1>2, <1>3, <1>4, <1>5, <1>6, <1>7, <1>8, <1>9, <1>10 DEF Next

\* A settle() that returned without a time-out, and after which no turn of its session
\* ended, has nothing of that session left running, nor a notice being posted.
THEOREM SettledHasLanded == Spec => []SettledMeansLanded
<1>1. TaskInv /\ QuietInv => SettledMeansLanded
  BY DEF TaskInv, ThreadInv, QuietInv, Quiet, SettledMeansLanded, Running, Ended
<1>2. Spec => []QuietInv
  BY TaskInvariant, QuietInit, QuietStep, PTL DEF Spec
<1> QED
  BY <1>1, <1>2, TaskInvariant, PTL

-----------------------------------------------------------------------------
(* ReportedConditionsAreTold *)

\* Task t is on its way to post condition c of session s, or its thread is.
Carries(t, s, c) ==
  /\ eval[t].of = {s} /\ c \in eval[t].found
  /\ eval[t].pc \in {"dumping", "persisting"} \/ thread[t] = "persist"

Told(s, c) == c \in told[s] \cup lost[s] \/ \E t \in EvalIds : Carries(t, s, c)

\* A task that waits for its thread, and finds it done, has told what it found or
\* knows that it cannot.
Posted(t, s) ==
  Running(t) /\ eval[t].pc = "persisting" /\ thread[t] = "idle" /\ eval[t].of = {s} =>
    eval[t].found \cap notice[s].signatures \subseteq told[s] \cup lost[s]

ToldInv ==
  \A s \in Sessions : /\ \A c \in notice[s].signatures : Told(s, c)
                      /\ \A t \in EvalIds : Posted(t, s)

LEMMA ToldInit == Init => ToldInv
BY DEF Init, ToldInv, Told, Posted, NoNotice, NoTask, Running, Ended

\* Who carries a condition does so as long as nothing of it changes.
LEMMA CarriesKept ==
  ASSUME NEW t, NEW s, NEW c, Carries(t, s, c), eval'[t].of = eval[t].of,
         eval'[t].found = eval[t].found,
         \/ eval'[t].pc = eval[t].pc /\ thread'[t] = thread[t]
         \/ eval'[t].pc \in {"dumping", "persisting"} \/ thread'[t] = "persist"
  PROVE  Carries(t, s, c)'
BY DEF Carries

\* The conditions of the session s of a task that steps.
LEMMA TaskStepTold ==
  ASSUME TaskInv, ToldInv, NEW t \in EvalIds, NEW s \in Sessions, eval[t].of = {s},
         TaskShape(t, s), NEW c \in notice'[s].signatures
  PROVE  Told(s, c)'
<1>0. /\ thread \in [EvalIds -> {"idle", "fold", "persist"}]
      /\ notice \in [Sessions -> NoticeState] /\ told \in [Sessions -> SUBSET Conditions]
      /\ lost \in [Sessions -> SUBSET Conditions] /\ eval[t].found \in SUBSET Conditions
      /\ eval[t].cancel \in BOOLEAN
  BY DEF TaskInv, TypeOK, TaskState
<1>1. /\ Takes(t) /\ (Stays(t) \/ Leaves(t))
      /\ \A u \in EvalIds \ {t} : eval'[u] = eval[u] /\ thread'[u] = thread[u]
  BY TaskMoves DEF Takes
<1>2. /\ ~Ended(t) /\ eval'[t].of = {s}
      /\ thread[t] = "persist" => eval[t].pc = "persisting"
      /\ thread[t] = "fold" => eval[t].pc = "reporting"
  BY <1>1 DEF Takes, TaskInv, ThreadInv, Ended
<1>3. \A u \in EvalIds \ {t} : Carries(u, s, c) => Carries(u, s, c)'
  BY <1>1 DEF Carries
<1>4. ASSUME c \in notice[s].signatures, told[s] \subseteq told'[s], lost[s] \subseteq lost'[s],
             Carries(t, s, c) => Told(s, c)'
      PROVE  Told(s, c)'
  <2>1. Told(s, c)
    BY <1>4 DEF ToldInv
  <2> QED
    BY <1>3, <1>4, <2>1 DEF Told
<1>5. CASE Goes(t) \/ Lists(t, s) \/ Scores(t) \/ Reports(t)
  <2>1. notice' = notice /\ told' = told /\ lost' = lost
    BY <1>5 DEF Goes, Lists, Scores, Reports
  <2>2. ~Carries(t, s, c)
    BY <1>2, <1>5 DEF Goes, Lists, Scores, Reports, Carries
  <2> QED
    BY <1>4, <2>1, <2>2
<1>6. CASE Persists(t)
  <2>1. notice' = notice /\ told' = told /\ lost' = lost
    BY <1>6 DEF Persists
  <2>2. Carries(t, s, c) => Carries(t, s, c)'
    BY <1>1, <1>6, CarriesKept DEF Persists, Takes
  <2> QED
    BY <1>4, <2>1, <2>2 DEF Told
<1>7. CASE Recovers(t, s)
  BY <1>0, <1>7 DEF Recovers, NoNotice
<1>8. CASE Gates(t, s)
  <2>1. /\ notice'[s].signatures = eval[t].found
        /\ told'[s] = told[s] \cap eval[t].found /\ lost'[s] = lost[s] \cap eval[t].found
    BY <1>0, <1>8 DEF Gates, Gated
  <2>2. CASE eval'[t].pc = "dumping" /\ eval'[t].found = eval[t].found
    <3>1. Carries(t, s, c)'
      BY <1>2, <2>1, <2>2 DEF Carries
    <3> QED
      BY <3>1 DEF Told
  <2>3. CASE ~Due(s, eval[t].found)
    <3>1. c \in notice[s].signatures
      BY <2>1, <2>3 DEF Due
    <3>2. ~Carries(t, s, c)
      BY <1>2, <1>8 DEF Gates, Carries
    <3>3. Told(s, c)
      BY <3>1 DEF ToldInv
    <3> QED
      BY <1>3, <2>1, <3>2, <3>3 DEF Told
  <2> QED
    BY <1>8, <2>2, <2>3 DEF Gates
<1>9. CASE Stops(t, s)
  <2>0. /\ notice' = notice /\ told' = told /\ thread' = thread /\ Leaves(t)
        /\ c \in notice[s].signatures
    BY <1>9 DEF Stops
  <2>1. CASE lost' = [lost EXCEPT ![s] = @ \cup (eval[t].found \cap notice[s].signatures)]
    <3>1. lost'[s] = lost[s] \cup (eval[t].found \cap notice[s].signatures)
      BY <1>0, <2>1
    <3>2. Carries(t, s, c) => c \in lost'[s]
      BY <2>0, <3>1 DEF Carries
    <3> QED
      BY <1>4, <2>0, <3>1, <3>2 DEF Told
  <2>2. CASE /\ lost' = lost
             /\ eval[t].pc \in {"dumping", "persisting"} =>
                  eval[t].pc = "persisting" /\ (thread[t] = "idle" => ~eval[t].cancel)
    <3> SUFFICES ASSUME Carries(t, s, c) PROVE Told(s, c)'
      BY <1>4, <2>0, <2>2
    <3>1. eval[t].pc = "persisting" /\ (thread[t] = "idle" => ~eval[t].cancel)
      BY <1>2, <2>2 DEF Carries
    <3>2. CASE thread[t] = "idle"
      <4>1. c \in told[s] \cup lost[s]
        BY <1>2, <2>0, <3>1, <3>2 DEF ToldInv, Posted, Running, Carries
      <4> QED
        BY <2>0, <2>2, <4>1 DEF Told
    <3>3. CASE thread[t] # "idle"
      <4>1. thread'[t] = "persist" /\ eval'[t].found = eval[t].found
        BY <1>0, <1>2, <2>0, <3>1, <3>3 DEF Leaves
      <4>2. Carries(t, s, c)'
        BY <1>2, <4>1 DEF Carries
      <4> QED
        BY <4>2 DEF Told
    <3> QED
      BY <3>2, <3>3
  <2> QED
    BY <1>9, <2>1, <2>2 DEF Stops
<1> QED
  BY <1>5, <1>6, <1>7, <1>8, <1>9 DEF TaskShape

LEMMA TaskStepToldInv ==
  ASSUME TaskInv, ToldInv, NEW t \in EvalIds, NEW s \in Sessions, eval[t].of = {s},
         TaskShape(t, s)
  PROVE  ToldInv'
<1>0. /\ notice \in [Sessions -> NoticeState] /\ told \in [Sessions -> SUBSET Conditions]
      /\ lost \in [Sessions -> SUBSET Conditions] /\ Current
      /\ thread \in [EvalIds -> {"idle", "fold", "persist"}]
  BY CurrentIs DEF TaskInv, TypeOK
<1>1. /\ Takes(t) /\ (Stays(t) \/ Leaves(t))
      /\ \A u \in EvalIds \ {t} : eval'[u] = eval[u] /\ thread'[u] = thread[u]
      /\ \A u \in EvalIds \ {t} : Running(u)' <=> Running(u)
      /\ Leaves(t) => ~Running(t)'
      /\ eval'[t].of = {s}
  BY TaskMoves DEF Takes
<1>2. \A q \in Sessions \ {s} : notice'[q] = notice[q] /\ told'[q] = told[q] /\ lost'[q] = lost[q]
  BY <1>0 DEF TaskShape, Goes, Stops, Lists, Scores, Reports, Recovers, Gates, Persists
<1>3. ASSUME NEW q \in Sessions, NEW c \in notice'[q].signatures
      PROVE  Told(q, c)'
  <2>1. CASE q = s
    BY <1>3, <2>1, TaskStepTold
  <2>2. CASE q # s
    <3>1. Told(q, c)
      BY <1>2, <1>3, <2>2 DEF ToldInv
    <3>2. \A u \in EvalIds : Carries(u, q, c) => Carries(u, q, c)'
      BY <1>1, <2>2 DEF Carries
    <3> QED
      BY <1>2, <2>2, <3>1, <3>2 DEF Told
  <2> QED
    BY <2>1, <2>2
<1>4. ASSUME NEW q \in Sessions, NEW u \in EvalIds
      PROVE  Posted(u, q)'
  <2> SUFFICES ASSUME Running(u)', eval'[u].pc = "persisting", thread'[u] = "idle",
                      eval'[u].of = {q}
               PROVE  eval'[u].found \cap notice'[q].signatures \subseteq told'[q] \cup lost'[q]
    BY DEF Posted, Running, Ended
  <2>1. CASE u # t
    <3>1. /\ Running(u) /\ eval[u].pc = "persisting" /\ thread[u] = "idle" /\ eval[u].of = {q}
          /\ eval'[u].found = eval[u].found
      BY <1>1, <2>1
    <3>2. eval[u].found \cap notice[q].signatures \subseteq told[q] \cup lost[q]
      BY <3>1 DEF ToldInv, Posted
    <3>3. notice'[q] = notice[q] /\ told'[q] = told[q] /\ lost[q] \subseteq lost'[q]
      <4>1. CASE q # s
        BY <1>2, <4>1
      <4>2. CASE q = s
        <5>1. ~Running(t)
          BY <1>0, <2>1, <3>1, <4>2 DEF Current
        <5>2. ~Recovers(t, s) /\ ~Gates(t, s)
          BY <1>1, <5>1 DEF Recovers, Gates, Running, Takes
        <5>3. /\ notice' = notice /\ told' = told
              /\ \/ lost' = lost
                 \/ lost' = [lost EXCEPT ![s] = @ \cup (eval[t].found \cap notice[s].signatures)]
          BY <5>2 DEF TaskShape, Goes, Stops, Lists, Scores, Reports, Persists
        <5> QED
          BY <1>0, <5>3
      <4> QED
        BY <4>1, <4>2
    <3> QED
      BY <3>1, <3>2, <3>3
  <2>2. CASE u = t
    <3>1. ~Leaves(t)
      BY <1>1, <2>2
    <3>2. Persists(t)
      BY <2>2, <3>1 DEF TaskShape, Goes, Stops, Lists, Scores, Reports, Recovers, Gates
    <3> QED
      BY <1>0, <2>2, <3>2 DEF Persists
  <2> QED
    BY <2>1, <2>2
<1> QED
  BY <1>3, <1>4 DEF ToldInv

\* What a thread posts is told, and what it cannot post is lost; what it was carrying
\* no longer needs it.
LEMMA ThreadStepTold ==
  ASSUME TaskInv, ToldInv, NEW t \in EvalIds, ThreadStep(t)
  PROVE  ToldInv'
<1>0. /\ thread \in [EvalIds -> {"idle", "fold", "persist"}]
      /\ told \in [Sessions -> SUBSET Conditions] /\ lost \in [Sessions -> SUBSET Conditions]
      /\ eval[t].found \in SUBSET Conditions
  BY DEF TaskInv, TypeOK, TaskState
<1>1. PICK s \in Sessions :
        /\ eval[t].of = {s} /\ thread' = [thread EXCEPT ![t] = "idle"]
        /\ \/ thread[t] = "fold" /\ UNCHANGED <<told, lost>>
           \/ /\ thread[t] = "persist" /\ UNCHANGED lost
              /\ told' = [told EXCEPT ![s] = @ \cup (eval[t].found \cap notice[s].signatures)]
           \/ /\ thread[t] = "persist" /\ UNCHANGED told
              /\ lost' = [lost EXCEPT ![s] = @ \cup (eval[t].found \cap notice[s].signatures)]
        /\ UNCHANGED <<eval, notice>>
  BY ThreadShapes, Zenon
<1>2. \A u \in EvalIds \ {t} : thread'[u] = thread[u]
  BY <1>0, <1>1
<1>3. /\ \A q \in Sessions : told[q] \subseteq told'[q] /\ lost[q] \subseteq lost'[q]
      /\ thread[t] = "persist" =>
           eval[t].found \cap notice[s].signatures \subseteq told'[s] \cup lost'[s]
  BY <1>0, <1>1
<1>4. ASSUME NEW q \in Sessions, NEW c \in notice'[q].signatures
      PROVE  Told(q, c)'
  <2>1. Told(q, c)
    BY <1>1, <1>4 DEF ToldInv
  <2>2. ASSUME Carries(t, q, c) PROVE Told(q, c)'
    <3>1. CASE thread[t] = "fold"
      <4>1. eval[t].pc \notin {"dumping", "persisting"}
        BY <3>1 DEF TaskInv, ThreadInv
      <4> QED
        BY <2>2, <3>1, <4>1 DEF Carries
    <3>2. CASE thread[t] = "persist"
      <4>1. q = s /\ c \in eval[t].found \cap notice[s].signatures
        BY <1>1, <1>4, <2>2 DEF Carries
      <4>2. c \in told'[q] \cup lost'[q]
        BY <1>3, <3>2, <4>1
      <4> QED
        BY <4>2 DEF Told
    <3> QED
      BY <1>1, <3>1, <3>2
  <2>3. \A u \in EvalIds \ {t} : Carries(u, q, c) => Carries(u, q, c)'
    BY <1>1, <1>2 DEF Carries
  <2> QED
    BY <1>1, <1>3, <2>1, <2>2, <2>3 DEF Told
<1>5. ASSUME NEW q \in Sessions, NEW u \in EvalIds
      PROVE  Posted(u, q)'
  <2> SUFFICES ASSUME Running(u), eval[u].pc = "persisting", thread'[u] = "idle",
                      eval[u].of = {q}
               PROVE  eval[u].found \cap notice[q].signatures \subseteq told'[q] \cup lost'[q]
    BY <1>1 DEF Posted, Running, Ended
  <2>1. CASE thread[u] = "idle"
    BY <1>3, <2>1 DEF ToldInv, Posted
  <2>2. CASE thread[u] # "idle"
    <3>1. u = t
      BY <1>2, <2>2
    <3>2. q = s
      BY <1>1, <3>1
    <3>3. thread[t] = "persist"
      BY <1>1, <3>1 DEF TaskInv, ThreadInv
    <3> QED
      BY <1>3, <3>1, <3>2, <3>3
  <2> QED
    BY <2>1, <2>2
<1> QED
  BY <1>4, <1>5 DEF ToldInv

\* A turn drops the job of a task that still waits for it, or nobody's.
LEMMA TurnStepTold ==
  ASSUME TaskInv, ToldInv, NEW s \in Sessions, NEW out, Turns(s, out)
  PROVE  ToldInv'
<1>0. /\ thread \in [EvalIds -> {"idle", "fold", "persist"}] /\ Current
      /\ launched \in Nat /\ \A u \in EvalIds : eval[u].cancel \in BOOLEAN
  <2>1. /\ thread \in [EvalIds -> {"idle", "fold", "persist"}]
        /\ \A u \in EvalIds : eval[u].cancel \in BOOLEAN
    BY DEF TaskInv, TypeOK, TaskState
  <2>2. launched \in Nat
    BY LimitsArePositive DEF TaskInv, TypeOK
  <2> QED
    BY <2>1, <2>2, CurrentIs DEF TaskInv
<1>1. \A q \in Sessions :
        IF q \in out THEN notice'[q] = NoNotice
        ELSE notice'[q] = notice[q] /\ told'[q] = told[q] /\ lost'[q] = lost[q]
  BY DEF Turns, Forgotten
<1>2. ASSUME NEW u \in EvalIds
      PROVE  \/ /\ eval'[u].pc = eval[u].pc /\ eval'[u].of = eval[u].of
                /\ eval'[u].found = eval[u].found /\ (eval[u].cancel => eval'[u].cancel)
                /\ \/ thread'[u] = thread[u]
                   \/ u = pending[s] /\ thread'[u] = "idle" /\ eval'[u].cancel
             \/ /\ eval[u].pc = "unused" /\ thread[u] = "idle"
                /\ eval'[u].pc \in {"starting", "queued"}
  <2>1. CASE Skips(out)
    BY <2>1 DEF Skips, Remembers
  <2>2. CASE Admits(s, out)
    <3>1. CASE u = launched + 1
      <4>1. eval[u].pc = "unused" /\ thread[u] = "idle"
        BY <1>0, <3>1 DEF TaskInv, LaunchInv
      <4> QED
        BY <2>2, <3>1, <4>1 DEF Admits
    <3>2. CASE u # launched + 1
      <4>1. /\ Remembers(u, out) /\ eval'[u].cancel = (eval[u].cancel \/ u = pending[s])
            /\ thread'[u] = thread[u] \/ (u = pending[s] /\ thread'[u] = "idle")
        BY <2>2, <3>2 DEF Admits
      <4> QED
        BY <4>1 DEF Remembers
    <3> QED
      BY <3>1, <3>2
  <2> QED
    BY <2>1, <2>2 DEF Turns
<1>3. ASSUME NEW u \in EvalIds, NEW q \in Sessions, NEW c, Carries(u, q, c)
      PROVE  Carries(u, q, c)'
  <2>1. /\ eval'[u].pc = eval[u].pc /\ eval'[u].of = eval[u].of
        /\ eval'[u].found = eval[u].found
        /\ thread'[u] = thread[u] \/ u = pending[s]
    BY <1>2, <1>3 DEF Carries
  <2>2. CASE thread'[u] = thread[u]
    BY <1>3, <2>1, <2>2, CarriesKept
  <2>3. CASE u = pending[s]
    <3>1. Running(u)
      BY <1>0, <2>3 DEF Current, EvalIds, NoEval
    <3>2. eval[u].pc \in {"dumping", "persisting"}
      BY <1>3, <3>1 DEF Carries, TaskInv, ThreadInv, Running, Ended
    <3> QED
      BY <1>3, <2>1, <3>2, CarriesKept
  <2> QED
    BY <2>1, <2>2, <2>3
<1>4. ASSUME NEW q \in Sessions, NEW c \in notice'[q].signatures
      PROVE  Told(q, c)'
  <2>1. q \notin out
    BY <1>1, <1>4 DEF NoNotice
  <2>2. Told(q, c)
    BY <1>1, <1>4, <2>1 DEF ToldInv
  <2> QED
    BY <1>1, <1>3, <2>1, <2>2 DEF Told
<1>5. ASSUME NEW q \in Sessions, NEW u \in EvalIds
      PROVE  Posted(u, q)'
  <2> SUFFICES ASSUME Running(u)', eval'[u].pc = "persisting", thread'[u] = "idle",
                      eval'[u].of = {q}
               PROVE  eval'[u].found \cap notice'[q].signatures \subseteq told'[q] \cup lost'[q]
    BY DEF Posted, Running, Ended
  <2>1. /\ Running(u) /\ eval[u].pc = "persisting" /\ thread[u] = "idle" /\ eval[u].of = {q}
        /\ eval'[u].found = eval[u].found
    BY <1>2 DEF Running, Ended
  <2>2. CASE q \in out
    BY <1>1, <2>2 DEF NoNotice
  <2>3. CASE q \notin out
    BY <1>1, <2>1, <2>3 DEF ToldInv, Posted
  <2> QED
    BY <2>2, <2>3
<1> QED
  BY <1>4, <1>5 DEF ToldInv

LEMMA LocateTold ==
  ASSUME TaskInv, ToldInv, NEW t \in EvalIds, NEW out, Locates(t, out)
  PROVE  ToldInv'
<1>1. /\ notice' = notice /\ told' = told /\ lost' = lost /\ thread' = thread
      /\ \A u \in EvalIds : /\ eval'[u].of = eval[u].of /\ eval'[u].found = eval[u].found
                             /\ eval'[u].cancel = eval[u].cancel
      /\ \A u \in EvalIds \ {t} : eval'[u].pc = eval[u].pc
      /\ eval[t].pc = "acquired" /\ eval'[t].pc = "listing"
  BY DEF Locates, Remembers
<1>2. \A u \in EvalIds : \A q \in Sessions : \A c : Carries(u, q, c) => Carries(u, q, c)'
  BY <1>1 DEF Carries
<1>3. \A q \in Sessions : \A c \in notice'[q].signatures : Told(q, c)'
  BY <1>1, <1>2 DEF ToldInv, Told
<1>4. \A u \in EvalIds : \A q \in Sessions : Posted(u, q)'
  BY <1>1 DEF ToldInv, Posted, Running, Ended
<1> QED
  BY <1>3, <1>4 DEF ToldInv

LEMMA ToldStep == TaskInv /\ ToldInv /\ [Next]_vars => ToldInv'
<1> SUFFICES ASSUME TaskInv, ToldInv, [Next]_vars PROVE ToldInv'
  OBVIOUS
<1>1. ASSUME UNCHANGED <<eval, thread, notice, told, lost>> PROVE ToldInv'
  BY <1>1 DEF ToldInv, Told, Posted, Carries, Running, Ended
<1>2. ASSUME NEW s \in Sessions, TurnSkipped(s) \/ TurnAdmitted(s) PROVE ToldInv'
  BY <1>2, TurnShapes, TurnStepTold
<1>3. ASSUME NEW t \in EvalIds, EvalStep(t) \/ Acquire(t) PROVE ToldInv'
  BY <1>3, TaskShapes, TaskStepToldInv
<1>4. ASSUME NEW t \in EvalIds, ThreadStep(t) PROVE ToldInv'
  BY <1>4, ThreadStepTold
<1>5. ASSUME \/ \E s \in Sessions : TraceCompletes(s) \/ TurnOverBudget(s)
             \/ \E c \in Callers : \/ \E s \in Sessions : Settle(c, s)
                                   \/ SettleJoins(c) \/ SettleTimesOut(c)
             \/ UNCHANGED vars
      PROVE  UNCHANGED <<eval, thread, notice, told, lost>>
  BY <1>5 DEF TraceCompletes, TurnOverBudget, Settle, SettleJoins, SettleTimesOut, vars, history
<1>6. ASSUME NEW t \in EvalIds, Locate(t) PROVE ToldInv'
  BY <1>6, LocateShape, LocateTold
<1> QED
  BY <1>1, <1>2, <1>3, <1>4, <1>5, <1>6 DEF Next

\* A condition the notice gate takes for reported, and would stay silent about, is in a
\* posted notice or carried by a task or a thread on its way to post it, unless its
\* notice was superseded by a newer turn, suppressed by the circuit breaker, or could
\* not be built or written.
THEOREM ReportedIsTold == Spec => []ReportedConditionsAreTold
<1>1. ToldInv => ReportedConditionsAreTold
  BY DEF ToldInv, Told, Carries, ReportedConditionsAreTold
<1>2. Spec => []ToldInv
  BY TaskInvariant, ToldInit, ToldStep, PTL DEF Spec
<1> QED
  BY <1>1, <1>2, PTL

=============================================================================
