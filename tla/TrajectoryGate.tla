--------------------------- MODULE TrajectoryGate ---------------------------
(***************************************************************************)
(* One series of the trajectory gate, of one session and one Tier-1        *)
(* metric, from the completed traces to the report: the locator that       *)
(* delivers traces (evaluation/traces.py), the batch that scores them      *)
(* (MetricBatch), the gate (evaluation/trajectory.py) in its persistent    *)
(* store (evaluation/history.py), and the escalation (hook/tiers.py).      *)
(* Series are independent of each other: a store write holds the lock.     *)
(*                                                                         *)
(* A turn supersedes the evaluation of the turn before; the thread that    *)
(* folds for the older one is not stopped.  What says which traces were    *)
(* delivered is in memory, bounded, and dropped when turns of many other   *)
(* sessions evict this one; only the history file survives a restart.      *)
(***************************************************************************)
EXTENDS MetricBatch, Integers, Sequences, FiniteSetsExt, SequencesExt

CONSTANTS
  MaxTraces,   \* bound: traces of the session, numbered by their start
  MaxTurns,    \* bound: evaluations of the session
  ListLimit,   \* trace_list_limit
  SeenCap,     \* _MAX_SEEN_PER_SESSION
  Gain,        \* gate_gain
  Drop,        \* gate_drop
  Window,      \* gate_window
  Target,      \* gate_target
  Threshold    \* the breach threshold of the Tier-2 metric

ASSUME GateLimits ==
  /\ {MaxTraces, MaxTurns, Drop, Window, Target, Threshold} \subseteq Nat
  /\ {ListLimit, SeenCap, Gain} \subseteq Nat \ {0}

Traces == 1..MaxTraces
Turns == 1..MaxTurns

VARIABLES
  completed,  \* traces the platform has completed
  seen,       \* the locator's seen-set of the session
  delivered,  \* history: every trace that was ever delivered
  memory,     \* _data, the store's cache
  disk,       \* the history file
  eval,       \* eval[t]: the evaluation of turn t
  thread,     \* thread[t]: what t has handed to a worker thread to fold
  disturbed   \* history: a trace was delivered out of order, or next to a fold

gateVars == <<completed, seen, delivered, memory, disk, eval, thread, disturbed>>

\* An entry of the store.  Beside its value a sample records here which trace it
\* is of and what the gate made of it.
NoEntry == [peak |-> NoScore, turns |-> 0, series |-> <<>>]
Unloaded == [loaded |-> FALSE, entry |-> NoEntry]
Loaded(entry) == [loaded |-> TRUE, entry |-> entry]

NoEval == [pc |-> "unused", batch |-> NoBatch, fired |-> FALSE, breach |-> FALSE]
NoThread == [pc |-> "idle", todo |-> <<>>, fired |-> FALSE]

\* A seen-set: the ids in the order they were marked, and whether the locator has
\* dropped it while a listing still uses it.
NothingSeen == [ids |-> <<>>, orphan |-> FALSE]

Working == {"listing", "scoring", "folding", "escalating", "reporting"}

GateInit ==
  /\ completed = {}
  /\ seen = NothingSeen
  /\ delivered = {}
  /\ memory = Unloaded
  /\ disk = NoEntry
  /\ eval = [t \in Turns |-> NoEval]
  /\ thread = [t \in Turns |-> NoThread]
  /\ disturbed = FALSE

-----------------------------------------------------------------------------
(* The gate                                                                *)

\* Mistake: the counter goes on after a stall has fired.
DecideForEver(entry, value) ==
  LET gain == entry.peak = NoScore \/ value >= entry.peak + Gain
      turns == entry.turns + 1
      stalled == ~gain /\ turns >= (IF Window = 0 THEN 1 ELSE Window) /\ entry.peak < Target
      regressed == ~gain /\ value < entry.peak - Drop
  IN [peak |-> IF gain THEN value ELSE entry.peak, turns |-> IF gain THEN 0 ELSE turns,
      stalled |-> stalled, regressed |-> regressed]

\* Mistake: any rise counts as a gain, any fall as a new peak to climb from.
DecideByTrend(entry, value) ==
  LET turns == entry.turns + 1
      stalled == entry.peak # NoScore /\ turns >= Window /\ entry.peak < Target
  IN [peak |-> value, turns |-> IF stalled THEN 0 ELSE turns, stalled |-> stalled,
      regressed |-> value < entry.peak - Drop]

\* _decide(): a gain sets the peak and opens a new window; without one the window
\* may run out below the target, or the value fall too far below the peak.
Decide(entry, value) ==
  LET gain == entry.peak = NoScore \/ value >= entry.peak + Gain
      turns == entry.turns + 1
      stalled == ~gain /\ turns >= (IF Window = 0 THEN 1 ELSE Window) /\ entry.peak < Target
      regressed == ~gain /\ value < entry.peak - Drop
  IN [peak |-> IF gain THEN value ELSE entry.peak,
      turns |-> IF gain \/ stalled \/ regressed THEN 0 ELSE turns,
      stalled |-> stalled, regressed |-> regressed]

\* record_gated(): the sample and the gate's new state, in one entry.
Recorded(entry, sample) ==
  LET d == Decide(entry, sample.value)
  IN [peak |-> d.peak, turns |-> d.turns,
      series |-> Append(entry.series, [trace |-> sample.trace, value |-> sample.value,
                                       stalled |-> d.stalled, regressed |-> d.regressed])]

\* _load(): the cache, or the file for the first call of the process.
Current == IF memory.loaded THEN memory.entry ELSE disk

-----------------------------------------------------------------------------
(* The evaluation of a turn                                                *)

TraceCompletes(i) ==
  /\ i \notin completed
  /\ completed' = completed \cup {i}
  /\ UNCHANGED <<seen, delivered, memory, disk, eval, thread, disturbed>>

\* A turn supersedes the evaluation before it; a job of that one which is still
\* queued is dropped with it, or not.
Turn(t) ==
  /\ eval[t].pc = "unused" /\ \A u \in 1..(t - 1) : eval[u].pc # "unused"
  /\ eval' = [u \in Turns |->
       IF u = t THEN [NoEval EXCEPT !.pc = "listing"]
       ELSE IF eval[u].pc \in Working THEN [NoEval EXCEPT !.pc = "superseded"] ELSE eval[u]]
  /\ seen' = IF seen.orphan THEN NothingSeen ELSE seen
  /\ \/ thread' = thread
     \/ \E u \in 1..(t - 1) : thread[u].pc = "queued" /\ thread' = [thread EXCEPT ![u] = NoThread]
  /\ UNCHANGED <<completed, delivered, memory, disk, disturbed>>

\* forget(), or the locator's own eviction, for the sake of other sessions.  A
\* listing that has begun goes on with the seen-set it holds.
GateForget ==
  /\ ~seen.orphan
  /\ \/ seen' = NothingSeen
     \/ /\ \E t \in Turns : eval[t].pc = "listing"
        /\ seen' = [seen EXCEPT !.orphan = TRUE]
  /\ UNCHANGED <<completed, delivered, memory, disk, eval, thread, disturbed>>

\* Some traces, ordered by their start: the k-th has k - 1 before it.
InOrder(S) ==
  LET nth(k) == CHOOSE i \in S : Cardinality({j \in S : j < i}) = k - 1
  IN [k \in 1..Cardinality(S) |-> nth(k)]

\* Mistake: the traces are folded as the platform lists them, newest first.
NewestFirst(batch) ==
  LET D == DOMAIN batch.scores
      nth(k) == CHOOSE i \in D : Cardinality({j \in D : j > i}) = k - 1
  IN [k \in 1..Cardinality(D) |-> [trace |-> nth(k), value |-> batch.scores[nth(k)]]]

\* The scored traces, oldest first.
OldestFirst(batch) ==
  LET order == InOrder(DOMAIN batch.scores)
  IN [k \in DOMAIN order |-> [trace |-> order[k], value |-> batch.scores[order[k]]]]

\* The platform lists the latest ListLimit completed traces.
Listed == {i \in completed : Cardinality({j \in completed : j > i}) < ListLimit}

\* The ids that are kept, the latest marked.
Trimmed(ids) ==
  IF Len(ids) > SeenCap THEN SubSeq(ids, Len(ids) - SeenCap + 1, Len(ids)) ELSE ids

\* new_traces(): those of the listing that are not in the seen-set, which it marks;
\* none if the listing fails.
List(t) ==
  /\ eval[t].pc = "listing"
  /\ \E fresh \in {Listed \ ToSet(seen.ids), {}} :
       /\ seen' = IF seen.orphan THEN NothingSeen
                  ELSE [seen EXCEPT !.ids = Trimmed(@ \o InOrder(fresh))]
       /\ delivered' = delivered \cup fresh
       /\ eval' = [eval EXCEPT ![t].pc = IF fresh = {} THEN "reporting" ELSE "scoring",
                               ![t].batch = IF fresh = {} THEN NoBatch ELSE NewBatch(fresh)]
       /\ disturbed' = (\/ disturbed
                        \/ \E i \in fresh, j \in delivered : i <= j
                        \/ fresh # {} /\ \E u \in Turns : thread[u].pc \in {"queued", "fold"})
  /\ UNCHANGED <<completed, memory, disk, thread>>

\* _run_tier1(): once the batch is scored a thread folds it.
Score(t) ==
  /\ eval[t].pc = "scoring"
  /\ \E b \in NextBatches(eval[t].batch) :
       /\ eval' = [eval EXCEPT ![t] =
            CASE b.pc = "scored" -> [@ EXCEPT !.pc = "folding", !.batch = b]
              [] b.pc = "raised" -> [NoEval EXCEPT !.pc = "failed"]
              [] OTHER -> [@ EXCEPT !.batch = b]]
       /\ thread' = IF b.pc = "scored"
                    THEN [thread EXCEPT ![t] = [NoThread EXCEPT !.pc = "queued", !.todo = OldestFirst(b)]]
                    ELSE thread
  /\ UNCHANGED <<completed, seen, delivered, memory, disk, disturbed>>

\* What the thread leaves when a sample is done.
Folded(t, fired) ==
  LET rest == Tail(thread[t].todo)
  IN thread' = [thread EXCEPT ![t] =
       IF rest = <<>> /\ eval[t].pc # "folding" THEN NoThread
       ELSE [pc |-> IF rest = <<>> THEN "done" ELSE "fold", todo |-> rest,
             fired |-> thread[t].fired \/ fired]]

\* apply_all() passes a pending score through and leaves the series alone.
FoldPending(t) ==
  /\ thread[t].pc \in {"queued", "fold"}
  /\ Head(thread[t].todo).value = NoScore
  /\ Folded(t, FALSE)
  /\ UNCHANGED <<completed, seen, delivered, memory, disk, eval, disturbed>>

\* One trace: the cache is changed in place, then the file is replaced.
FoldTrace(t) ==
  /\ thread[t].pc \in {"queued", "fold"}
  /\ Head(thread[t].todo).value # NoScore
  /\ LET entry == Recorded(Current, Head(thread[t].todo))
     IN /\ memory' = Loaded(entry)
        /\ disk' = entry
        /\ Folded(t, Last(entry.series).stalled \/ Last(entry.series).regressed)
  /\ UNCHANGED <<completed, seen, delivered, eval, disturbed>>

\* Writing the file fails: the cache keeps the sample, the job and the evaluation
\* end with the exception.
FoldFails(t) ==
  /\ thread[t].pc \in {"queued", "fold"}
  /\ Head(thread[t].todo).value # NoScore
  /\ memory' = Loaded(Recorded(Current, Head(thread[t].todo)))
  /\ thread' = [thread EXCEPT ![t] = NoThread]
  /\ eval' = [eval EXCEPT ![t] =
       IF @.pc = "folding" THEN [NoEval EXCEPT !.pc = "failed"] ELSE @]
  /\ UNCHANGED <<completed, seen, delivered, disk, disturbed>>

\* The gate has fired on one of the traces: Tier 2 scores the last of them.
FoldReturns(t) ==
  /\ eval[t].pc = "folding"
  /\ thread[t].pc = "done"
  /\ eval' = [eval EXCEPT ![t] =
       IF thread[t].fired
       THEN [@ EXCEPT !.pc = "escalating", !.fired = TRUE,
                      !.batch = NewBatch({Max(DOMAIN eval[t].batch.scores)})]
       ELSE [@ EXCEPT !.pc = "reporting", !.batch = NoBatch]]
  /\ thread' = [thread EXCEPT ![t] = NoThread]
  /\ UNCHANGED <<completed, seen, delivered, memory, disk, disturbed>>

\* MetricScore.breached: a score below its threshold; a pending one is never below.
Breached(batch) == \E i \in DOMAIN batch.scores : batch.scores[i] \in 1..(Threshold - 1)

\* _escalate(): Tier 2, and Tier 3 after a breach.
Escalate(t) ==
  /\ eval[t].pc = "escalating"
  /\ \E b \in NextBatches(eval[t].batch) :
       eval' = [eval EXCEPT ![t] =
         CASE b.pc = "raised" -> [NoEval EXCEPT !.pc = "failed"]
           [] b.pc = "scored" /\ Breached(b) /\ ~@.breach ->
                [@ EXCEPT !.breach = TRUE, !.batch = NewBatch(DOMAIN b.scores)]
           [] b.pc = "scored" /\ (@.breach \/ ~Breached(b)) ->
                [@ EXCEPT !.pc = "reporting", !.batch = NoBatch]
           [] OTHER -> [@ EXCEPT !.batch = b]]
  /\ UNCHANGED <<completed, seen, delivered, memory, disk, thread, disturbed>>

\* The report is complete; the developer's verifier may have found a breach.
Report(t) ==
  /\ eval[t].pc = "reporting"
  /\ \E outcome \in BOOLEAN :
       eval' = [eval EXCEPT ![t].pc = "reported", ![t].breach = @ \/ outcome]
  /\ UNCHANGED <<completed, seen, delivered, memory, disk, thread, disturbed>>

\* The process dies: the file survives.
GateRestart ==
  /\ seen' = NothingSeen
  /\ memory' = Unloaded
  /\ eval' = [t \in Turns |->
       IF eval[t].pc = "unused" THEN NoEval ELSE [NoEval EXCEPT !.pc = "dead"]]
  /\ thread' = [t \in Turns |-> NoThread]
  /\ UNCHANGED <<completed, delivered, disk, disturbed>>

GateStep(t) ==
  \/ List(t) \/ Score(t) \/ FoldReturns(t) \/ Escalate(t) \/ Report(t)
  \/ FoldPending(t) \/ FoldTrace(t) \/ FoldFails(t)

GateNext ==
  \/ \E i \in Traces : TraceCompletes(i)
  \/ \E t \in Turns : Turn(t) \/ GateStep(t)
  \/ GateForget
  \/ GateRestart

GateSpec == GateInit /\ [][GateNext]_gateVars

-----------------------------------------------------------------------------
(* Properties *)

GateSample == [trace : Traces, value : Scores, stalled : BOOLEAN, regressed : BOOLEAN]
Entry == [peak : Scores \cup {NoScore}, turns : Nat, series : Seq(GateSample)]

\* Every variable keeps its shape.
GateTypeOK ==
  /\ completed \in SUBSET Traces
  /\ seen \in [ids : Seq(Traces), orphan : BOOLEAN]
  /\ delivered \in SUBSET Traces
  /\ memory \in [loaded : BOOLEAN, entry : Entry]
  /\ disk \in Entry
  /\ eval \in [Turns ->
       [pc : Working \cup {"unused", "superseded", "failed", "reported", "dead"},
        batch : Batch(Traces), fired : BOOLEAN, breach : BOOLEAN]]
  /\ thread \in [Turns ->
       [pc : {"idle", "queued", "fold", "done"},
        todo : Seq([trace : Traces, value : Scores \cup {NoScore}]), fired : BOOLEAN]]
  /\ disturbed \in BOOLEAN

Entries == {memory.entry, disk}

\* The peak is the high-water mark of what was folded, up to gains too small to
\* count: whatever fires, whichever write fails and whenever the process dies,
\* it is neither lost nor raised past what was ever scored.
PeakTracksBest ==
  \A e \in Entries : \A k \in DOMAIN e.series :
    /\ e.series[k].value < e.peak + Gain
    /\ \E j \in DOMAIN e.series : e.series[j].value = e.peak

\* evaluation/trajectory.py:19: "one stall does not re-fire on every subsequent
\* trace".  Two stalls of a series are a whole window of traces apart, across
\* regressions, failing writes and restarts.
StallsSpaced ==
  \A e \in Entries : \A j, k \in DOMAIN e.series :
    j < k /\ e.series[j].stalled /\ e.series[k].stalled => k - j >= Window

\* The scores of the traces rise from each to the next by a gain.
Climbing(series) ==
  \A j, k \in DOMAIN series :
    /\ series[j].trace < series[k].trace => series[k].value >= series[j].value + Gain
    /\ series[j].trace = series[k].trace => series[k].value = series[j].value

\* evaluation/trajectory.py:16: "a healthy climbing session never breaches
\* however long it runs".  It does not as long as every listing delivers traces that
\* started after all delivered before, and none is being folded meanwhile: a restart,
\* an eviction and a trimmed seen-set do no harm before they deliver a trace again.
ClimbFiresOnlyDisturbed ==
  \A e \in Entries :
    Climbing(e.series) /\ ~disturbed =>
      \A k \in DOMAIN e.series : ~e.series[k].stalled /\ ~e.series[k].regressed
=============================================================================
