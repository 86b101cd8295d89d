------------------------ MODULE TrajectoryGateProofs ------------------------
(***************************************************************************)
(* The trajectory gate, proved for any number of turns and traces, any     *)
(* window, gain and drop: what a series remembers of its scores, how far   *)
(* apart its stalls are, and that a climbing session does not fire while   *)
(* its traces enter the gate in order.                                     *)
(***************************************************************************)
EXTENDS TrajectoryGate, MetricBatchProofs

EvalState ==
  [pc : Working \cup {"unused", "superseded", "failed", "reported", "dead"},
   batch : Batch(Traces), fired : BOOLEAN, breach : BOOLEAN]
TraceScore == [trace : Traces, value : Scores \cup {NoScore}]
SeenState == [ids : Seq(Traces), orphan : BOOLEAN]
ThreadState == [pc : {"idle", "queued", "fold", "done"}, todo : Seq(TraceScore), fired : BOOLEAN]

-----------------------------------------------------------------------------
(* Operators                                                               *)

LEMMA TraceNumbers == Traces \subseteq Nat /\ IsFiniteSet(Traces)
<1>1. MaxTraces \in Nat
  BY GateLimits
<1> QED
  BY <1>1, FS_Interval DEF Traces

\* The latest of some traces is one of them.
LEMMA LatestIsOne ==
  ASSUME NEW S \in SUBSET Traces, S # {}
  PROVE  Max(S) \in S
<1> DEFINE T == {MaxTraces - i : i \in S}
<1>1. MaxTraces \in Nat /\ \A i \in S : i \in Nat /\ i <= MaxTraces
  BY GateLimits DEF Traces
<1>2. T \in SUBSET Nat /\ T # {}
  BY <1>1
<1>3. PICK least \in T : \A q \in T : least <= q
  BY <1>2, LeastNatural
<1>4. PICK i \in S : least = MaxTraces - i
  BY <1>3
<1>5. \A j \in S : MaxTraces - i <= MaxTraces - j
  BY <1>3, <1>4
<1>6. \A j \in S : i >= j
  BY <1>1, <1>5
<1> QED
  BY <1>6, Zenon DEF Max

\* The order of a set of traces: each of them once, from the earliest on.
LEMMA InOrderAscends ==
  ASSUME NEW S \in SUBSET Traces
  PROVE  /\ InOrder(S) \in [1..Cardinality(S) -> S] /\ Cardinality(S) \in Nat
         /\ \A j, k \in 1..Cardinality(S) : j < k => InOrder(S)[j] < InOrder(S)[k]
<1> DEFINE key == [i \in S |-> i]
           older(i) == Cardinality({j \in S : j < i})
           nth(k) == CHOOSE i \in S : older(i) = k - 1
           n == Cardinality(S)
<1>2. IsFiniteSet(S) /\ n \in Nat /\ S \subseteq Nat
  BY TraceNumbers, FS_Subset, FS_CardinalityType
<1>3. /\ key \in [S -> Int] /\ \A i \in S : key[i] = i
      /\ \A i, j \in S : key[i] = key[j] => i = j
  BY <1>2
<1>4. \A i \in S : Rank(S, key, i) = older(i) + 1
  BY DEF Rank, Before
<1>5. \A i \in S : older(i) \in Nat
  <2> TAKE i \in S
  <2>1. {j \in S : j < i} \in SUBSET S
    OBVIOUS
  <2> QED
    BY <1>2, <2>1, FS_Subset, FS_CardinalityType
<1>6. InOrder(S) = [k \in 1..n |-> nth(k)]
  BY DEF InOrder
<1> HIDE DEF older, key
<1>7. \A k \in 1..n : nth(k) \in S /\ Rank(S, key, nth(k)) = k
  <2> TAKE k \in 1..n
  <2>0. IsFiniteSet(S) /\ k \in 1..Cardinality(S)
    BY <1>2
  <2> HIDE DEF n
  <2>1. PICK i \in S : Rank(S, key, i) = k
    BY <1>3, <2>0, EveryRankIsTaken
  <2>2. older(i) \in Nat /\ k = older(i) + 1
    BY <1>4, <1>5, <2>1
  <2>3. older(i) = k - 1
    BY <2>2
  <2>4. nth(k) \in S /\ older(nth(k)) = k - 1
    BY <2>3
  <2>5. older(nth(k)) + 1 = k
    BY <1>2, <2>4
  <2> QED
    BY <1>4, <2>4, <2>5
<1>8. ASSUME NEW j \in 1..n, NEW k \in 1..n, j < k
      PROVE  nth(j) < nth(k)
  <2>1. key[nth(j)] < key[nth(k)] <=> Rank(S, key, nth(j)) < Rank(S, key, nth(k))
    BY <1>2, <1>3, <1>7, RankOrder
  <2> QED
    BY <1>3, <1>7, <1>8, <2>1
<1> HIDE DEF nth
<1> QED
  BY <1>2, <1>6, <1>7, <1>8

Ascending(s) == \A j, k \in DOMAIN s : j < k => s[j].trace < s[k].trace

\* The scores of a batch reach the gate oldest first, each trace once.
LEMMA OldestFirstAscends ==
  ASSUME NEW b \in Batch(Traces), DOMAIN b.scores # {}
  PROVE  /\ OldestFirst(b) \in Seq(TraceScore) /\ OldestFirst(b) # <<>>
         /\ Ascending(OldestFirst(b))
         /\ \A k \in DOMAIN OldestFirst(b) : OldestFirst(b)[k].trace \in DOMAIN b.scores
<1> DEFINE D == DOMAIN b.scores
           n == Cardinality(D)
           order == InOrder(D)
<1>1. D \in SUBSET Traces /\ b.scores \in [D -> Scores \cup {NoScore}]
  BY DEF Batch
<1>2. /\ order \in [1..n -> D] /\ n \in Nat
      /\ \A j, k \in 1..n : j < k => order[j] < order[k]
  BY <1>1, InOrderAscends
<1>3. n # 0
  BY <1>1, TraceNumbers, FS_Subset, FS_EmptySet
<1>4. OldestFirst(b) = [k \in DOMAIN order |-> [trace |-> order[k], value |-> b.scores[order[k]]]]
  BY DEF OldestFirst
<1> HIDE DEF n, order
<1>5. \A k \in 1..n : [trace |-> order[k], value |-> b.scores[order[k]]] \in TraceScore
  BY <1>1, <1>2 DEF TraceScore
<1> HIDE DEF D
<1>6. OldestFirst(b) \in Seq(TraceScore) /\ DOMAIN OldestFirst(b) = 1..n /\ 1 \in 1..n
  BY <1>2, <1>3, <1>4, <1>5
<1>7. \A k \in 1..n : OldestFirst(b)[k].trace = order[k]
  BY <1>2, <1>4
<1>8. \A k \in DOMAIN OldestFirst(b) : OldestFirst(b)[k].trace \in D
  BY <1>2, <1>6, <1>7
<1>9. Ascending(OldestFirst(b))
  BY <1>2, <1>6, <1>7 DEF Ascending
<1>10. OldestFirst(b) # <<>>
  <2>1. \A q \in Seq(TraceScore) : 1 \in DOMAIN q => q # <<>>
    OBVIOUS
  <2> QED
    BY <1>6, <2>1, Zenon
<1> QED
  BY <1>6, <1>8, <1>9, <1>10 DEF D

\* The ids that a listing marks, and those that are kept.
LEMMA MarkedType ==
  ASSUME NEW ids \in Seq(Traces), NEW S \in SUBSET Traces
  PROVE  Trimmed(ids \o InOrder(S)) \in Seq(Traces)
<1> DEFINE more == InOrder(S)
           all == ids \o more
<1>1. more \in Seq(Traces)
  BY InOrderAscends
<1> HIDE DEF more
<1>2. all \in Seq(Traces) /\ Len(all) \in Nat
  BY <1>1
<1>3. SeenCap \in Nat \ {0}
  BY GateLimits
<1> HIDE DEF all
<1>4. Len(all) > SeenCap => SubSeq(all, Len(all) - SeenCap + 1, Len(all)) \in Seq(Traces)
  BY <1>2, <1>3
<1>5. Trimmed(all) \in Seq(Traces)
  BY <1>2, <1>4 DEF Trimmed
<1> QED
  BY <1>5 DEF all, more

-----------------------------------------------------------------------------
(* One entry                                                               *)

\* r is e with the sample appended, n being the traces e had; gain says whether
\* the sample's value is a new peak.
OneMore(e, sample, r, n, gain) ==
  /\ r \in Entry /\ Len(r.series) = n + 1
  /\ \A k \in 1..n : r.series[k] = e.series[k]
  /\ r.series[n + 1].trace = sample.trace
  /\ r.series[n + 1].value = sample.value
  /\ gain => /\ r.peak = sample.value /\ r.turns = 0
             /\ ~r.series[n + 1].stalled
             /\ ~r.series[n + 1].regressed
  /\ ~gain => /\ r.peak = e.peak
              /\ \/ r.turns = 0
                 \/ r.turns = e.turns + 1 /\ ~r.series[n + 1].stalled
              /\ r.series[n + 1].stalled => e.turns + 1 >= Window

\* What record_gated() makes of an entry.
LEMMA RecordedIs ==
  ASSUME NEW e \in Entry, NEW sample \in TraceScore, sample.value # NoScore,
         NEW r, r = Recorded(e, sample),
         NEW gain, gain = (e.peak = NoScore \/ sample.value >= e.peak + Gain)
  PROVE  OneMore(e, sample, r, Len(e.series), gain)
<1> DEFINE turns == e.turns + 1
           stalled == ~gain /\ turns >= (IF Window = 0 THEN 1 ELSE Window) /\ e.peak < Target
           regressed == ~gain /\ sample.value < e.peak - Drop
           new == [trace |-> sample.trace, value |-> sample.value,
                   stalled |-> stalled, regressed |-> regressed]
           d == Decide(e, sample.value)
<1>0. /\ e.peak \in Scores \cup {NoScore} /\ e.turns \in Nat /\ e.series \in Seq(GateSample)
      /\ sample.trace \in Traces /\ sample.value \in Scores
      /\ Window \in Nat /\ Gain \in Nat /\ TopScore \in Nat
  BY GateLimits, BatchLimits DEF Entry, TraceScore
<1>1. /\ d.peak = IF gain THEN sample.value ELSE e.peak
      /\ d.turns = IF gain \/ stalled \/ regressed THEN 0 ELSE turns
      /\ d.stalled = stalled /\ d.regressed = regressed
  BY DEF Decide
<1>2. r = [peak |-> d.peak, turns |-> d.turns,
           series |-> Append(e.series, [trace |-> sample.trace, value |-> sample.value,
                                        stalled |-> d.stalled, regressed |-> d.regressed])]
  BY Zenon DEF Recorded
<1>3. /\ r = [peak |-> d.peak, turns |-> d.turns, series |-> Append(e.series, new)]
  BY <1>1, <1>2
<1>4. new \in GateSample /\ new.trace = sample.trace /\ new.value = sample.value
      /\ new.stalled = stalled /\ new.regressed = regressed
  <2>1. stalled \in BOOLEAN /\ regressed \in BOOLEAN
    OBVIOUS
  <2> HIDE DEF stalled, regressed
  <2> QED
    BY <1>0, <2>1 DEF GateSample
<1> HIDE DEF new, d
<1>5. /\ Append(e.series, new) \in Seq(GateSample)
      /\ Len(Append(e.series, new)) = Len(e.series) + 1
      /\ \A k \in 1..Len(e.series) : Append(e.series, new)[k] = e.series[k]
      /\ Append(e.series, new)[Len(e.series) + 1] = new
  BY <1>0, <1>4
<1>6. d.peak \in Scores \cup {NoScore} /\ d.turns \in Nat
  BY <1>0, <1>1
<1>7. r \in Entry
  BY <1>3, <1>5, <1>6 DEF Entry
<1>8. r.peak = d.peak /\ r.turns = d.turns /\ r.series = Append(e.series, new)
  BY <1>3
<1>9. gain => d.peak = sample.value /\ d.turns = 0 /\ ~stalled /\ ~regressed
  BY <1>1
<1>10. ~gain => d.peak = e.peak /\ (d.turns = 0 \/ (d.turns = turns /\ ~stalled))
  BY <1>1
<1>11. stalled => e.turns + 1 >= Window
  BY <1>0
<1> HIDE DEF stalled, regressed
<1> QED
  BY <1>4, <1>5, <1>7, <1>8, <1>9, <1>10, <1>11 DEF OneMore

LEMMA RecordedAdds ==
  ASSUME NEW e \in Entry, NEW sample \in TraceScore, sample.value # NoScore,
         NEW r, r = Recorded(e, sample), NEW n, n = Len(e.series)
  PROVE  /\ r \in Entry /\ Len(r.series) = n + 1
         /\ \A k \in 1..n : r.series[k] = e.series[k]
         /\ r.series[n + 1].trace = sample.trace
<1>1. PICK gain : gain = (e.peak = NoScore \/ sample.value >= e.peak + Gain)
  OBVIOUS
<1>2. OneMore(e, sample, r, n, gain)
  BY <1>1, RecordedIs, Zenon
<1> QED
  BY <1>2 DEF OneMore

\* The peak, and how long ago the last stall was: a stall closes its window, and
\* the traces since are at least as many as the open window has counted.
EntryInv(e) ==
  /\ e.peak = NoScore <=> e.series = <<>>
  /\ \A k \in DOMAIN e.series :
       /\ e.series[k].value < e.peak + Gain
       /\ e.series[k].stalled => e.turns <= Len(e.series) - k
  /\ e.series # <<>> => \E j \in DOMAIN e.series : e.series[j].value = e.peak
  /\ \A j, k \in DOMAIN e.series :
       j < k /\ e.series[j].stalled /\ e.series[k].stalled => k - j >= Window

\* A series that has climbed in order has its last value for a peak.
ClimbInv(e) ==
  Ascending(e.series) /\ Climbing(e.series) =>
    /\ e.series # <<>> => e.peak = e.series[Len(e.series)].value
    /\ \A k \in DOMAIN e.series : ~e.series[k].stalled /\ ~e.series[k].regressed

LEMMA NoEntryKeeps == NoEntry \in Entry /\ EntryInv(NoEntry) /\ ClimbInv(NoEntry)
<1>1. NoEntry.peak = NoScore /\ NoEntry.turns = 0 /\ NoEntry.series = <<>>
  BY DEF NoEntry
<1>2. NoEntry \in Entry
  BY DEF NoEntry, Entry
<1> QED
  BY <1>1, <1>2 DEF EntryInv, ClimbInv

LEMMA RecordedKeeps ==
  ASSUME NEW e \in Entry, NEW sample \in TraceScore, sample.value # NoScore, EntryInv(e), ClimbInv(e)
  PROVE  LET r == Recorded(e, sample) IN r \in Entry /\ EntryInv(r) /\ ClimbInv(r)
<1> DEFINE r == Recorded(e, sample)
           n == Len(e.series)
           gain == e.peak = NoScore \/ sample.value >= e.peak + Gain
<1>0. r = Recorded(e, sample) /\ gain = (e.peak = NoScore \/ sample.value >= e.peak + Gain)
  OBVIOUS
<1> HIDE DEF r, gain
<1>1. OneMore(e, sample, r, n, gain)
  BY <1>0, RecordedIs, Zenon
<1>2. /\ e.peak \in Scores \cup {NoScore} /\ e.turns \in Nat /\ e.series \in Seq(GateSample)
      /\ sample.trace \in Traces /\ sample.value \in Scores
      /\ Window \in Nat /\ Gain \in Nat \ {0} /\ TopScore \in Nat /\ n \in Nat
      /\ e.peak \in Nat /\ sample.value \in Nat \ {0}
  <2>1. /\ e.peak \in Scores \cup {NoScore} /\ e.turns \in Nat /\ e.series \in Seq(GateSample)
        /\ sample.trace \in Traces /\ sample.value \in Scores
        /\ Window \in Nat /\ Gain \in Nat \ {0} /\ TopScore \in Nat
    BY GateLimits, BatchLimits DEF Entry, TraceScore
  <2> QED
    BY <2>1 DEF Scores, NoScore
<1> HIDE DEF n
<1> USE DEF gain, OneMore
<1>3. /\ r.series \in Seq(GateSample) /\ DOMAIN r.series = 1..(n + 1) /\ DOMAIN e.series = 1..n
      /\ r.series # <<>> /\ n + 1 \in DOMAIN r.series
  BY <1>1, <1>2 DEF Entry, n
<1>4. \A k \in 1..n : e.series[k].value \in Nat
  <2>1. \A k \in 1..n : e.series[k] \in GateSample
    BY <1>2, <1>3
  <2>2. Scores \subseteq Nat
    BY <1>2 DEF Scores
  <2> QED
    BY <2>1, <2>2 DEF GateSample
<1>5. \A k \in 1..(n + 1) : k \in 1..n \/ k = n + 1
  BY <1>2
<1>6. r.peak \in Nat /\ (r.peak = NoScore <=> r.series = <<>>)
  <2>1. r.peak # 0 /\ r.peak \in Nat
    BY <1>1, <1>2 DEF NoScore
  <2> QED
    BY <1>3, <2>1 DEF NoScore
<1>7. \A k \in 1..(n + 1) : r.series[k].value < r.peak + Gain
  <2>1. \A k \in 1..n : e.series[k].value < e.peak + Gain
    BY <1>3 DEF EntryInv
  <2>2. \A k \in 1..n : e.series[k].value < r.peak + Gain
    <3>1. CASE gain /\ e.peak = NoScore
      <4>1. n = 0
        BY <1>2, <3>1 DEF EntryInv, n
      <4> QED
        BY <4>1
    <3>2. CASE gain /\ e.peak # NoScore
      <4>1. r.peak \in Nat /\ r.peak >= e.peak + Gain
        BY <1>1, <1>2, <3>2
      <4> QED
        BY <1>2, <1>4, <2>1, <4>1
    <3>3. CASE ~gain
      BY <1>1, <2>1, <3>3
    <3> QED
      BY <3>1, <3>2, <3>3
  <2>3. r.series[n + 1].value < r.peak + Gain
    <3>1. CASE gain
      BY <1>1, <1>2, <3>1
    <3>2. CASE ~gain
      BY <1>1, <1>2, <3>2
    <3> QED
      BY <3>1, <3>2
  <2> QED
    BY <1>1, <1>5, <2>2, <2>3
<1>8. \A k \in 1..(n + 1) : r.series[k].stalled => r.turns <= (n + 1) - k
  <2> SUFFICES ASSUME NEW k \in 1..(n + 1), r.series[k].stalled PROVE r.turns <= (n + 1) - k
    OBVIOUS
  <2>1. CASE r.turns = 0
    BY <1>2, <2>1
  <2>2. CASE r.turns # 0
    <3>1. r.turns = e.turns + 1 /\ ~r.series[n + 1].stalled
      BY <1>1, <2>2
    <3>2. k \in 1..n /\ e.series[k].stalled
      BY <1>1, <1>5, <3>1
    <3>3. e.turns <= n - k
      BY <1>3, <3>2 DEF EntryInv, n
    <3> QED
      BY <1>2, <3>1, <3>2, <3>3
  <2> QED
    BY <2>1, <2>2
<1>9. \E j \in 1..(n + 1) : r.series[j].value = r.peak
  <2>1. CASE gain
    BY <1>1, <1>3, <2>1
  <2>2. CASE ~gain
    <3>1. e.series # <<>>
      BY <2>2 DEF EntryInv
    <3>2. PICK j \in 1..n : e.series[j].value = e.peak
      BY <1>3, <3>1 DEF EntryInv
    <3>3. j \in 1..(n + 1) /\ r.series[j].value = r.peak
      BY <1>1, <1>2, <2>2, <3>2
    <3> QED
      BY <3>3
  <2> QED
    BY <2>1, <2>2
<1>10. \A j, k \in 1..(n + 1) : j < k /\ r.series[j].stalled /\ r.series[k].stalled => k - j >= Window
  <2> SUFFICES ASSUME NEW j \in 1..(n + 1), NEW k \in 1..(n + 1),
                      j < k, r.series[j].stalled, r.series[k].stalled
               PROVE  k - j >= Window
    OBVIOUS
  <2>0. j \in 1..n
    BY <1>2
  <2>1. j \in 1..n /\ e.series[j].stalled
    BY <1>1, <2>0
  <2>2. CASE k \in 1..n
    BY <1>1, <1>3, <2>1, <2>2 DEF EntryInv
  <2>3. CASE k = n + 1
    <3>1. e.turns + 1 >= Window
      BY <1>1, <2>3
    <3>2. e.turns <= n - j
      BY <1>3, <2>1 DEF EntryInv, n
    <3> QED
      BY <1>2, <2>1, <2>3, <3>1, <3>2
  <2> QED
    BY <1>5, <2>2, <2>3
<1>11. EntryInv(r)
  BY <1>1, <1>3, <1>6, <1>7, <1>8, <1>9, <1>10 DEF EntryInv
<1>12. ClimbInv(r)
  <2> SUFFICES ASSUME Ascending(r.series), Climbing(r.series)
               PROVE  /\ r.peak = r.series[n + 1].value
                      /\ \A k \in 1..(n + 1) : ~r.series[k].stalled /\ ~r.series[k].regressed
    BY <1>1, <1>3 DEF ClimbInv
  <2>1. /\ \A j, k \in 1..n : j \in DOMAIN r.series /\ k \in DOMAIN r.series
        /\ \A j \in 1..n : r.series[j] = e.series[j]
    BY <1>1, <1>2, <1>3
  <2>2. Ascending(e.series)
    BY <1>3, <2>1 DEF Ascending
  <2>3. Climbing(e.series)
    BY <1>3, <2>1 DEF Climbing
  <2>4. /\ e.series # <<>> => e.peak = e.series[n].value
        /\ \A k \in 1..n : ~e.series[k].stalled /\ ~e.series[k].regressed
    BY <1>3, <2>2, <2>3 DEF ClimbInv, n
  <2>5. gain
    <3>1. CASE e.series = <<>>
      BY <3>1 DEF EntryInv
    <3>2. CASE e.series # <<>>
      <4>1. n \in 1..n /\ n \in DOMAIN r.series /\ n + 1 \in DOMAIN r.series /\ n < n + 1
        BY <1>2, <1>3, <3>2 DEF n
      <4>2. r.series[n].trace < r.series[n + 1].trace
        BY <4>1 DEF Ascending
      <4>3. r.series[n + 1].value >= r.series[n].value + Gain
        BY <4>1, <4>2 DEF Climbing
      <4> QED
        BY <1>1, <2>4, <3>2, <4>1, <4>3
    <3> QED
      BY <3>1, <3>2
  <2> QED
    BY <1>1, <1>5, <2>4, <2>5
<1> QED
  BY <1>1, <1>11, <1>12 DEF r

-----------------------------------------------------------------------------
(* The inductive invariant                                                 *)

Active(t) == thread[t].pc \in {"queued", "fold"}
Listing(t) == eval[t].pc \in {"listing", "scoring"}
Batched(t) == eval[t].pc \in {"scoring", "folding", "escalating"}

\* One evaluation lists or scores at a time: the next one supersedes it.
WorkInv ==
  /\ \A t, u \in Turns : Listing(t) /\ Listing(u) => t = u
  /\ \A t \in Turns : Batched(t) => DOMAIN eval[t].batch.scores # {}
  /\ \A t \in Turns : Active(t) => thread[t].todo # <<>>

SeriesInv == \A e \in Entries : EntryInv(e) /\ ClimbInv(e)

\* All of the series that is known, in memory or in the file, comes before trace i,
\* which has been delivered.
Ahead(i) == i \in delivered /\ \A e \in Entries : \A j \in DOMAIN e.series : e.series[j].trace < i

\* Until something disturbs it, what is being scored and what is being folded is
\* ahead of the series, by one evaluation at a time.
OrderInv ==
  ~disturbed =>
    /\ \A e \in Entries : Ascending(e.series) /\ \A k \in DOMAIN e.series : e.series[k].trace \in delivered
    /\ \A t \in Turns : Active(t) =>
         /\ Ascending(thread[t].todo)
         /\ \A k \in DOMAIN thread[t].todo : Ahead(thread[t].todo[k].trace)
         /\ \A u \in Turns : (Active(u) => u = t) /\ eval[u].pc # "scoring"
    /\ \A t \in Turns : eval[t].pc = "scoring" => \A i \in DOMAIN eval[t].batch.scores : Ahead(i)

GateInv == GateTypeOK /\ WorkInv /\ SeriesInv /\ OrderInv

LEMMA Shapes ==
  ASSUME GateTypeOK
  PROVE  /\ completed \in SUBSET Traces /\ delivered \in SUBSET Traces /\ seen \in SeenState
         /\ memory \in [loaded : BOOLEAN, entry : Entry] /\ memory.entry \in Entry /\ disk \in Entry
         /\ eval \in [Turns -> EvalState] /\ thread \in [Turns -> ThreadState]
         /\ disturbed \in BOOLEAN
BY DEF GateTypeOK, SeenState, EvalState, ThreadState, TraceScore

LEMMA NoneTypes ==
  /\ NoEval \in EvalState /\ NoEval.pc = "unused"
  /\ NoThread \in ThreadState /\ NoThread.pc = "idle"
  /\ \A pc \in Working \cup {"unused", "superseded", "failed", "reported", "dead"} :
       [NoEval EXCEPT !.pc = pc] \in EvalState /\ [NoEval EXCEPT !.pc = pc].pc = pc
<1>1. NoBatch \in Batch(Traces)
  BY NewBatchType
<1>2. NoThread \in ThreadState
  BY DEF NoThread, ThreadState
<1> QED
  BY <1>1, <1>2 DEF NoEval, EvalState, NoThread, Working

LEMMA NothingSeenType == NothingSeen \in SeenState
BY DEF NothingSeen, SeenState

\* The shape of the state, put together again.
LEMMA ShapesOK ==
  ASSUME completed' \in SUBSET Traces, delivered' \in SUBSET Traces, seen' \in SeenState,
         memory' \in [loaded : BOOLEAN, entry : Entry], disk' \in Entry,
         eval' \in [Turns -> EvalState], thread' \in [Turns -> ThreadState],
         disturbed' \in BOOLEAN
  PROVE  GateTypeOK'
BY DEF GateTypeOK, SeenState, EvalState, ThreadState, TraceScore

\* Evaluations that only end or move on, and threads that are only dropped.
LEMMA MovesKeep ==
  ASSUME GateInv, completed' \in SUBSET Traces, seen' \in SeenState,
         eval' \in [Turns -> EvalState], thread' \in [Turns -> ThreadState],
         UNCHANGED <<delivered, memory, disk, disturbed>>,
         \A u \in Turns : thread'[u] \in {thread[u], NoThread},
         \A u \in Turns : eval'[u].pc = "scoring" =>
           eval[u].pc = "scoring" /\ DOMAIN eval'[u].batch.scores = DOMAIN eval[u].batch.scores,
         \A u \in Turns : Batched(u)' => DOMAIN eval'[u].batch.scores # {},
         \A u, v \in Turns : Listing(u)' /\ Listing(v)' => u = v
  PROVE  GateInv'
<1>1. GateTypeOK'
  BY Shapes, ShapesOK DEF GateInv
<1>2. \A u \in Turns : Active(u)' => Active(u) /\ thread'[u] = thread[u]
  BY NoneTypes DEF Active
<1>3. WorkInv'
  BY <1>2 DEF GateInv, WorkInv
<1>4. Entries' = Entries /\ \A i : Ahead(i)' <=> Ahead(i)
  BY DEF Entries, Ahead
<1>5. SeriesInv'
  BY <1>4 DEF GateInv, SeriesInv
<1>6. OrderInv'
  <2> SUFFICES ASSUME ~disturbed PROVE OrderInv'
    BY DEF OrderInv
  <2>1. \A e \in Entries' : Ascending(e.series) /\ \A k \in DOMAIN e.series : e.series[k].trace \in delivered'
    BY <1>4 DEF GateInv, OrderInv
  <2>2. \A t \in Turns : Active(t)' =>
          /\ Ascending(thread'[t].todo)
          /\ \A k \in DOMAIN thread'[t].todo : Ahead(thread'[t].todo[k].trace)
          /\ \A u \in Turns : (Active(u)' => u = t) /\ eval'[u].pc # "scoring"
    BY <1>2 DEF GateInv, OrderInv
  <2>3. \A t \in Turns : eval'[t].pc = "scoring" => \A i \in DOMAIN eval'[t].batch.scores : Ahead(i)
    BY DEF GateInv, OrderInv
  <2> QED
    BY <1>4, <2>1, <2>2, <2>3 DEF OrderInv
<1> QED
  BY <1>1, <1>3, <1>5, <1>6 DEF GateInv

\* The common case of it: one evaluation moves, one thread may be dropped.
LEMMA MoveKeeps ==
  ASSUME GateInv, NEW t \in Turns, NEW x \in EvalState, eval' = [eval EXCEPT ![t] = x],
         UNCHANGED <<completed, delivered, memory, disk, disturbed>>, seen' \in SeenState \cup {seen},
         thread' = thread \/ thread' = [thread EXCEPT ![t] = NoThread],
         x.pc \in {"listing", "scoring"} => Listing(t),
         x.pc = "scoring" => eval[t].pc = "scoring" /\ DOMAIN x.batch.scores = DOMAIN eval[t].batch.scores,
         x.pc \in {"scoring", "folding", "escalating"} => DOMAIN x.batch.scores # {}
  PROVE  GateInv'
<1>1. eval \in [Turns -> EvalState] /\ thread \in [Turns -> ThreadState]
      /\ completed \in SUBSET Traces /\ seen' \in SeenState
  BY Shapes DEF GateInv
<1>2. /\ eval' \in [Turns -> EvalState] /\ eval'[t] = x
      /\ \A u \in Turns : u # t => eval'[u] = eval[u]
  BY <1>1
<1>3. /\ thread' \in [Turns -> ThreadState]
      /\ \A u \in Turns : thread'[u] \in {thread[u], NoThread}
  BY <1>1, NoneTypes
<1>4. \A u \in Turns : Listing(u)' => Listing(u)
  BY <1>2 DEF Listing
<1>5. \A u, v \in Turns : Listing(u)' /\ Listing(v)' => u = v
  BY <1>4 DEF GateInv, WorkInv
<1>6. \A u \in Turns : Batched(u)' => DOMAIN eval'[u].batch.scores # {}
  BY <1>2 DEF GateInv, WorkInv, Batched
<1>7. \A u \in Turns : eval'[u].pc = "scoring" =>
        eval[u].pc = "scoring" /\ DOMAIN eval'[u].batch.scores = DOMAIN eval[u].batch.scores
  BY <1>2
<1> QED
  BY <1>1, <1>2, <1>3, <1>5, <1>6, <1>7, MovesKeep

-----------------------------------------------------------------------------
(* The steps                                                               *)

LEMMA InitGate ==
  ASSUME GateInit
  PROVE  GateInv
<1>1. /\ completed = {} /\ seen = NothingSeen /\ delivered = {} /\ disturbed = FALSE
      /\ memory = [loaded |-> FALSE, entry |-> NoEntry] /\ disk = NoEntry
      /\ \A t \in Turns : eval[t] = NoEval /\ thread[t] = NoThread
      /\ eval \in [Turns -> EvalState] /\ thread \in [Turns -> ThreadState]
  BY NoneTypes DEF GateInit, Unloaded
<1>2. GateTypeOK
  BY <1>1, NoEntryKeeps, NothingSeenType DEF GateTypeOK, SeenState, EvalState, ThreadState, TraceScore
<1>3. Entries = {NoEntry}
  BY <1>1 DEF Entries
<1>4. NoEntry.series = <<>>
  BY DEF NoEntry
<1>5. WorkInv
  BY <1>1, NoneTypes DEF WorkInv, Listing, Batched, Active
<1>6. SeriesInv
  BY <1>3, NoEntryKeeps DEF SeriesInv
<1>7. OrderInv
  BY <1>1, <1>3, <1>4, NoneTypes DEF OrderInv, Ascending, Active
<1> QED
  BY <1>2, <1>5, <1>6, <1>7 DEF GateInv

LEMMA TraceCompletesStep ==
  ASSUME GateInv, NEW i \in Traces, TraceCompletes(i)
  PROVE  GateInv'
<1>1. /\ eval \in [Turns -> EvalState] /\ thread \in [Turns -> ThreadState]
      /\ completed \in SUBSET Traces /\ seen \in SeenState
  BY Shapes DEF GateInv
<1>2. /\ completed' \in SUBSET Traces /\ UNCHANGED <<seen, delivered, memory, disk, eval, thread, disturbed>>
  BY <1>1 DEF TraceCompletes
<1>3. \A u \in Turns : /\ Batched(u)' => DOMAIN eval'[u].batch.scores # {}
                       /\ \A v \in Turns : Listing(u)' /\ Listing(v)' => u = v
  BY <1>2 DEF GateInv, WorkInv, Batched, Listing
<1> QED
  BY <1>1, <1>2, <1>3, MovesKeep

LEMMA TurnStep ==
  ASSUME GateInv, NEW t \in Turns, Turn(t)
  PROVE  GateInv'
<1>1. /\ eval \in [Turns -> EvalState] /\ thread \in [Turns -> ThreadState]
      /\ completed \in SUBSET Traces /\ seen' \in SeenState
  BY Shapes, NothingSeenType DEF GateInv, Turn
<1>2. /\ [NoEval EXCEPT !.pc = "listing"] \in EvalState
      /\ [NoEval EXCEPT !.pc = "listing"].pc = "listing"
      /\ [NoEval EXCEPT !.pc = "superseded"] \in EvalState
      /\ [NoEval EXCEPT !.pc = "superseded"].pc = "superseded"
  BY NoneTypes DEF Working
<1> DEFINE new == [NoEval EXCEPT !.pc = "listing"]
           old == [NoEval EXCEPT !.pc = "superseded"]
<1>3. /\ eval' = [u \in Turns |-> IF u = t THEN new ELSE IF eval[u].pc \in Working THEN old ELSE eval[u]]
      /\ UNCHANGED <<completed, delivered, memory, disk, disturbed>>
  BY DEF Turn
<1> HIDE DEF new, old
<1>4. /\ eval' \in [Turns -> EvalState] /\ eval'[t].pc = "listing"
      /\ \A u \in Turns : u # t => /\ eval'[u].pc \notin Working
  BY <1>1, <1>2, <1>3 DEF Working, new, old
<1>5. /\ thread' \in [Turns -> ThreadState]
      /\ \A u \in Turns : thread'[u] \in {thread[u], NoThread}
  BY <1>1, NoneTypes DEF Turn
<1>6. \A u \in Turns : /\ ~Batched(u)' /\ eval'[u].pc # "scoring"
                       /\ Listing(u)' => u = t
  BY <1>4 DEF Batched, Listing, Working
<1> QED
  BY <1>1, <1>3, <1>4, <1>5, <1>6, MovesKeep

\* What the locator forgets is not what was delivered.
LEMMA GateForgetStep ==
  ASSUME GateInv, GateForget
  PROVE  GateInv'
<1>1. /\ eval \in [Turns -> EvalState] /\ thread \in [Turns -> ThreadState]
      /\ completed \in SUBSET Traces /\ seen \in SeenState
  BY Shapes DEF GateInv
<1>2. UNCHANGED <<completed, delivered, memory, disk, eval, thread, disturbed>>
  BY DEF GateForget
<1>3. seen' \in SeenState
  BY <1>1, NothingSeenType DEF GateForget, SeenState
<1>4. \A u \in Turns : /\ Batched(u)' => DOMAIN eval'[u].batch.scores # {}
                       /\ \A v \in Turns : Listing(u)' /\ Listing(v)' => u = v
  BY <1>2 DEF GateInv, WorkInv, Batched, Listing
<1> QED
  BY <1>1, <1>2, <1>3, <1>4, MovesKeep

LEMMA ReportStep ==
  ASSUME GateInv, NEW t \in Turns, Report(t)
  PROVE  GateInv'
<1>1. eval \in [Turns -> EvalState] /\ eval[t] \in EvalState
  BY Shapes DEF GateInv
<1>2. PICK outcome \in BOOLEAN :
        eval' = [eval EXCEPT ![t].pc = "reported", ![t].breach = @ \/ outcome]
  BY DEF Report
<1> DEFINE x == [eval[t] EXCEPT !.pc = "reported", !.breach = @ \/ outcome]
<1>3. x \in EvalState /\ x.pc = "reported"
  BY <1>1 DEF EvalState
<1>4. eval' = [eval EXCEPT ![t] = x]
  BY <1>1, <1>2, Zenon
<1> HIDE DEF x
<1> QED
  BY <1>3, <1>4, MoveKeeps DEF Report

LEMMA EscalateStep ==
  ASSUME GateInv, NEW t \in Turns, Escalate(t)
  PROVE  GateInv'
<1>1. eval \in [Turns -> EvalState] /\ eval[t] \in EvalState /\ eval[t].batch \in Batch(Traces)
  BY Shapes DEF GateInv, EvalState
<1> DEFINE After(b) ==
      CASE b.pc = "raised" -> [NoEval EXCEPT !.pc = "failed"]
        [] b.pc = "scored" /\ Breached(b) /\ ~eval[t].breach ->
             [eval[t] EXCEPT !.breach = TRUE, !.batch = NewBatch(DOMAIN b.scores)]
        [] b.pc = "scored" /\ (eval[t].breach \/ ~Breached(b)) ->
             [eval[t] EXCEPT !.pc = "reporting", !.batch = NoBatch]
        [] OTHER -> [eval[t] EXCEPT !.batch = b]
<1>2. eval[t].pc = "escalating" /\ UNCHANGED <<completed, seen, delivered, memory, disk, thread, disturbed>>
  BY DEF Escalate
<1>3. PICK b \in NextBatches(eval[t].batch) : eval' = [eval EXCEPT ![t] = After(b)]
  BY <1>1 DEF Escalate
<1>4. /\ b \in Batch(Traces) /\ DOMAIN b.scores = DOMAIN eval[t].batch.scores
      /\ DOMAIN b.scores \in SUBSET Traces
  BY <1>1, NextBatchType DEF Batch
<1>5. DOMAIN b.scores # {}
  BY <1>2, <1>4 DEF GateInv, WorkInv, Batched
<1>6. /\ NewBatch(DOMAIN b.scores) \in Batch(Traces) /\ NoBatch \in Batch(Traces)
      /\ DOMAIN NewBatch(DOMAIN b.scores).scores = DOMAIN b.scores
  BY <1>4, NewBatchType
<1> DEFINE Good(x) == /\ x \in EvalState /\ x.pc \in {"failed", "escalating", "reporting"}
                      /\ x.pc = "escalating" => DOMAIN x.batch.scores # {}
<1>7. Good([NoEval EXCEPT !.pc = "failed"])
  BY NoneTypes
<1>8. Good([eval[t] EXCEPT !.breach = TRUE, !.batch = NewBatch(DOMAIN b.scores)])
  <2> DEFINE c == NewBatch(DOMAIN b.scores)
  <2> HIDE DEF c
  <2>1. c \in Batch(Traces) /\ DOMAIN c.scores # {}
    BY <1>5, <1>6 DEF c
  <2>2. Good([eval[t] EXCEPT !.breach = TRUE, !.batch = c])
    BY <1>1, <1>2, <2>1 DEF EvalState
  <2> QED
    BY <2>2 DEF c
<1>9. Good([eval[t] EXCEPT !.pc = "reporting", !.batch = NoBatch])
  BY <1>1, <1>6 DEF EvalState, Working
<1>10. Good([eval[t] EXCEPT !.batch = b])
  BY <1>1, <1>2, <1>4, <1>5 DEF EvalState
<1>11. Good(After(b))
  <2> HIDE DEF Good
  <2> QED
    BY <1>7, <1>8, <1>9, <1>10, Zenon
<1> HIDE DEF After
<1> QED
  BY <1>2, <1>3, <1>11, MoveKeeps

LEMMA FoldReturnsStep ==
  ASSUME GateInv, NEW t \in Turns, FoldReturns(t)
  PROVE  GateInv'
<1>1. eval \in [Turns -> EvalState] /\ eval[t] \in EvalState /\ eval[t].batch \in Batch(Traces)
  BY Shapes DEF GateInv, EvalState
<1> DEFINE last == {Max(DOMAIN eval[t].batch.scores)}
           c == NewBatch(last)
           x == IF thread[t].fired
                THEN [eval[t] EXCEPT !.pc = "escalating", !.fired = TRUE, !.batch = c]
                ELSE [eval[t] EXCEPT !.pc = "reporting", !.batch = NoBatch]
<1>2. /\ eval[t].pc = "folding" /\ UNCHANGED <<completed, seen, delivered, memory, disk, disturbed>>
      /\ thread' = [thread EXCEPT ![t] = NoThread]
  BY DEF FoldReturns
<1>3. eval' = [eval EXCEPT ![t] = x]
  BY <1>1, Zenon DEF FoldReturns
<1>4. /\ DOMAIN eval[t].batch.scores # {} /\ DOMAIN eval[t].batch.scores \in SUBSET Traces
  BY <1>1, <1>2 DEF GateInv, WorkInv, Batched, Batch
<1>5. last \in SUBSET Traces /\ last # {}
  BY <1>4, LatestIsOne
<1>6. c \in Batch(Traces) /\ DOMAIN c.scores # {} /\ NoBatch \in Batch(Traces)
  BY <1>5, NewBatchType
<1> HIDE DEF c
<1>7. /\ x \in EvalState /\ x.pc \in {"escalating", "reporting"}
      /\ x.pc = "escalating" => DOMAIN x.batch.scores # {}
  <2>1. CASE thread[t].fired
    BY <1>1, <1>6, <2>1 DEF EvalState, Working
  <2>2. CASE ~thread[t].fired
    BY <1>1, <1>6, <2>2 DEF EvalState, Working
  <2> QED
    BY <2>1, <2>2
<1> HIDE DEF x
<1> QED
  BY <1>2, <1>3, <1>7, MoveKeeps

\* What a listing delivers is ahead of the series, or the order is lost with it.
LEMMA ListStep ==
  ASSUME GateInv, NEW t \in Turns, List(t)
  PROVE  GateInv'
<1>1. /\ eval \in [Turns -> EvalState] /\ eval[t] \in EvalState
      /\ delivered \in SUBSET Traces /\ seen \in SeenState
      /\ completed \in SUBSET Traces /\ thread \in [Turns -> ThreadState]
  BY Shapes DEF GateInv
<1>2. eval[t].pc = "listing" /\ UNCHANGED <<completed, memory, disk, thread>>
  BY DEF List
<1>3. PICK fresh \in {Listed \ ToSet(seen.ids), {}} :
        /\ seen' = IF seen.orphan THEN NothingSeen
                   ELSE [seen EXCEPT !.ids = Trimmed(@ \o InOrder(fresh))]
        /\ delivered' = delivered \cup fresh
        /\ eval' = [eval EXCEPT ![t].pc = IF fresh = {} THEN "reporting" ELSE "scoring",
                                ![t].batch = IF fresh = {} THEN NoBatch ELSE NewBatch(fresh)]
        /\ disturbed' = (\/ disturbed
                         \/ \E i \in fresh, j \in delivered : i <= j
                         \/ fresh # {} /\ \E u \in Turns : thread[u].pc \in {"queued", "fold"})
  BY DEF List
<1> DEFINE pc == IF fresh = {} THEN "reporting" ELSE "scoring"
           batch == IF fresh = {} THEN NoBatch ELSE NewBatch(fresh)
           x == [eval[t] EXCEPT !.pc = pc, !.batch = batch]
<1>4. fresh \in SUBSET Traces
  BY <1>1 DEF Listed
<1>5. /\ batch \in Batch(Traces)
      /\ fresh # {} => DOMAIN batch.scores = fresh
  BY <1>4, NewBatchType
<1>6. pc \in {"reporting", "scoring"} /\ (pc = "scoring" <=> fresh # {})
  OBVIOUS
<1>7. eval' = [eval EXCEPT ![t] = x]
  BY <1>1, <1>3, Zenon
<1> HIDE DEF pc, batch
<1>8. x \in EvalState /\ x.pc = pc /\ x.batch = batch
  <2>1. \A p \in Working, q \in Batch(Traces) :
          /\ [eval[t] EXCEPT !.pc = p, !.batch = q] \in EvalState
          /\ [eval[t] EXCEPT !.pc = p, !.batch = q].pc = p
          /\ [eval[t] EXCEPT !.pc = p, !.batch = q].batch = q
    BY <1>1 DEF EvalState
  <2>2. pc \in Working /\ batch \in Batch(Traces)
    BY <1>5, <1>6 DEF Working
  <2> QED
    BY <2>1, <2>2, Zenon
<1> HIDE DEF x
<1>11. seen' \in SeenState
  <2>1. seen.ids \in Seq(Traces)
    BY <1>1 DEF SeenState
  <2>2. Trimmed(seen.ids \o InOrder(fresh)) \in Seq(Traces)
    BY <1>4, <2>1, MarkedType
  <2> QED
    BY <1>1, <1>3, <2>2, NothingSeenType DEF SeenState
<1>9. CASE fresh = {}
  <2>1. delivered' = delivered /\ disturbed' = disturbed
    <3>1. disturbed \in BOOLEAN
      BY Shapes DEF GateInv
    <3> QED
      BY <1>3, <1>9, <3>1
  <2>2. x.pc = "reporting"
    BY <1>6, <1>8, <1>9
  <2> QED
    BY <1>2, <1>7, <1>8, <1>11, <2>1, <2>2, MoveKeeps
<1>10. CASE fresh # {}
  <2>1. /\ eval' \in [Turns -> EvalState] /\ eval'[t].pc = "scoring"
        /\ DOMAIN eval'[t].batch.scores = fresh
        /\ \A u \in Turns : u # t => eval'[u] = eval[u]
    <3>1. x.pc = "scoring" /\ DOMAIN x.batch.scores = fresh
      BY <1>5, <1>6, <1>8, <1>10
    <3> QED
      BY <1>1, <1>7, <1>8, <3>1
  <2>2. Listing(t) /\ \A u \in Turns : Listing(u) => u = t
    BY <1>2 DEF GateInv, WorkInv, Listing
  <2>3. GateTypeOK'
    <3>1. /\ memory \in [loaded : BOOLEAN, entry : Entry] /\ disk \in Entry
          /\ thread \in [Turns -> ThreadState] /\ disturbed \in BOOLEAN
      BY Shapes DEF GateInv
    <3>2. delivered' \in SUBSET Traces
      BY <1>1, <1>3, <1>4
    <3>3. disturbed' \in BOOLEAN
      BY <1>3, <3>1
    <3> QED
      BY <1>1, <1>2, <1>11, <2>1, <3>1, <3>2, <3>3, ShapesOK
  <2>4. WorkInv'
    BY <1>2, <1>10, <2>1, <2>2 DEF GateInv, WorkInv, Listing, Batched, Active
  <2>5. Entries' = Entries
    BY <1>2 DEF Entries
  <2>6. SeriesInv'
    BY <2>5 DEF GateInv, SeriesInv
  <2>7. OrderInv'
    <3> SUFFICES ASSUME ~disturbed' PROVE OrderInv'
      BY DEF OrderInv
    <3>1. /\ ~disturbed /\ \A i \in fresh, j \in delivered : ~(i <= j)
          /\ \A u \in Turns : ~Active(u)
      BY <1>3, <1>10 DEF Active
    <3>2. \A i \in fresh, j \in delivered : j < i
      BY <1>1, <1>4, <3>1, TraceNumbers
    <3>3. \A e \in Entries : /\ Ascending(e.series)
                             /\ \A k \in DOMAIN e.series : e.series[k].trace \in delivered
      BY <3>1 DEF GateInv, OrderInv
    <3>4. \A i \in fresh : /\ i \in delivered'
                           /\ \A e \in Entries : \A j \in DOMAIN e.series : e.series[j].trace < i
      BY <1>3, <3>2, <3>3
    <3>5. \A u \in Turns : ~Active(u)'
      BY <1>2, <3>1 DEF Active
    <3>6. \A u \in Turns : eval'[u].pc = "scoring" => u = t
      BY <2>1, <2>2 DEF Listing
    <3>7. \A e \in Entries' : /\ Ascending(e.series)
                              /\ \A k \in DOMAIN e.series : e.series[k].trace \in delivered'
      BY <1>3, <2>5, <3>3
    <3>8. \A i \in fresh : Ahead(i)'
      BY <2>5, <3>4 DEF Ahead
    <3> QED
      BY <2>1, <3>5, <3>6, <3>7, <3>8 DEF OrderInv
  <2> QED
    BY <2>3, <2>4, <2>6, <2>7 DEF GateInv
<1> QED
  BY <1>9, <1>10

\* A scored batch is handed to a thread, oldest trace first; no other thread folds
\* while the order holds.
LEMMA ScoreStep ==
  ASSUME GateInv, NEW t \in Turns, Score(t)
  PROVE  GateInv'
<1>1. /\ eval \in [Turns -> EvalState] /\ eval[t] \in EvalState /\ eval[t].batch \in Batch(Traces)
      /\ thread \in [Turns -> ThreadState] /\ completed \in SUBSET Traces
  BY Shapes DEF GateInv, EvalState
<1>2. eval[t].pc = "scoring" /\ UNCHANGED <<completed, seen, delivered, memory, disk, disturbed>>
  BY DEF Score
<1> DEFINE After(b) ==
      CASE b.pc = "scored" -> [eval[t] EXCEPT !.pc = "folding", !.batch = b]
        [] b.pc = "raised" -> [NoEval EXCEPT !.pc = "failed"]
        [] OTHER -> [eval[t] EXCEPT !.batch = b]
<1>3. PICK b \in NextBatches(eval[t].batch) :
        /\ eval' = [eval EXCEPT ![t] = After(b)]
        /\ thread' = IF b.pc = "scored"
             THEN [thread EXCEPT ![t] = [NoThread EXCEPT !.pc = "queued", !.todo = OldestFirst(b)]]
             ELSE thread
  BY <1>1 DEF Score
<1>4. b \in Batch(Traces) /\ DOMAIN b.scores = DOMAIN eval[t].batch.scores
  BY <1>1, NextBatchType
<1>5. DOMAIN b.scores # {}
  BY <1>2, <1>4 DEF GateInv, WorkInv, Batched
<1> DEFINE Good(x) == /\ x \in EvalState /\ x.pc \in {"failed", "scoring", "folding"}
                      /\ x.pc \in {"scoring", "folding"} => x.batch = b
<1>6. Good([NoEval EXCEPT !.pc = "failed"]) /\ [NoEval EXCEPT !.pc = "failed"].pc = "failed"
  BY NoneTypes
<1>7. /\ Good([eval[t] EXCEPT !.pc = "folding", !.batch = b])
      /\ [eval[t] EXCEPT !.pc = "folding", !.batch = b].pc = "folding"
  BY <1>1, <1>4 DEF EvalState, Working
<1>8. /\ Good([eval[t] EXCEPT !.batch = b]) /\ [eval[t] EXCEPT !.batch = b].pc = "scoring"
  BY <1>1, <1>2, <1>4 DEF EvalState
<1>9. Good(After(b)) /\ (After(b).pc = "folding" <=> b.pc = "scored")
  <2> HIDE DEF Good
  <2>1. CASE b.pc = "scored"
    BY <1>7, <2>1, Zenon
  <2>2. CASE b.pc = "raised"
    <3>1. b.pc # "scored"
      BY <2>2
    <3> QED
      BY <1>6, <2>2, <3>1
  <2>3. CASE b.pc # "scored" /\ b.pc # "raised"
    BY <1>8, <2>3
  <2> QED
    BY <2>1, <2>2, <2>3
<1> HIDE DEF After
<1>10. CASE b.pc # "scored"
  <2>1. thread' = thread /\ After(b).pc \in {"failed", "scoring"}
    BY <1>3, <1>9, <1>10
  <2>2. After(b).pc = "scoring" => DOMAIN After(b).batch.scores = DOMAIN eval[t].batch.scores
    BY <1>4, <1>9
  <2> QED
    BY <1>2, <1>3, <1>4, <1>5, <1>9, <2>1, <2>2, MoveKeeps DEF Listing
<1>11. CASE b.pc = "scored"
  <2> DEFINE q == OldestFirst(b)
             y == [NoThread EXCEPT !.pc = "queued", !.todo = q]
  <2>1. /\ q \in Seq(TraceScore) /\ q # <<>> /\ Ascending(q)
        /\ \A k \in DOMAIN q : q[k].trace \in DOMAIN b.scores
    BY <1>4, <1>5, OldestFirstAscends
  <2>2. thread' = [thread EXCEPT ![t] = y]
    BY <1>3, <1>11
  <2> HIDE DEF q
  <2>3. y \in ThreadState /\ y.pc = "queued" /\ y.todo = q
    BY <2>1 DEF NoThread, ThreadState
  <2> HIDE DEF y
  <2>4. /\ thread' \in [Turns -> ThreadState] /\ thread'[t].pc = "queued" /\ thread'[t].todo = q
        /\ \A u \in Turns : u # t => thread'[u] = thread[u]
    BY <1>1, <2>2, <2>3
  <2>5. /\ eval' \in [Turns -> EvalState] /\ eval'[t].pc = "folding"
        /\ DOMAIN eval'[t].batch.scores # {}
        /\ \A u \in Turns : u # t => eval'[u] = eval[u]
    BY <1>1, <1>3, <1>5, <1>9, <1>11
  <2>6. GateTypeOK'
    <3>1. /\ memory \in [loaded : BOOLEAN, entry : Entry] /\ disk \in Entry
          /\ delivered \in SUBSET Traces /\ seen \in SeenState /\ disturbed \in BOOLEAN
      BY Shapes DEF GateInv
    <3> QED
      BY <1>1, <1>2, <2>4, <2>5, <3>1, ShapesOK
  <2>7. \A u \in Turns : Listing(u) => u = t
    BY <1>2 DEF GateInv, WorkInv, Listing
  <2>8. WorkInv'
    <3>1. \A u \in Turns : ~Listing(u)'
      BY <2>5, <2>7 DEF Listing
    <3>2. \A u \in Turns : Batched(u)' => DOMAIN eval'[u].batch.scores # {}
      BY <2>5 DEF GateInv, WorkInv, Batched
    <3>3. \A u \in Turns : Active(u)' => thread'[u].todo # <<>>
      BY <2>1, <2>4 DEF GateInv, WorkInv, Active
    <3> QED
      BY <3>1, <3>2, <3>3 DEF WorkInv
  <2>9. Entries' = Entries /\ \A i : Ahead(i)' <=> Ahead(i)
    BY <1>2 DEF Entries, Ahead
  <2>10. SeriesInv'
    BY <2>9 DEF GateInv, SeriesInv
  <2>11. OrderInv'
    <3> SUFFICES ASSUME ~disturbed PROVE OrderInv'
      BY <1>2 DEF OrderInv
    <3>1. \A u \in Turns : ~Active(u)
      BY <1>2 DEF GateInv, OrderInv
    <3>2. \A u \in Turns : Active(u)' => u = t
      BY <2>4, <3>1 DEF Active
    <3>3. \A u \in Turns : eval'[u].pc # "scoring"
      BY <2>5, <2>7 DEF Listing
    <3>4. \A i \in DOMAIN b.scores : Ahead(i)
      BY <1>2, <1>4 DEF GateInv, OrderInv
    <3>5. \A k \in DOMAIN q : Ahead(q[k].trace)
      BY <2>1, <3>4
    <3>6. \A e \in Entries' : /\ Ascending(e.series)
                              /\ \A k \in DOMAIN e.series : e.series[k].trace \in delivered'
      BY <1>2, <2>9 DEF GateInv, OrderInv
    <3>7. \A u \in Turns : Active(u)' =>
            /\ Ascending(thread'[u].todo)
            /\ \A k \in DOMAIN thread'[u].todo : Ahead(thread'[u].todo[k].trace)
            /\ \A v \in Turns : (Active(v)' => v = u) /\ eval'[v].pc # "scoring"
      BY <2>1, <2>4, <3>2, <3>3, <3>5
    <3> QED
      BY <2>9, <3>3, <3>6, <3>7 DEF OrderInv
  <2> QED
    BY <2>6, <2>8, <2>10, <2>11 DEF GateInv
<1> QED
  BY <1>10, <1>11

\* A thread that is done with the first of its traces, whether its score was
\* pending, was recorded, or was lost with the file.
LEMMA FoldKeeps ==
  ASSUME GateInv, NEW t \in Turns, Active(t),
         thread' \in [Turns -> ThreadState], \A u \in Turns : u # t => thread'[u] = thread[u],
         Active(t)' => thread'[t].todo = Tail(thread[t].todo) /\ thread'[t].todo # <<>>,
         eval' \in [Turns -> EvalState],
         \A u \in Turns : eval'[u] = eval[u] \/ eval'[u].pc = "failed",
         UNCHANGED <<completed, seen, delivered, disturbed>>,
         memory' \in [loaded : BOOLEAN, entry : Entry], disk' \in Entry,
         \A e \in Entries' :
           \/ e \in Entries
           \/ Head(thread[t].todo).value # NoScore /\ e = Recorded(Current, Head(thread[t].todo))
  PROVE  GateInv'
<1> DEFINE q == thread[t].todo
           sample == Head(q)
           recorded == Recorded(Current, sample)
<1>1. /\ thread \in [Turns -> ThreadState] /\ q \in Seq(TraceScore) /\ q # <<>>
      /\ memory \in [loaded : BOOLEAN, entry : Entry] /\ memory.entry \in Entry /\ disk \in Entry
      /\ completed \in SUBSET Traces /\ delivered \in SUBSET Traces /\ seen \in SeenState
      /\ disturbed \in BOOLEAN
  BY Shapes DEF GateInv, WorkInv, ThreadState
<1>2. /\ sample \in TraceScore /\ sample = q[1] /\ 1 \in DOMAIN q
      /\ \A k \in DOMAIN Tail(q) : k + 1 \in DOMAIN q /\ 1 < k + 1 /\ Tail(q)[k] = q[k + 1]
      /\ \A j, k \in DOMAIN Tail(q) : j < k => j + 1 < k + 1
  BY <1>1
<1> HIDE DEF sample, recorded
<1>3. Current \in Entries /\ Current \in Entry
  BY <1>1 DEF Current, Entries
<1>4. \A e \in Entries' : e \in Entries \/ (sample.value # NoScore /\ e = recorded)
  BY DEF sample, recorded
<1>5. GateTypeOK'
  BY <1>1, ShapesOK
<1>6. WorkInv'
  <2>1. \A u \in Turns : (Listing(u)' => Listing(u)) /\ (Batched(u)' => Batched(u) /\ eval'[u] = eval[u])
    BY DEF Listing, Batched
  <2>2. \A u \in Turns : Active(u)' => thread'[u].todo # <<>>
    BY DEF GateInv, WorkInv, Active
  <2>3. \A u, v \in Turns : Listing(u)' /\ Listing(v)' => u = v
    BY <2>1 DEF GateInv, WorkInv
  <2>4. \A u \in Turns : Batched(u)' => DOMAIN eval'[u].batch.scores # {}
    BY <2>1 DEF GateInv, WorkInv
  <2> QED
    BY <2>2, <2>3, <2>4 DEF WorkInv
<1>7. SeriesInv'
  <2>1. EntryInv(Current) /\ ClimbInv(Current)
    BY <1>3 DEF GateInv, SeriesInv
  <2>2. sample.value # NoScore => EntryInv(recorded) /\ ClimbInv(recorded)
    BY <1>2, <1>3, <2>1, RecordedKeeps DEF recorded
  <2>3. \A e \in Entries' : EntryInv(e) /\ ClimbInv(e)
    BY <1>4, <2>2 DEF GateInv, SeriesInv
  <2> QED
    BY <2>3 DEF SeriesInv
<1>8. OrderInv'
  <2> SUFFICES ASSUME ~disturbed PROVE OrderInv'
    BY DEF OrderInv
  <2>1. /\ \A e \in Entries : /\ Ascending(e.series)
                             /\ \A k \in DOMAIN e.series : e.series[k].trace \in delivered
        /\ Ascending(q)
        /\ \A k \in DOMAIN q : Ahead(q[k].trace)
        /\ \A u \in Turns : (Active(u) => u = t) /\ eval[u].pc # "scoring"
    BY DEF GateInv, OrderInv
  <2>2. ASSUME NEW e \in Entries'
        PROVE  /\ Ascending(e.series)
               /\ \A k \in DOMAIN e.series : e.series[k].trace \in delivered
               /\ \A k \in DOMAIN Tail(q) : \A j \in DOMAIN e.series :
                    e.series[j].trace < Tail(q)[k].trace
    <3>1. CASE e \in Entries
      <4>1. \A k \in DOMAIN Tail(q) : Ahead(Tail(q)[k].trace)
        BY <1>2, <2>1
      <4> QED
        BY <2>1, <3>1, <4>1 DEF Ahead
    <3>2. CASE sample.value # NoScore /\ e = recorded
      <4> DEFINE old == Current.series
                 n == Len(old)
      <4>1. /\ e \in Entry /\ Len(e.series) = n + 1
            /\ \A k \in 1..n : e.series[k] = old[k]
            /\ e.series[n + 1].trace = sample.trace
        <5>1. e = Recorded(Current, sample) /\ n = Len(Current.series) /\ Current \in Entry
              /\ sample \in TraceScore
          BY <1>2, <1>3, <3>2 DEF recorded
        <5> HIDE DEF n
        <5>2. /\ e \in Entry /\ Len(e.series) = n + 1
              /\ \A k \in 1..n : e.series[k] = Current.series[k]
              /\ e.series[n + 1].trace = sample.trace
          BY <3>2, <5>1, RecordedAdds
        <5> QED
          BY <5>2
      <4>2. /\ n \in Nat /\ DOMAIN old = 1..n /\ DOMAIN e.series = 1..(n + 1)
        BY <1>3, <4>1 DEF Entry
      <4>3. /\ Ascending(old)
            /\ \A k \in 1..n : old[k].trace \in delivered
            /\ sample.trace \in delivered
            /\ \A j \in 1..n : old[j].trace < sample.trace
        BY <1>2, <1>3, <2>1, <4>2 DEF Ahead
      <4>4. \A k \in DOMAIN Tail(q) : /\ sample.trace < Tail(q)[k].trace
                                     /\ \A j \in 1..n : old[j].trace < Tail(q)[k].trace
        <5> SUFFICES ASSUME NEW k \in DOMAIN Tail(q)
                     PROVE  /\ sample.trace < Tail(q)[k].trace
                            /\ \A j \in 1..n : old[j].trace < Tail(q)[k].trace
          OBVIOUS
        <5>1. Tail(q)[k] = q[k + 1] /\ k + 1 \in DOMAIN q /\ 1 \in DOMAIN q /\ 1 < k + 1
          BY <1>2
        <5>2. q[1].trace < q[k + 1].trace
          BY <2>1, <5>1 DEF Ascending
        <5>3. Ahead(q[k + 1].trace)
          BY <2>1, <5>1
        <5> QED
          BY <1>2, <1>3, <4>2, <5>1, <5>2, <5>3 DEF Ahead
      <4> HIDE DEF n, old
      <4>5. \A k \in 1..(n + 1) : k \in 1..n \/ k = n + 1
        BY <4>2
      <4>6. \A k \in DOMAIN e.series : e.series[k].trace \in delivered
        BY <4>1, <4>2, <4>3, <4>5
      <4>7. Ascending(e.series)
        <5> SUFFICES ASSUME NEW j \in 1..(n + 1), NEW k \in 1..(n + 1), j < k
                     PROVE  e.series[j].trace < e.series[k].trace
          BY <4>2 DEF Ascending
        <5>1. j \in 1..n
          BY <4>2
        <5>2. CASE k \in 1..n
          BY <4>1, <4>2, <4>3, <5>1, <5>2 DEF Ascending
        <5>3. CASE k = n + 1
          BY <4>1, <4>3, <5>1, <5>3
        <5> QED
          BY <4>5, <5>2, <5>3
      <4>8. \A k \in DOMAIN Tail(q) : \A j \in DOMAIN e.series : e.series[j].trace < Tail(q)[k].trace
        BY <4>1, <4>2, <4>4, <4>5
      <4> QED
        BY <4>6, <4>7, <4>8
    <3> QED
      BY <1>4, <2>2, <3>1, <3>2
  <2>3. /\ Ascending(Tail(q))
        /\ \A k \in DOMAIN Tail(q) : Tail(q)[k].trace \in delivered
    BY <1>2, <2>1 DEF Ascending, Ahead
  <2>4. \A i : Ahead(i)' <=> i \in delivered /\ \A e \in Entries' : \A j \in DOMAIN e.series : e.series[j].trace < i
    BY DEF Ahead
  <2>5. \A k \in DOMAIN Tail(q) : Tail(q)[k].trace \in delivered
          /\ \A e \in Entries' : \A j \in DOMAIN e.series : e.series[j].trace < Tail(q)[k].trace
    BY <2>2, <2>3
  <2>6. \A u \in Turns : Active(u)' => u = t /\ thread'[u].todo = Tail(q)
    BY <2>1 DEF Active
  <2>7. \A u \in Turns : eval'[u].pc # "scoring"
    BY <2>1
  <2>8. \A u \in Turns : Active(u)' =>
          /\ Ascending(thread'[u].todo)
          /\ \A k \in DOMAIN thread'[u].todo :
               /\ thread'[u].todo[k].trace \in delivered
               /\ \A e \in Entries' : \A j \in DOMAIN e.series : e.series[j].trace < thread'[u].todo[k].trace
          /\ \A v \in Turns : (Active(v)' => v = u) /\ eval'[v].pc # "scoring"
    BY <2>3, <2>5, <2>6, <2>7
  <2> QED
    BY <2>2, <2>4, <2>7, <2>8 DEF OrderInv
<1> QED
  BY <1>5, <1>6, <1>7, <1>8 DEF GateInv

LEMMA FoldStep ==
  ASSUME GateInv, NEW t \in Turns, FoldPending(t) \/ FoldTrace(t) \/ FoldFails(t)
  PROVE  GateInv'
<1> DEFINE q == thread[t].todo
           entry == Recorded(Current, Head(q))
<1>1. /\ thread \in [Turns -> ThreadState] /\ thread[t] \in ThreadState
      /\ q \in Seq(TraceScore) /\ eval \in [Turns -> EvalState]
      /\ memory \in [loaded : BOOLEAN, entry : Entry] /\ memory.entry \in Entry /\ disk \in Entry
  BY Shapes DEF GateInv, ThreadState
<1>2. Active(t) /\ q # <<>> /\ UNCHANGED <<completed, seen, delivered, disturbed>>
  BY DEF GateInv, WorkInv, Active, FoldPending, FoldTrace, FoldFails
<1>3. Head(q) \in TraceScore /\ Tail(q) \in Seq(TraceScore)
  BY <1>1, <1>2
<1>4. Current \in Entries /\ Current \in Entry
  BY <1>1 DEF Current, Entries
<1>5. Head(q).value # NoScore => entry \in Entry
  <2>1. entry = Recorded(Current, Head(q))
    OBVIOUS
  <2> HIDE DEF entry
  <2> QED
    BY <1>3, <1>4, <2>1, RecordedAdds
<1> HIDE DEF entry
<1> DEFINE Passed ==
      /\ thread' \in [Turns -> ThreadState] /\ \A u \in Turns : u # t => thread'[u] = thread[u]
      /\ Active(t)' => thread'[t].todo = Tail(q) /\ thread'[t].todo # <<>>
<1>6. ASSUME NEW y \in ThreadState, thread' = [thread EXCEPT ![t] = y],
             y.pc \in {"queued", "fold"} => y.todo = Tail(q) /\ y.todo # <<>>
      PROVE  Passed
  BY <1>1, <1>6 DEF Active
<1>7. ASSUME NEW fired \in BOOLEAN, Folded(t, fired)
      PROVE  Passed
  <2> DEFINE pc == IF Tail(q) = <<>> THEN "done" ELSE "fold"
             on == thread[t].fired \/ fired
             z == [pc |-> pc, todo |-> Tail(q), fired |-> on]
             y == IF Tail(q) = <<>> /\ eval[t].pc # "folding" THEN NoThread ELSE z
  <2>1. thread' = [thread EXCEPT ![t] = y]
    BY <1>7 DEF Folded
  <2>2. pc \in {"done", "fold"} /\ (pc = "fold" => Tail(q) # <<>>) /\ on \in BOOLEAN
    OBVIOUS
  <2> HIDE DEF pc, on
  <2>3. /\ z \in ThreadState /\ z.pc = pc /\ z.todo = Tail(q)
    BY <1>3, <2>2 DEF ThreadState
  <2> HIDE DEF z
  <2>4. y \in ThreadState /\ (y.pc \in {"queued", "fold"} => y.todo = Tail(q) /\ y.todo # <<>>)
    BY <2>2, <2>3, NoneTypes
  <2> HIDE DEF y, Passed
  <2> QED
    BY <1>6, <2>1, <2>4
<1>8. CASE FoldPending(t)
  <2>1. UNCHANGED <<memory, disk, eval>> /\ Folded(t, FALSE)
    BY <1>8 DEF FoldPending
  <2>2. Passed
    BY <1>7, <2>1
  <2>3. \A e \in Entries' : e \in Entries
    BY <2>1 DEF Entries
  <2>4. /\ eval' \in [Turns -> EvalState] /\ \A u \in Turns : eval'[u] = eval[u]
        /\ memory' \in [loaded : BOOLEAN, entry : Entry] /\ disk' \in Entry
    BY <1>1, <2>1
  <2> QED
    BY <1>2, <2>2, <2>3, <2>4, FoldKeeps
<1>9. CASE FoldTrace(t)
  <2> DEFINE fired == Last(entry.series).stalled \/ Last(entry.series).regressed
  <2>1. /\ memory' = [loaded |-> TRUE, entry |-> entry] /\ disk' = entry /\ eval' = eval
        /\ Head(q).value # NoScore /\ Folded(t, fired)
    BY <1>9 DEF FoldTrace, Loaded, entry
  <2>2. fired \in BOOLEAN
    OBVIOUS
  <2>3. Passed
    <3> HIDE DEF fired, Passed
    <3> QED
      BY <1>7, <2>1, <2>2
  <2>4. \A e \in Entries' : Head(q).value # NoScore /\ e = Recorded(Current, Head(q))
    BY <2>1 DEF Entries, entry
  <2>5. entry \in Entry /\ memory' \in [loaded : BOOLEAN, entry : Entry] /\ disk' \in Entry
    BY <1>5, <2>1
  <2>6. eval' \in [Turns -> EvalState] /\ \A u \in Turns : eval'[u] = eval[u]
    BY <1>1, <2>1
  <2> QED
    BY <1>2, <2>3, <2>4, <2>5, <2>6, FoldKeeps
<1>10. CASE FoldFails(t)
  <2> DEFINE failed == [NoEval EXCEPT !.pc = "failed"]
  <2>1. /\ memory' = [loaded |-> TRUE, entry |-> entry] /\ disk' = disk
        /\ thread' = [thread EXCEPT ![t] = NoThread]
        /\ Head(q).value # NoScore
        /\ eval' = [eval EXCEPT ![t] = IF @.pc = "folding" THEN failed ELSE @]
    BY <1>10 DEF FoldFails, Loaded, entry
  <2>2. failed \in EvalState /\ failed.pc = "failed"
    BY NoneTypes
  <2> HIDE DEF failed
  <2>3. /\ eval' \in [Turns -> EvalState]
        /\ \A u \in Turns : eval'[u] = eval[u] \/ eval'[u].pc = "failed"
    BY <1>1, <2>1, <2>2
  <2>4. \A e \in Entries' :
          e \in Entries \/ (Head(q).value # NoScore /\ e = Recorded(Current, Head(q)))
    BY <2>1 DEF Entries, entry
  <2>5. entry \in Entry /\ memory' \in [loaded : BOOLEAN, entry : Entry] /\ disk' \in Entry
    BY <1>1, <1>5, <2>1
  <2>6. Passed
    BY <1>6, <2>1, NoneTypes
  <2> QED
    BY <1>2, <2>3, <2>4, <2>5, <2>6, FoldKeeps
<1> QED
  BY <1>8, <1>9, <1>10

\* Only the file survives.
LEMMA GateRestartStep ==
  ASSUME GateInv, GateRestart
  PROVE  GateInv'
<1>1. /\ eval \in [Turns -> EvalState] /\ disk \in Entry /\ completed \in SUBSET Traces
      /\ delivered \in SUBSET Traces /\ disturbed \in BOOLEAN
  BY Shapes DEF GateInv
<1>2. /\ [NoEval EXCEPT !.pc = "dead"] \in EvalState /\ [NoEval EXCEPT !.pc = "dead"].pc = "dead"
  BY NoneTypes
<1>3. /\ seen' = NothingSeen /\ delivered' = delivered /\ memory' = [loaded |-> FALSE, entry |-> NoEntry]
      /\ thread' = [t \in Turns |-> NoThread] /\ disturbed' = disturbed
      /\ completed' = completed /\ disk' = disk
      /\ eval' = [t \in Turns |-> IF eval[t].pc = "unused" THEN NoEval ELSE [NoEval EXCEPT !.pc = "dead"]]
  BY DEF GateRestart, Unloaded
<1>4. /\ eval' \in [Turns -> EvalState] /\ thread' \in [Turns -> ThreadState]
      /\ \A t \in Turns : eval'[t].pc \in {"unused", "dead"} /\ thread'[t].pc = "idle"
  BY <1>2, <1>3, NoneTypes
<1>5. GateTypeOK'
  BY <1>1, <1>3, <1>4, NoEntryKeeps, NothingSeenType, ShapesOK
<1>6. WorkInv'
  BY <1>4 DEF WorkInv, Listing, Batched, Active
<1>7. Entries' = {NoEntry, disk} /\ disk \in Entries
  BY <1>3 DEF Entries
<1>8. SeriesInv'
  BY <1>7, NoEntryKeeps DEF GateInv, SeriesInv
<1>9. OrderInv'
  <2> SUFFICES ASSUME ~disturbed PROVE OrderInv'
    BY <1>3 DEF OrderInv
  <2>1. /\ Ascending(disk.series) /\ \A k \in DOMAIN disk.series : disk.series[k].trace \in delivered
    BY <1>7 DEF GateInv, OrderInv
  <2>2. NoEntry.series = <<>>
    BY DEF NoEntry
  <2>3. \A e \in Entries' : /\ Ascending(e.series)
                            /\ \A k \in DOMAIN e.series : e.series[k].trace \in delivered
    BY <1>7, <2>1, <2>2 DEF Ascending
  <2> QED
    BY <1>3, <1>4, <2>3 DEF OrderInv, Active
<1> QED
  BY <1>5, <1>6, <1>8, <1>9 DEF GateInv

LEMMA NextGate ==
  ASSUME GateInv, [GateNext]_gateVars
  PROVE  GateInv'
<1>1. CASE UNCHANGED gateVars
  BY <1>1
     DEF GateInv, GateTypeOK, WorkInv, SeriesInv, OrderInv, Entries, Active, Listing, Batched, Ahead,
         gateVars
<1>2. CASE \E i \in Traces : TraceCompletes(i)
  BY <1>2, TraceCompletesStep
<1>3. CASE \E t \in Turns : Turn(t) \/ GateStep(t)
  BY <1>3, TurnStep, ListStep, ScoreStep, FoldReturnsStep, EscalateStep, ReportStep, FoldStep
     DEF GateStep
<1>4. CASE GateForget
  BY <1>4, GateForgetStep
<1>5. CASE GateRestart
  BY <1>5, GateRestartStep
<1> QED
  BY <1>1, <1>2, <1>3, <1>4, <1>5 DEF GateNext

-----------------------------------------------------------------------------
(* What it says                                                            *)

\* The inductive invariant of the gate.
THEOREM GateInvariant == GateSpec => []GateInv
<1>1. GateInit => GateInv
  BY InitGate
<1>2. GateInv /\ [GateNext]_gateVars => GateInv'
  BY NextGate
<1> QED
  BY <1>1, <1>2, PTL DEF GateSpec

\* Every variable of the gate keeps its shape.
THEOREM GateTypeCorrect == GateSpec => []GateTypeOK
<1>1. GateInv => GateTypeOK
  BY DEF GateInv
<1> QED
  BY <1>1, GateInvariant, PTL

\* The peak of a series is one of its scores, and none of them is a gain above it,
\* whatever fires, whichever write fails and whenever the process dies
\* (record_gated() of evaluation/history.py).
THEOREM PeakIsKept == GateSpec => []PeakTracksBest
<1>1. GateInv => PeakTracksBest
  BY DEF GateInv, SeriesInv, EntryInv, PeakTracksBest
<1> QED
  BY <1>1, GateInvariant, PTL

\* evaluation/trajectory.py:19: "one stall does not re-fire on every subsequent
\* trace": two stalls of a series are a window of traces apart, for any window.
THEOREM StallsKeepTheirDistance == GateSpec => []StallsSpaced
<1>1. GateInv => StallsSpaced
  BY DEF GateInv, SeriesInv, EntryInv, StallsSpaced
<1> QED
  BY <1>1, GateInvariant, PTL

\* evaluation/trajectory.py:16: "a healthy climbing session never breaches however
\* long it runs": it does not while its traces enter the gate in order, for any
\* number of turns and traces.
THEOREM ClimbingDoesNotFire == GateSpec => []ClimbFiresOnlyDisturbed
<1>1. GateInv => ClimbFiresOnlyDisturbed
  BY DEF GateInv, SeriesInv, OrderInv, ClimbInv, ClimbFiresOnlyDisturbed
<1> QED
  BY <1>1, GateInvariant, PTL

=============================================================================
