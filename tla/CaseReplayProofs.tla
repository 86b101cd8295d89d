-------------------------- MODULE CaseReplayProofs --------------------------
(***************************************************************************)
(* The replays, proved for any case set, any margins and any sample: no    *)
(* verdict without a candidate that was read, and no failure ahead of the  *)
(* wins.  The store's operations run between the steps of a round; what    *)
(* they keep is taken from EvalSetProofs.                                  *)
(***************************************************************************)
EXTENDS CaseReplay, EvalSetProofs, SequenceTheorems

RoundState ==
  [kind : {"none", "validate", "regression"},
   pc : {"off", "wins", "next", "waiting", "running", "scoring"},
   todo : Seq(CaseRecord), batch : Batch(Metrics)]
ContextState == [surfaced : BOOLEAN, started : BOOLEAN, stray : BOOLEAN]
Verdicts == {"none", "promote", "retire", "pending", "clean", "dirty"}
DetailsState == [cases : Seq(Outcome), verdict : Verdicts]
Moves == UNION {[M -> (-TopScore)..TopScore] : M \in SUBSET Metrics}
Outcomes ==
  {"skipped", "inconclusive", "env_wait_timeout", "candidate_not_exercised",
   "scored", "improved", "unchanged", "regressed"}

-----------------------------------------------------------------------------
(* Operators                                                               *)

\* The first of what is left is replaced by what became of it.
Replaced(s, t, o) ==
  /\ Len(Append(s, o) \o Tail(t)) = Len(s \o t)
  /\ \A i \in 1..Len(s \o t) :
       i # Len(s) + 1 => (Append(s, o) \o Tail(t))[i] = (s \o t)[i]
  /\ (Append(s, o) \o Tail(t))[Len(s) + 1] = o
  /\ (s \o t)[Len(s) + 1] = Head(t)

LEMMA OneDone ==
  ASSUME NEW A, NEW s \in Seq(A), NEW t \in Seq(A), t # <<>>, NEW o \in A
  PROVE  Replaced(s, t, o)
<1> DEFINE k == s \o t
           l == Append(s, o) \o Tail(t)
           m == Len(s)
           n == Len(t)
<1>1. /\ m \in Nat /\ n \in Nat \ {0}
      /\ Tail(t) \in Seq(A) /\ Len(Tail(t)) = n - 1 /\ Head(t) = t[1]
      /\ \A i \in 1..(n - 1) : Tail(t)[i] = t[i + 1]
  BY HeadTailProperties, EmptySeq, LenProperties
<1>2. /\ Append(s, o) \in Seq(A) /\ Len(Append(s, o)) = m + 1 /\ Append(s, o)[m + 1] = o
      /\ \A i \in 1..m : Append(s, o)[i] = s[i]
  OBVIOUS
<1>3. /\ Len(k) = m + n
      /\ \A i \in 1..(m + n) : k[i] = IF i <= m THEN s[i] ELSE t[i - m]
  BY ConcatProperties
<1>4. /\ Len(l) = (m + 1) + (n - 1)
      /\ \A i \in 1..((m + 1) + (n - 1)) :
           l[i] = IF i <= m + 1 THEN Append(s, o)[i] ELSE Tail(t)[i - (m + 1)]
  BY <1>1, <1>2, ConcatProperties
<1> HIDE DEF k, l, m, n
<1>5. (m + 1) + (n - 1) = m + n /\ m + 1 \in 1..(m + n)
  BY <1>1
<1>6. k[m + 1] = Head(t)
  <2>1. ~(m + 1 <= m) /\ (m + 1) - m = 1
    BY <1>1
  <2> QED
    BY <1>1, <1>3, <1>5, <2>1
<1>7. l[m + 1] = o
  BY <1>1, <1>2, <1>4, <1>5
<1>8. ASSUME NEW i \in 1..(m + n), i # m + 1
      PROVE  l[i] = k[i]
  <2>1. CASE i <= m
    <3>1. i \in 1..m /\ i <= m + 1 /\ i \in 1..((m + 1) + (n - 1))
      BY <1>1, <1>5, <2>1
    <3> QED
      BY <1>2, <1>3, <1>4, <2>1, <3>1
  <2>2. CASE ~(i <= m)
    <3>1. /\ ~(i <= m + 1) /\ i \in 1..((m + 1) + (n - 1))
          /\ i - (m + 1) \in 1..(n - 1) /\ (i - (m + 1)) + 1 = i - m
      BY <1>1, <1>5, <1>8, <2>2
    <3>2. l[i] = Tail(t)[i - (m + 1)] /\ k[i] = t[i - m]
      BY <1>3, <1>4, <2>2, <3>1
    <3> QED
      BY <1>1, <3>1, <3>2
  <2> QED
    BY <2>1, <2>2
<1> QED
  BY <1>3, <1>4, <1>5, <1>6, <1>7, <1>8 DEF k, l, m, Replaced

\* A listing of cases with numbers of their own has each of them.
LEMMA ByAgeLists ==
  ASSUME NEW S, IsFiniteSet(S), \A c \in S : c.id \in Nat, \A c, d \in S : c.id = d.id => c = d
  PROVE  /\ ByAge(S) \in Seq(S)
         /\ \A c \in S : \E k \in 1..Len(ByAge(S)) : ByAge(S)[k] = c
<1> DEFINE key == [c \in S |-> -c.id]
           newer(c) == Cardinality({d \in S : d.id > c.id})
           nth(k) == CHOOSE c \in S : newer(c) = k - 1
           n == Cardinality(S)
<1>1. n \in Nat
  BY FS_CardinalityType
<1>2. key \in [S -> Int] /\ \A c, d \in S : key[c] = key[d] => c = d
  OBVIOUS
<1>3. \A c \in S : Rank(S, key, c) = newer(c) + 1
  <2> TAKE c \in S
  <2>1. Before(S, key, c) = {d \in S : d.id > c.id}
    BY DEF Before
  <2> QED
    BY <2>1 DEF Rank
<1>4. \A c \in S : newer(c) \in Nat
  <2> TAKE c \in S
  <2>1. {d \in S : d.id > c.id} \in SUBSET S
    OBVIOUS
  <2> QED
    BY <2>1, FS_Subset, FS_CardinalityType
<1>5. ByAge(S) = [k \in 1..n |-> nth(k)]
  BY DEF ByAge
<1> HIDE DEF newer
<1>6. \A k \in 1..n : nth(k) \in S /\ Rank(S, key, nth(k)) = k
  <2> TAKE k \in 1..n
  <2>1. PICK c \in S : Rank(S, key, c) = k
    BY <1>2, EveryRankIsTaken
  <2>2. newer(c) \in Nat /\ k = newer(c) + 1
    BY <1>3, <1>4, <2>1
  <2>3. newer(c) = k - 1
    BY <2>2
  <2>4. nth(k) \in S /\ newer(nth(k)) = k - 1
    BY <2>3
  <2>5. newer(nth(k)) + 1 = k
    BY <1>1, <2>4
  <2> QED
    BY <1>3, <2>4, <2>5
<1> HIDE DEF nth, n
<1>7. \A c \in S : \E k \in 1..n : nth(k) = c
  <2> TAKE c \in S
  <2>1. PICK r \in 1..n : r = Rank(S, key, c)
    BY <1>2, RankOrder DEF n
  <2>2. r \in 1..Cardinality(S)
    BY DEF n
  <2> HIDE DEF key
  <2>3. \E d \in S : Rank(S, key, d) = r /\ \A e \in S : Rank(S, key, e) = r => e = d
    BY <1>2, <2>2, EveryRankIsTaken
  <2>4. PICK d \in S : Rank(S, key, d) = r /\ \A e \in S : Rank(S, key, e) = r => e = d
    BY <2>3
  <2>5. nth(r) \in S /\ Rank(S, key, nth(r)) = r
    BY <1>6
  <2>6. nth(r) = d /\ c = d
    BY Zenon, <2>1, <2>4, <2>5
  <2> QED
    BY <2>6
<1>8. ByAge(S) \in Seq(S) /\ Len(ByAge(S)) = n
  <2>1. [k \in 1..n |-> nth(k)] \in [1..n -> S]
    BY <1>6
  <2>2. \A q \in [1..n -> S] : q \in Seq(S) /\ Len(q) = n
    BY <1>1
  <2> QED
    BY <1>5, <2>1, <2>2
<1>9. \A k \in 1..n : ByAge(S)[k] = nth(k)
  BY <1>5
<1> QED
  BY <1>7, <1>8, <1>9

-----------------------------------------------------------------------------
(* The inductive invariant                                                 *)

\* The cases a round has taken up: what became of the first ones, and the rest.
Run == details.cases \o round.todo

\* What a regression run rests on: the wins come first, every case was captured
\* before any that is written later, and with a failure taken every older win was.
Guards(k) ==
  /\ \A i, j \in DOMAIN k : i < j /\ k[i].kind = "failure" => k[j].kind = "failure"
  /\ \A i \in DOMAIN k : /\ k[i].id <= created
                         /\ \A w \in Writers : writer[w].pc = "writing" => k[i].id < writer[w].id
  /\ (\E i \in DOMAIN k : k[i].kind = "failure") =>
       \A c \in OfKind("win") :
         (\E i \in DOMAIN k : c.id < k[i].id) => \E i \in DOMAIN k : k[i].id = c.id

\* Where a round can stand.
Stands ==
  /\ round.pc \in {"waiting", "running", "scoring"} => round.todo # <<>>
  /\ round.pc # "off" => round.kind # "none"
  /\ round.pc = "wins" => round.kind = "validate"
  /\ round.kind = "validate" /\ round.pc # "off" => details.verdict = "none"

RoundInv ==
  /\ ReplayTypeOK /\ Stands /\ VerdictJustified
  /\ round.kind = "regression" => Guards(Run)

LEMMA ReplayShapes ==
  ASSUME ReplayTypeOK
  PROVE  /\ round \in RoundState /\ context \in ContextState /\ details \in DetailsState
         /\ round.todo \in Seq(CaseRecord) /\ details.cases \in Seq(Outcome)
         /\ round.batch \in Batch(Metrics)
BY DEF ReplayTypeOK, RoundState, ContextState, DetailsState, Verdicts

LEMMA ReplayShapesOK ==
  ASSUME round' \in RoundState, context' \in ContextState, details' \in DetailsState
  PROVE  ReplayTypeOK'
BY DEF ReplayTypeOK, RoundState, ContextState, DetailsState, Verdicts

LEMMA NoRoundTypes ==
  /\ NoRound \in RoundState /\ NoRound.kind = "none" /\ NoRound.pc = "off" /\ NoRound.todo = <<>>
  /\ NoContext \in ContextState /\ ~NoContext.surfaced
  /\ NoDetails \in DetailsState /\ NoDetails.cases = <<>> /\ NoDetails.verdict = "none"
  /\ NoBatch \in Batch(Metrics) /\ NoDeltas \in Moves
<1>1. NoBatch \in Batch(Metrics)
  BY NewBatchType
<1>2. NoDeltas \in Moves
  <2>1. {} \in SUBSET Metrics /\ NoDeltas \in [{} -> (-TopScore)..TopScore]
    BY DEF NoDeltas
  <2> QED
    BY <2>1 DEF Moves
<1> QED
  BY <1>1, <1>2 DEF NoRound, RoundState, NoContext, ContextState, NoDetails, DetailsState, Verdicts

\* The same cases in the same places.
LEMMA GuardsCarry ==
  ASSUME NEW k, NEW l, Guards(k), DOMAIN l = DOMAIN k,
         \A i \in DOMAIN k : l[i].id = k[i].id /\ l[i].kind = k[i].kind
  PROVE  Guards(l)
BY DEF Guards

\* A round that moves on with the same cases.
LEMMA RoundMoves ==
  ASSUME RoundInv, UNCHANGED <<details, cases, created, writer>>,
         round' \in RoundState, round'.kind = round.kind, round'.todo = round.todo,
         context' \in ContextState, context.surfaced => context'.surfaced,
         round.pc # "off" => round'.pc # "off",
         round'.pc # "off" => round.pc # "off",
         round'.pc # "wins",
         round'.pc \in {"waiting", "running", "scoring"} => round.todo # <<>>
  PROVE  RoundInv'
<1>1. ReplayTypeOK'
  <2>1. ReplayTypeOK
    BY DEF RoundInv
  <2>2. details' \in DetailsState
    BY <2>1, ReplayShapes
  <2> QED
    BY <2>2, ReplayShapesOK
<1>2. Stands'
  BY DEF RoundInv, Stands
<1>3. VerdictJustified'
  <2>1. Scored' = Scored
    BY DEF Scored
  <2>2. VerdictJustified
    BY DEF RoundInv
  <2> QED
    BY <2>1, <2>2 DEF VerdictJustified
<1>4. round'.kind = "regression" => Guards(Run)'
  <2>1. Run' = Run
    BY DEF Run
  <2> QED
    BY <2>1 DEF RoundInv, Guards, OfKind
<1> QED
  BY <1>1, <1>2, <1>3, <1>4 DEF RoundInv

\* A case is done with.
LEMMA DoneKeeps ==
  ASSUME RoundInv, UNCHANGED <<cases, created, writer>>,
         round.pc \in {"next", "waiting", "running", "scoring"}, round.todo # <<>>,
         NEW outcome \in Outcomes, NEW deltas \in Moves, Done(outcome, deltas),
         context' \in ContextState, context.surfaced => context'.surfaced,
         round.kind = "validate" /\ outcome = "scored" => context'.surfaced
  PROVE  RoundInv'
<1> DEFINE o == [id |-> ThisCase.id, kind |-> ThisCase.kind, outcome |-> outcome, deltas |-> deltas]
           todo == Tail(round.todo)
           done == Append(details.cases, o)
<1>1. /\ round \in RoundState /\ context \in ContextState /\ details \in DetailsState
      /\ round.todo \in Seq(CaseRecord) /\ details.cases \in Seq(Outcome)
  BY ReplayShapes DEF RoundInv
<1>2. /\ round' = [round EXCEPT !.pc = "next", !.todo = todo, !.batch = NoBatch]
      /\ details' = [details EXCEPT !.cases = done]
  BY DEF Done
<1>3. ThisCase \in CaseRecord /\ ThisCase = Head(round.todo) /\ todo \in Seq(CaseRecord)
  BY <1>1 DEF ThisCase
<1>4. o \in Outcome /\ o.id = ThisCase.id /\ o.kind = ThisCase.kind /\ o.outcome = outcome
  BY <1>3 DEF CaseRecord, Outcome, Outcomes, Moves
<1> HIDE DEF o, todo
<1>5. done \in Seq(Outcome)
  BY <1>1, <1>4
<1> HIDE DEF done
<1>6. /\ round' \in RoundState /\ round'.kind = round.kind /\ round'.pc = "next"
      /\ round'.todo = todo
  BY <1>1, <1>2, <1>3, NoRoundTypes DEF RoundState
<1>7. /\ details' \in DetailsState /\ details'.cases = done /\ details'.verdict = details.verdict
  BY <1>1, <1>2, <1>5 DEF DetailsState
<1>8. ReplayTypeOK'
  BY <1>6, <1>7, ReplayShapesOK
<1>9. Stands'
  BY <1>6, <1>7 DEF RoundInv, Stands
<1>10. VerdictJustified'
  <2> SUFFICES ASSUME round.kind = "validate" PROVE VerdictJustified'
    BY <1>6 DEF VerdictJustified
  <2>1. details'.verdict = "none"
    BY <1>7 DEF RoundInv, Stands
  <2>2. Scored' # {} => Scored # {} \/ outcome = "scored"
    <3> SUFFICES ASSUME Scored' # {} PROVE Scored # {} \/ outcome = "scored"
      OBVIOUS
    <3>1. PICK j \in DOMAIN done : done[j].outcome = "scored"
      BY <1>7 DEF Scored
    <3>2. CASE j = Len(details.cases) + 1
      BY <1>1, <1>4, <3>1, <3>2 DEF done
    <3>3. CASE j # Len(details.cases) + 1
      <4>1. j \in DOMAIN details.cases /\ details.cases[j] = done[j]
        BY <1>1, <1>4, <3>3 DEF done
      <4> QED
        BY <3>1, <4>1 DEF Scored
    <3> QED
      BY <3>2, <3>3
  <2>3. Scored' # {} => context'.surfaced
    BY <2>2 DEF RoundInv, VerdictJustified
  <2> QED
    BY <2>1, <2>3 DEF VerdictJustified
<1>11. round'.kind = "regression" => Guards(Run)'
  <2> SUFFICES ASSUME round.kind = "regression" PROVE Guards(Run)'
    BY <1>6
  <2> DEFINE A == Outcome \cup CaseRecord
             l == done \o todo
  <2>1. /\ details.cases \in Seq(A) /\ round.todo \in Seq(A) /\ o \in A
    BY <1>1, <1>4, SeqMonotonic
  <2> HIDE DEF A
  <2>2. /\ Len(l) = Len(Run)
        /\ \A i \in 1..Len(Run) : i # Len(details.cases) + 1 => l[i] = Run[i]
        /\ l[Len(details.cases) + 1] = o /\ Run[Len(details.cases) + 1] = ThisCase
    <3>1. Replaced(details.cases, round.todo, o)
      BY <2>1, OneDone
    <3> QED
      BY <1>3, <3>1, Zenon DEF Replaced, Run, done, todo
  <2>3. l \in Seq(A) /\ Run \in Seq(A)
    <3>1. done \in Seq(A) /\ todo \in Seq(A)
      BY <1>3, <1>5, SeqMonotonic DEF A
    <3> QED
      BY <2>1, <3>1, ConcatProperties DEF Run
  <2> HIDE DEF l
  <2>4. DOMAIN l = DOMAIN Run /\ \A i \in DOMAIN Run : l[i].id = Run[i].id /\ l[i].kind = Run[i].kind
    BY <1>4, <2>2, <2>3, LenProperties
  <2>5. Guards(l)
    BY <2>4, GuardsCarry DEF RoundInv
  <2>6. Run' = l
    BY <1>6, <1>7 DEF Run, l
  <2> QED
    BY <2>5, <2>6 DEF Guards, OfKind
<1> QED
  BY <1>8, <1>9, <1>10, <1>11 DEF RoundInv

\* A case moves by the difference of two scores.
LEMMA DeltasType ==
  ASSUME NEW D \in SUBSET Metrics, NEW scores \in [D -> Scores \cup {NoScore}],
         ThisCase \in CaseRecord
  PROVE  Deltas(scores) \in Moves
<1> DEFINE shared == {m \in DOMAIN scores : scores[m] # NoScore /\ ThisCase.baseline[m] # NoScore}
<1>1. TopScore \in Nat
  BY BatchLimits
<1>2. ThisCase.baseline \in [Metrics -> Scores \cup {NoScore}]
  BY DEF CaseRecord
<1>3. shared \in SUBSET Metrics
  OBVIOUS
<1>4. \A m \in shared : scores[m] - ThisCase.baseline[m] \in (-TopScore)..TopScore
  BY <1>1, <1>2 DEF Scores, NoScore
<1> HIDE DEF shared
<1>5. [m \in shared |-> scores[m] - ThisCase.baseline[m]] \in [shared -> (-TopScore)..TopScore]
  BY <1>4
<1> QED
  BY <1>3, <1>5 DEF Deltas, Moves, shared

-----------------------------------------------------------------------------
(* How a round begins                                                      *)

\* A listing of some of the files.
LEMMA ListsFiles ==
  ASSUME StoreInv, NEW S \in SUBSET cases
  PROVE  /\ ByAge(S) \in Seq(S) /\ ByAge(S) \in Seq(CaseRecord)
         /\ \A c \in S : \E k \in 1..Len(ByAge(S)) : ByAge(S)[k] = c
<1>1. IsFiniteSet(S)
  BY FS_Subset DEF StoreInv
<1>2. S \subseteq CaseRecord /\ \A c \in S : c.id \in Nat
  BY DEF StoreInv, CasesTypeOK, CaseRecord
<1>3. \A c, d \in S : c.id = d.id => c = d
  BY DEF StoreInv, Named
<1>4. /\ ByAge(S) \in Seq(S)
      /\ \A c \in S : \E k \in 1..Len(ByAge(S)) : ByAge(S)[k] = c
  BY <1>1, <1>2, <1>3, ByAgeLists
<1> QED
  BY <1>2, <1>4, SeqMonotonic

\* The wins, then the failures, cut short anywhere.
LEMMA WinsThenFailures ==
  ASSUME StoreInv, NEW m \in Nat,
         m <= Len(ByAge(OfKind("win")) \o ByAge(OfKind("failure"))),
         NEW k, DOMAIN k = 1..m,
         \A i \in 1..m : k[i] = (ByAge(OfKind("win")) \o ByAge(OfKind("failure")))[i]
  PROVE  Guards(k)
<1> DEFINE w == ByAge(OfKind("win"))
           f == ByAge(OfKind("failure"))
<1>1. /\ w \in Seq(OfKind("win")) /\ w \in Seq(CaseRecord)
      /\ \A c \in OfKind("win") : \E j \in 1..Len(w) : w[j] = c
      /\ f \in Seq(OfKind("failure")) /\ f \in Seq(CaseRecord)
  <2>1. OfKind("win") \in SUBSET cases /\ OfKind("failure") \in SUBSET cases
    BY DEF OfKind
  <2> QED
    BY <2>1, ListsFiles
<1> HIDE DEF w, f
<1>2. /\ Len(w) \in Nat /\ Len(f) \in Nat
      /\ Len(w \o f) = Len(w) + Len(f)
      /\ \A i \in 1..(Len(w) + Len(f)) : (w \o f)[i] = IF i <= Len(w) THEN w[i] ELSE f[i - Len(w)]
  BY <1>1, ConcatProperties, LenProperties
<1>3. m <= Len(w) + Len(f) /\ \A i \in 1..m : k[i] = (w \o f)[i]
  BY <1>2 DEF w, f
<1>4. \A i \in 1..m : i <= Len(w) => k[i] = w[i] /\ i \in 1..Len(w)
  BY <1>2, <1>3
<1>5. \A i \in 1..m : ~(i <= Len(w)) => k[i] \in OfKind("failure")
  <2> SUFFICES ASSUME NEW i \in 1..m, ~(i <= Len(w)) PROVE k[i] \in OfKind("failure")
    OBVIOUS
  <2>1. i \in 1..(Len(w) + Len(f)) /\ i - Len(w) \in 1..Len(f)
    BY <1>2, <1>3
  <2>2. k[i] = f[i - Len(w)]
    BY <1>2, <1>3, <2>1
  <2>3. f[i - Len(w)] \in OfKind("failure")
    BY <1>1, <2>1, ElementOfSeq
  <2> QED
    BY <2>2, <2>3
<1>6. \A i \in 1..m : i <= Len(w) => k[i] \in OfKind("win")
  BY <1>1, <1>4, ElementOfSeq
<1>7. \A i \in 1..m : k[i].kind = "failure" <=> ~(i <= Len(w))
  BY <1>5, <1>6 DEF OfKind
<1>8. \A i, j \in 1..m : i < j /\ k[i].kind = "failure" => k[j].kind = "failure"
  BY <1>2, <1>7
<1>9. \A i \in 1..m : k[i] \in cases
  BY <1>5, <1>6 DEF OfKind
<1>10. \A i \in 1..m : /\ k[i].id <= created
                       /\ \A v \in Writers : writer[v].pc = "writing" => k[i].id < writer[v].id
  BY <1>9 DEF StoreInv, Named
<1>11. ASSUME NEW i \in 1..m, k[i].kind = "failure", NEW c \in OfKind("win")
       PROVE  \E j \in 1..m : k[j].id = c.id
  <2>1. ~(i <= Len(w))
    BY <1>7, <1>11
  <2>2. PICK j \in 1..Len(w) : w[j] = c
    BY <1>1
  <2>3. j \in 1..m /\ j <= Len(w)
    BY <1>2, <2>1
  <2>4. k[j] = c
    BY <1>4, <2>2, <2>3
  <2> QED
    BY <2>3, <2>4
<1> QED
  BY <1>8, <1>10, <1>11 DEF Guards

LEMMA BeginRoundStep ==
  ASSUME RoundInv, StoreInv, BeginRound
  PROVE  RoundInv'
<1> DEFINE failures == Replayable(Matching(Matched), MaxFailures)
<1>1. failures \in SUBSET cases
  BY DEF Replayable, Matching, OfKind
<1>2. ByAge(failures) \in Seq(CaseRecord)
  BY <1>1, ListsFiles
<1> HIDE DEF failures
<1>3. context' \in ContextState
  BY NoRoundTypes DEF BeginRound
<1>4. CASE failures = {}
  <2>1. round' = NoRound /\ details' = [NoDetails EXCEPT !.verdict = "pending"]
    BY <1>4 DEF BeginRound, failures
  <2>2. round' \in RoundState /\ round'.kind = "none" /\ round'.pc = "off"
    BY <2>1, NoRoundTypes
  <2>3. details' \in DetailsState
    BY <2>1, NoRoundTypes DEF DetailsState, Verdicts
  <2>4. ReplayTypeOK'
    BY <1>3, <2>2, <2>3, ReplayShapesOK
  <2> QED
    BY <2>2, <2>4 DEF RoundInv, Stands, VerdictJustified
<1>5. CASE failures # {}
  <2>1. /\ round' = [NoRound EXCEPT !.kind = "validate", !.pc = "wins", !.todo = ByAge(failures)]
        /\ details' = NoDetails
    BY <1>5 DEF BeginRound, failures
  <2>2. round' \in RoundState /\ round'.kind = "validate" /\ round'.pc = "wins"
    BY <1>2, <2>1, NoRoundTypes DEF RoundState
  <2>3. details' \in DetailsState /\ details'.cases = <<>> /\ details'.verdict = "none"
    BY <2>1, NoRoundTypes
  <2>4. ReplayTypeOK'
    BY <1>3, <2>2, <2>3, ReplayShapesOK
  <2>5. Scored' = {}
    BY <2>3 DEF Scored
  <2> QED
    BY <2>2, <2>3, <2>4, <2>5 DEF RoundInv, Stands, VerdictJustified
<1> QED
  BY <1>4, <1>5

LEMMA BeginRegressionStep ==
  ASSUME RoundInv, StoreInv, BeginRegression, UNCHANGED <<cases, created, writer>>
  PROVE  RoundInv'
<1> DEFINE all == ByAge(OfKind("win")) \o ByAge(OfKind("failure"))
           cut == IF Sample > 0
                  THEN SubSeq(all, 1, IF Sample < Len(all) THEN Sample ELSE Len(all)) ELSE all
<1>1. all \in Seq(CaseRecord) /\ Len(all) \in Nat /\ DOMAIN all = 1..Len(all)
      /\ \A i \in 1..Len(all) : all[i] \in CaseRecord
  <2>1. OfKind("win") \in SUBSET cases /\ OfKind("failure") \in SUBSET cases
    BY DEF OfKind
  <2>2. ByAge(OfKind("win")) \in Seq(CaseRecord) /\ ByAge(OfKind("failure")) \in Seq(CaseRecord)
    BY <2>1, ListsFiles
  <2>3. all \in Seq(CaseRecord)
    BY <2>2, ConcatProperties
  <2> QED
    BY <2>3, LenProperties, ElementOfSeq
<1>2. round' = [NoRound EXCEPT !.kind = "regression", !.pc = "next", !.todo = cut]
  BY Zenon DEF BeginRegression
<1>3. context' \in ContextState /\ details' = NoDetails
  BY NoRoundTypes DEF BeginRegression
<1>4. Sample \in Nat
  BY ReplayLimits
<1> HIDE DEF all, cut
<1>5. \E n \in Nat : /\ n <= Len(all) /\ cut \in Seq(CaseRecord) /\ Len(cut) = n
                     /\ \A i \in 1..n : cut[i] = all[i]
  <2>1. CASE ~(Sample > 0)
    <3>1. cut = all
      BY <2>1 DEF cut
    <3>2. cut \in Seq(CaseRecord) /\ \A i \in 1..Len(all) : cut[i] = all[i]
      BY <1>1, <3>1
    <3>3. Len(cut) = Len(all) /\ Len(all) <= Len(all)
      BY <1>1, <3>1
    <3> QED
      BY <1>1, <3>2, <3>3
  <2>2. CASE Sample > 0
    <3>0. \A q \in Nat : \E n \in Nat : n = (IF Sample < q THEN Sample ELSE q) /\ n <= q
      BY <1>4
    <3>1. PICK n \in Nat : n = (IF Sample < Len(all) THEN Sample ELSE Len(all)) /\ n <= Len(all)
      BY <1>1, <3>0
    <3>2. cut = SubSeq(all, 1, n)
      BY <2>2, <3>1 DEF cut
    <3>3. \A i \in 1..n : all[i] \in CaseRecord
      <4>1. \A q \in Nat : n <= q => 1..n \subseteq 1..q
        OBVIOUS
      <4>2. 1..n \subseteq 1..Len(all)
        BY <1>1, <3>1, <4>1
      <4> QED
        BY <1>1, <4>2
    <3>4. /\ SubSeq(all, 1, n) \in Seq(CaseRecord)
          /\ Len(SubSeq(all, 1, n)) = IF 1 <= n THEN n - 1 + 1 ELSE 0
          /\ \A i \in 1..(n - 1 + 1) : SubSeq(all, 1, n)[i] = all[1 + i - 1]
      BY <3>3, SubSeqProperties
    <3>5. /\ cut \in Seq(CaseRecord)
          /\ Len(cut) = IF 1 <= n THEN n - 1 + 1 ELSE 0
          /\ \A i \in 1..(n - 1 + 1) : cut[i] = all[1 + i - 1]
      BY <3>2, <3>4
    <3>6. Len(cut) = n
      BY <3>5
    <3>7. \A i \in 1..n : cut[i] = all[i]
      <4> TAKE i \in 1..n
      <4>1. i \in 1..(n - 1 + 1) /\ 1 + i - 1 = i
        OBVIOUS
      <4> QED
        BY <3>5, <4>1
    <3> QED
      BY <3>1, <3>5, <3>6, <3>7
  <2> QED
    BY <2>1, <2>2
<1>6. /\ round' \in RoundState /\ round'.kind = "regression" /\ round'.pc = "next"
      /\ round'.todo = cut
  BY <1>2, <1>5, NoRoundTypes DEF RoundState
<1>7. details' \in DetailsState /\ details'.cases = <<>> /\ details'.verdict = "none"
  BY <1>3, NoRoundTypes
<1>8. ReplayTypeOK'
  BY <1>3, <1>6, <1>7, ReplayShapesOK
<1>9. Run' = cut
  <2>1. <<>> \o cut = cut
    BY <1>5, ConcatEmptySeq
  <2> QED
    BY <1>6, <1>7, <2>1 DEF Run
<1>10. Guards(cut)
  <2>1. PICK n \in Nat : /\ n <= Len(all) /\ cut \in Seq(CaseRecord) /\ Len(cut) = n
                         /\ \A i \in 1..n : cut[i] = all[i]
    BY <1>5
  <2>2. DOMAIN cut = 1..n
    BY <2>1
  <2> QED
    BY <2>1, <2>2, WinsThenFailures DEF all
<1>11. Guards(Run)'
  BY <1>9, <1>10 DEF Guards, OfKind
<1> QED
  BY <1>6, <1>8, <1>11 DEF RoundInv, Stands, VerdictJustified

-----------------------------------------------------------------------------
(* The steps of a round                                                    *)

LEMMA ReadWinsStep ==
  ASSUME RoundInv, StoreInv, ReadWins
  PROVE  RoundInv'
<1> DEFINE wins == Replayable(OfKind("win"), MaxWins)
           todo == round.todo \o ByAge(wins)
<1>1. round \in RoundState /\ details \in DetailsState /\ context \in ContextState
      /\ round.todo \in Seq(CaseRecord)
  BY ReplayShapes DEF RoundInv
<1>2. todo \in Seq(CaseRecord)
  <2>1. wins \in SUBSET cases
    BY DEF Replayable, OfKind
  <2>2. ByAge(wins) \in Seq(CaseRecord)
    BY <2>1, ListsFiles
  <2> QED
    BY <1>1, <2>2, ConcatProperties
<1>3. round' = [round EXCEPT !.pc = "next", !.todo = todo]
      /\ details' = details /\ context' = context /\ round.pc = "wins"
  BY DEF ReadWins
<1> HIDE DEF todo
<1>4. round' \in RoundState /\ round'.kind = round.kind /\ round'.pc = "next"
  BY <1>1, <1>2, <1>3 DEF RoundState
<1>5. round.kind = "validate" /\ details.verdict = "none"
  BY <1>3 DEF RoundInv, Stands
<1>6. ReplayTypeOK'
  BY <1>1, <1>3, <1>4, ReplayShapesOK
<1>7. VerdictJustified'
  BY <1>3, <1>4, <1>5 DEF RoundInv, VerdictJustified, Scored
<1> QED
  BY <1>3, <1>4, <1>5, <1>6, <1>7 DEF RoundInv, Stands

LEMMA StartReplayStep ==
  ASSUME RoundInv, UNCHANGED <<cases, created, writer>>, StartReplay
  PROVE  RoundInv'
<1>1. round \in RoundState /\ details \in DetailsState /\ context \in ContextState
  BY ReplayShapes DEF RoundInv
<1>2. round.pc = "next" /\ round.todo # <<>> /\ context' = context
  BY DEF StartReplay
<1>3. CASE Skipped
  <2>1. Done("skipped", NoDeltas) /\ NoDeltas \in Moves /\ "skipped" \in Outcomes
    BY <1>3, NoRoundTypes DEF Skipped, Outcomes
  <2> QED
    BY <1>1, <1>2, <2>1, DoneKeeps
<1>4. CASE ~Skipped
  <2>1. PICK pc \in {"waiting", "running"} : round' = [round EXCEPT !.pc = pc] /\ details' = details
    BY <1>4 DEF StartReplay
  <2>2. round' \in RoundState /\ round'.pc \in {"waiting", "running"}
        /\ round'.kind = round.kind /\ round'.todo = round.todo
    BY <1>1, <2>1 DEF RoundState
  <2> QED
    BY <1>1, <1>2, <2>1, <2>2, RoundMoves
<1> QED
  BY <1>3, <1>4

LEMMA ReplayOwnStep ==
  ASSUME RoundInv, UNCHANGED <<cases, created, writer>>,
         ReadCandidate \/ MarkStarted \/ ReplayReturns
  PROVE  RoundInv'
<1>1. round \in RoundState /\ details \in DetailsState /\ context \in ContextState
  BY ReplayShapes DEF RoundInv
<1>2. round.pc \in {"waiting", "running", "scoring"} => round.todo # <<>>
  BY DEF RoundInv, Stands
<1>3. CASE ReadCandidate
  <2>1. context' \in ContextState /\ context'.surfaced
    BY <1>1, <1>3 DEF ReadCandidate, ContextState
  <2>2. round' = round /\ details' = details /\ round.pc \in {"waiting", "running", "next", "scoring"}
    BY <1>3 DEF ReadCandidate, Replaying
  <2> QED
    BY <1>1, <1>2, <2>1, <2>2, RoundMoves
<1>4. CASE MarkStarted
  <2>1. context' \in ContextState /\ context'.surfaced = context.surfaced
    BY <1>1, <1>4 DEF MarkStarted, ContextState
  <2>2. round' = [round EXCEPT !.pc = IF round.pc = "waiting" THEN "running" ELSE round.pc]
        /\ details' = details /\ round.pc \in {"waiting", "running", "next", "scoring"}
    BY <1>4 DEF MarkStarted, Replaying
  <2>3. /\ round' \in RoundState /\ round'.kind = round.kind /\ round'.todo = round.todo
        /\ round'.pc = IF round.pc = "waiting" THEN "running" ELSE round.pc
    BY <1>1, <2>2 DEF RoundState
  <2> QED
    BY <1>2, <2>1, <2>2, <2>3, RoundMoves
<1>5. CASE ReplayReturns
  <2>1. PICK b \in Rescored : round' = [round EXCEPT !.pc = "scoring", !.batch = b]
    BY <1>5 DEF ReplayReturns
  <2>2. b \in Batch(Metrics)
    <3>1. Metrics \in SUBSET Metrics /\ {} \in SUBSET Metrics
      OBVIOUS
    <3> QED
      BY <3>1, NewBatchType DEF Rescored
  <2>3. /\ round' \in RoundState /\ round'.kind = round.kind /\ round'.todo = round.todo
        /\ round'.pc = "scoring"
    BY <1>1, <2>1, <2>2 DEF RoundState
  <2>4. context' = context /\ details' = details /\ round.pc \in {"waiting", "running"}
    BY <1>5 DEF ReplayReturns, Replaying
  <2> QED
    BY <1>1, <1>2, <2>3, <2>4, RoundMoves
<1> QED
  BY <1>3, <1>4, <1>5

LEMMA InconclusiveIsNoScore == Inconclusive \in Outcomes /\ Inconclusive # "scored"
BY DEF Inconclusive, Outcomes

LEMMA ReplayEndsStep ==
  ASSUME RoundInv, UNCHANGED <<cases, created, writer>>, ReplayRaises \/ ReplayTimesOut
  PROVE  RoundInv'
<1>1. context \in ContextState
  BY ReplayShapes DEF RoundInv
<1>2. round.pc \in {"waiting", "running"} /\ Done(Inconclusive, NoDeltas)
  BY DEF ReplayRaises, ReplayTimesOut, Replaying
<1>3. round.todo # <<>>
  BY <1>2 DEF RoundInv, Stands
<1>4. context' \in ContextState /\ context'.surfaced = context.surfaced
  BY <1>1 DEF ReplayRaises, ReplayTimesOut, ContextState
<1>5. NoDeltas \in Moves
  BY NoRoundTypes
<1> HIDE DEF Inconclusive
<1> QED
  BY <1>2, <1>3, <1>4, <1>5, InconclusiveIsNoScore, DoneKeeps

\* What a scored case comes to; only a round whose candidate was read counts it.
LEMMA ScoredOutcome ==
  ASSUME NEW scores, Deltas(scores) \in Moves,
         \/ round.kind = "regression" /\ Classified(scores)
         \/ round.kind # "regression" /\ Judged(scores)
  PROVE  \E outcome \in Outcomes, deltas \in Moves :
           /\ Done(outcome, deltas)
           /\ round.kind = "validate" /\ outcome = "scored" => context.surfaced
<1> DEFINE Result(outcome, deltas) ==
             /\ Done(outcome, deltas)
             /\ round.kind = "validate" /\ outcome = "scored" => context.surfaced
<1> HIDE DEF Done, Deltas, Inconclusive
<1>1. NoDeltas \in Moves
  BY NoRoundTypes
<1>2. CASE round.kind = "regression" /\ Classified(scores)
  <2>1. PICK outcome \in {"skipped", "regressed", "improved", "unchanged"}, deltas \in Moves :
             Done(outcome, deltas)
    BY <1>1, <1>2 DEF Classified, Skipped
  <2> QED
    BY <2>1 DEF Outcomes
<1>3. CASE round.kind # "regression" /\ Judged(scores)
  <2>1. \/ Done(Inconclusive, NoDeltas) \/ Done("inconclusive", NoDeltas)
        \/ Done("candidate_not_exercised", NoDeltas)
        \/ context.surfaced /\ Done("scored", Deltas(scores))
    BY <1>3 DEF Judged
  <2>2. CASE Done(Inconclusive, NoDeltas)
    BY <1>1, <2>2, InconclusiveIsNoScore
  <2>3. CASE Done("inconclusive", NoDeltas)
    BY <1>1, <2>3 DEF Outcomes
  <2>4. CASE Done("candidate_not_exercised", NoDeltas)
    BY <1>1, <2>4 DEF Outcomes
  <2>5. CASE context.surfaced /\ Done("scored", Deltas(scores))
    BY <2>5 DEF Outcomes
  <2> QED
    BY <2>1, <2>2, <2>3, <2>4, <2>5
<1> QED
  BY <1>2, <1>3

LEMMA ScoreReplayStep ==
  ASSUME RoundInv, UNCHANGED <<cases, created, writer>>, ScoreReplay
  PROVE  RoundInv'
<1>1. round \in RoundState /\ context \in ContextState /\ round.todo \in Seq(CaseRecord)
      /\ round.batch \in Batch(Metrics)
  BY ReplayShapes DEF RoundInv
<1>2. round.pc = "scoring" /\ context' = context
  BY DEF ScoreReplay
<1>3. round.todo # <<>>
  BY <1>2 DEF RoundInv, Stands
<1>4. CASE \/ round.kind = "regression" /\ Classified(round.batch.scores)
           \/ round.kind # "regression" /\ Judged(round.batch.scores)
  <2>1. ThisCase \in CaseRecord
    BY <1>1, <1>3 DEF ThisCase
  <2>2. PICK D \in SUBSET Metrics : round.batch.scores \in [D -> Scores \cup {NoScore}]
    BY <1>1 DEF Batch
  <2>3. Deltas(round.batch.scores) \in Moves
    BY <2>1, <2>2, DeltasType
  <2>4. PICK outcome \in Outcomes, deltas \in Moves :
           /\ Done(outcome, deltas)
           /\ round.kind = "validate" /\ outcome = "scored" => context.surfaced
    BY <1>4, <2>3, ScoredOutcome
  <2> HIDE DEF Done
  <2> QED
    BY <1>1, <1>2, <1>3, <2>4, DoneKeeps
<1>5. CASE Done(Inconclusive, NoDeltas)
  <2>1. NoDeltas \in Moves
    BY NoRoundTypes
  <2> HIDE DEF Inconclusive
  <2> QED
    BY <1>1, <1>2, <1>3, <1>5, <2>1, InconclusiveIsNoScore, DoneKeeps
<1>6. CASE \E b \in NextBatches(round.batch) : round' = [round EXCEPT !.batch = b] /\ UNCHANGED details
  <2>1. PICK b \in NextBatches(round.batch) : round' = [round EXCEPT !.batch = b] /\ UNCHANGED details
    BY <1>6
  <2>2. b \in Batch(Metrics)
    BY <1>1, <2>1, NextBatchType
  <2>3. /\ round' \in RoundState /\ round'.kind = round.kind /\ round'.todo = round.todo
        /\ round'.pc = round.pc
    BY <1>1, <2>1, <2>2 DEF RoundState
  <2> QED
    BY <1>1, <1>2, <1>3, <2>1, <2>3, RoundMoves
<1> QED
  BY <1>4, <1>5, <1>6 DEF ScoreReplay

\* What the verdict rests on.
LEMMA VerdictRests ==
  ASSUME details.cases \in Seq(Outcome)
  PROVE  /\ Verdict \in {"promote", "retire", "pending"}
         /\ Verdict \in {"promote", "retire"} => Scored # {}
         /\ Verdict = "promote" =>
              /\ \E d \in Scored : d.kind = "failure"
              /\ \A d \in Scored : d.kind = "win" => \A m \in DOMAIN d.deltas : d.deltas[m] > -RegressMargin
<1>1. RegressMargin \in Nat /\ TopScore \in Nat
  BY ReplayLimits, BatchLimits
<1>2. \A d \in Scored : \A m \in DOMAIN d.deltas : d.deltas[m] \in Int
  <2> SUFFICES ASSUME NEW d \in Scored, NEW m \in DOMAIN d.deltas PROVE d.deltas[m] \in Int
    OBVIOUS
  <2>1. d \in Outcome
    BY ElementOfSeq DEF Scored
  <2>2. PICK D \in SUBSET Metrics : d.deltas \in [D -> (-TopScore)..TopScore]
    BY <2>1 DEF Outcome
  <2> QED
    BY <1>1, <2>2
<1>3. \A d \in Scored : d.kind = "win" /\ ~Lost(d) =>
        \A m \in DOMAIN d.deltas : d.deltas[m] > -RegressMargin
  BY <1>1, <1>2 DEF Lost
<1> HIDE DEF Scored
<1> QED
  BY <1>3 DEF Verdict

LEMMA EndRoundStep ==
  ASSUME RoundInv, UNCHANGED <<cases, created, writer>>, EndRound
  PROVE  RoundInv'
<1>1. /\ round \in RoundState /\ context \in ContextState /\ details \in DetailsState
      /\ details.cases \in Seq(Outcome)
  BY ReplayShapes DEF RoundInv
<1>2. PICK verdict \in Verdicts :
           /\ details' = [details EXCEPT !.verdict = verdict]
           /\ round.kind = "validate" => verdict = Verdict
  <2>1. Verdict \in Verdicts
    BY <1>1, VerdictRests DEF Verdicts
  <2> HIDE DEF Verdict
  <2> QED
    BY <2>1 DEF EndRound, Verdicts
<1>3. /\ round.todo = <<>> /\ context' = context /\ round' = [NoRound EXCEPT !.kind = round.kind]
  BY DEF EndRound
<1>4. /\ round' \in RoundState /\ round'.kind = round.kind /\ round'.pc = "off"
      /\ round'.todo = <<>>
  <2>1. round.kind \in {"none", "validate", "regression"}
    BY <1>1 DEF RoundState
  <2> QED
    BY <1>3, <2>1, NoRoundTypes DEF RoundState
<1>5. /\ details' \in DetailsState /\ details'.cases = details.cases /\ details'.verdict = verdict
  BY <1>1, <1>2 DEF DetailsState
<1>6. ReplayTypeOK'
  BY <1>1, <1>3, <1>4, <1>5, ReplayShapesOK
<1>7. Stands'
  BY <1>4 DEF Stands
<1>8. VerdictJustified'
  <2> SUFFICES ASSUME round.kind = "validate" PROVE VerdictJustified'
    BY <1>4 DEF VerdictJustified
  <2>1. Scored' = Scored /\ context' = context
    BY <1>3, <1>5 DEF Scored
  <2>2. Scored # {} => context.surfaced
    BY DEF RoundInv, VerdictJustified
  <2>3. /\ verdict \in {"promote", "retire"} => Scored # {}
        /\ verdict = "promote" =>
             /\ \E d \in Scored : d.kind = "failure"
             /\ \A d \in Scored : d.kind = "win" => \A m \in DOMAIN d.deltas : d.deltas[m] > -RegressMargin
    BY <1>1, <1>2, VerdictRests, Zenon
  <2> HIDE DEF Scored
  <2> QED
    BY <1>5, <2>1, <2>2, <2>3, Zenon DEF VerdictJustified
<1>9. round'.kind = "regression" => Guards(Run)'
  <2>1. Run' = Run
    BY <1>3, <1>4, <1>5 DEF Run
  <2> QED
    BY <1>4, <2>1 DEF RoundInv, Guards, OfKind
<1> QED
  BY <1>6, <1>7, <1>8, <1>9 DEF RoundInv

LEMMA RoundStarts == ReplayInit => RoundInv
<1> SUFFICES ASSUME ReplayInit PROVE RoundInv
  OBVIOUS
<1>1. round = NoRound /\ context = NoContext /\ details = NoDetails
  BY DEF ReplayInit
<1>2. ReplayTypeOK
  BY <1>1, NoRoundTypes DEF ReplayTypeOK, RoundState, ContextState, DetailsState, Verdicts
<1> QED
  BY <1>1, <1>2, NoRoundTypes DEF RoundInv, Stands, VerdictJustified

LEMMA ReplayKeeps ==
  ASSUME RoundInv, StoreInv, ReplayNext, UNCHANGED <<cases, created, writer>>
  PROVE  RoundInv'
BY BeginRoundStep, BeginRegressionStep, ReadWinsStep, StartReplayStep, ReplayOwnStep, ReplayEndsStep,
   ScoreReplayStep, EndRoundStep
   DEF ReplayNext, RoundStep

-----------------------------------------------------------------------------
(* The files change under a round                                          *)

\* A new file has a number of its own, and a win that is there was there before or
\* is newer than everything that was.
LEMMA FilesMove ==
  ASSUME StoreInv, StoreStep
  PROVE  /\ created' \in Nat /\ created' >= created
         /\ \A w \in Writers : writer'[w].pc = "writing" =>
              \/ writer[w].pc = "writing" /\ writer'[w].id = writer[w].id
              \/ writer'[w].id = created + 1
         /\ \A c \in OfKind("win")' :
              \/ \E d \in OfKind("win") : d.id = c.id
              \/ \E w \in Writers : writer[w].pc = "writing" /\ c.id = writer[w].id
<1>1. /\ cases \in SUBSET CaseRecord /\ writer \in [Writers -> WriterState]
      /\ created \in Nat
  BY CaseLimits DEF StoreInv, CasesTypeOK
<1>2. OfKind("win")' = {c \in cases' : c.kind = "win"} /\ OfKind("win") = {c \in cases : c.kind = "win"}
  BY DEF OfKind
<1>3. CASE \E w \in Writers, key \in SUBSET Keys, kind \in {"failure", "win"}, input \in BOOLEAN,
               b \in [Metrics -> Scores \cup {NoScore}] : Capture(w, key, kind, input, b)
  <2>1. PICK w \in Writers : /\ \A v \in Writers \ {w} : writer'[v] = writer[v]
                             /\ writer'[w].pc = "calling" /\ UNCHANGED <<cases, created>>
    BY <1>1, <1>3 DEF Capture
  <2> QED
    BY <1>1, <1>2, <2>1
<1>4. CASE \E w \in Writers : Enter(w)
  <2>1. PICK w \in Writers : Enter(w)
    BY <1>4
  <2>2. CASE writer' = [writer EXCEPT ![w] = NoCapture] /\ UNCHANGED <<cases, created>>
    <3>1. writer'[w].pc = "idle" /\ \A v \in Writers \ {w} : writer'[v] = writer[v]
      BY <1>1, <2>2, NoCaptureType
    <3> QED
      BY <1>1, <1>2, <2>2, <3>1
  <2>3. CASE /\ cases' \subseteq cases /\ created' = created + 1
             /\ writer' = [writer EXCEPT ![w].pc = "writing", ![w].id = created + 1]
    <3> DEFINE x == [writer[w] EXCEPT !.pc = "writing", !.id = created + 1]
    <3>1. x.id = created + 1
      <4>1. writer[w] \in WriterState
        BY <1>1
      <4> QED
        BY <4>1 DEF WriterState
    <3>2. writer' = [writer EXCEPT ![w] = x]
      BY <1>1, <2>3, Zenon
    <3> HIDE DEF x
    <3>3. writer'[w].id = created + 1 /\ \A v \in Writers \ {w} : writer'[v] = writer[v]
      BY <1>1, <3>1, <3>2
    <3> QED
      BY <1>1, <1>2, <2>3, <3>3
  <2> QED
    BY <2>1, <2>2, <2>3 DEF Enter
<1>5. CASE \E w \in Writers : Write(w)
  <2>1. PICK w \in Writers : Write(w)
    BY <1>5
  <2> DEFINE file == CaseFile(writer[w].id, writer[w].key, writer[w].kind, writer[w].replayable,
                              writer[w].baseline)
  <2>2. /\ writer[w].pc = "writing" /\ cases' = cases \cup {file} /\ created' = created
        /\ writer' = [writer EXCEPT ![w] = NoCapture]
    BY <2>1 DEF Write
  <2>3. file.id = writer[w].id
    BY DEF CaseFile
  <2>4. writer'[w].pc = "idle" /\ \A v \in Writers \ {w} : writer'[v] = writer[v]
    BY <1>1, <2>2, NoCaptureType
  <2> HIDE DEF file
  <2> QED
    BY <1>1, <1>2, <2>2, <2>3, <2>4
<1>6. CASE \E id \in 1..MaxCaptures : AttachInput(id) \/ RemoveCase(id)
  <2>1. UNCHANGED <<writer, created>>
    BY <1>6 DEF AttachInput, RemoveCase
  <2>2. \A c \in cases' : \E d \in cases : d.id = c.id /\ d.kind = c.kind
    <3>1. CASE \E id \in 1..MaxCaptures : AttachInput(id)
      <4>1. PICK c \in cases : cases' = (cases \ {c}) \cup {[c EXCEPT !.replayable = TRUE]}
        BY <3>1 DEF AttachInput
      <4>2. [c EXCEPT !.replayable = TRUE].id = c.id /\ [c EXCEPT !.replayable = TRUE].kind = c.kind
        BY <1>1 DEF CaseRecord
      <4> QED
        BY <4>1, <4>2
    <3>2. CASE \E id \in 1..MaxCaptures : RemoveCase(id)
      BY <3>2 DEF RemoveCase
    <3> QED
      BY <1>6, <3>1, <3>2
  <2> QED
    BY <1>1, <1>2, <2>1, <2>2
<1>7. CASE CasesRestart
  <2>1. \A w \in Writers : writer'[w].pc = "idle"
    BY <1>7, NoCaptureType DEF CasesRestart
  <2> QED
    BY <1>1, <1>2, <1>7, <2>1 DEF CasesRestart
<1>8. CASE UNCHANGED caseVars
  BY <1>1, <1>2, <1>8 DEF caseVars
<1> QED
  BY <1>3, <1>4, <1>5, <1>6, <1>7, <1>8 DEF StoreStep

LEMMA GuardsSurvive ==
  ASSUME StoreInv, StoreStep, NEW k, Guards(k), \A i \in DOMAIN k : k[i].id \in Nat
  PROVE  Guards(k)'
<1>1. created \in Nat /\ writer \in [Writers -> WriterState]
  BY CaseLimits DEF StoreInv, CasesTypeOK
<1>2. /\ created' \in Nat /\ created' >= created
      /\ \A w \in Writers : writer'[w].pc = "writing" =>
           \/ writer[w].pc = "writing" /\ writer'[w].id = writer[w].id
           \/ writer'[w].id = created + 1
      /\ \A c \in OfKind("win")' :
           \/ \E d \in OfKind("win") : d.id = c.id
           \/ \E w \in Writers : writer[w].pc = "writing" /\ c.id = writer[w].id
  BY FilesMove
<1>3. \A w \in Writers : writer[w].id \in Nat
  BY <1>1, CaseLimits DEF WriterState
<1>4. \A i, j \in DOMAIN k : i < j /\ k[i].kind = "failure" => k[j].kind = "failure"
  BY DEF Guards
<1>5. \A i \in DOMAIN k : /\ k[i].id <= created'
                          /\ \A w \in Writers : writer'[w].pc = "writing" => k[i].id < writer'[w].id
  <2> TAKE i \in DOMAIN k
  <2>1. /\ k[i].id \in Nat /\ k[i].id <= created
        /\ \A w \in Writers : writer[w].pc = "writing" => k[i].id < writer[w].id
    BY DEF Guards
  <2>2. k[i].id <= created' /\ k[i].id < created + 1
    BY <1>1, <1>2, <2>1
  <2> QED
    BY <1>2, <2>1, <2>2
<1>6. ASSUME \E i \in DOMAIN k : k[i].kind = "failure",
             NEW c \in OfKind("win")', NEW i \in DOMAIN k, c.id < k[i].id
      PROVE  \E j \in DOMAIN k : k[j].id = c.id
  <2>1. CASE \E d \in OfKind("win") : d.id = c.id
    <3>1. PICK d \in OfKind("win") : d.id = c.id
      BY <2>1
    <3>2. d.id < k[i].id
      BY <1>6, <3>1
    <3>3. \E j \in DOMAIN k : k[j].id = d.id
      BY <1>6, <3>2 DEF Guards
    <3> QED
      BY <3>1, <3>3
  <2>2. CASE \E w \in Writers : writer[w].pc = "writing" /\ c.id = writer[w].id
    <3>1. PICK w \in Writers : writer[w].pc = "writing" /\ c.id = writer[w].id
      BY <2>2
    <3>2. k[i].id < writer[w].id
      BY <3>1 DEF Guards
    <3> QED
      BY <1>3, <1>6, <3>1, <3>2
  <2> QED
    BY <1>2, <2>1, <2>2
<1> QED
  BY <1>4, <1>5, <1>6 DEF Guards

LEMMA RunType ==
  ASSUME ReplayTypeOK
  PROVE  \A i \in DOMAIN Run : Run[i].id \in Nat
<1> DEFINE A == Outcome \cup CaseRecord
<1>1. \A x \in A : x.id \in Nat
  BY DEF Outcome, CaseRecord
<1>2. details.cases \in Seq(A) /\ round.todo \in Seq(A)
  BY ReplayShapes, SeqMonotonic
<1> HIDE DEF A
<1>3. Run \in Seq(A)
  BY <1>2, ConcatProperties DEF Run
<1> QED
  BY <1>1, <1>3, ElementOfSeq, LenProperties

\* Captures, evictions, inputs and removals leave a round what it is.
LEMMA FilesKeepRounds ==
  ASSUME RoundInv, StoreInv, StoreStep, UNCHANGED replayVars
  PROVE  RoundInv'
<1>1. UNCHANGED <<round, context, details>>
  BY DEF replayVars
<1>2. ReplayTypeOK' /\ Stands' /\ VerdictJustified'
  BY <1>1 DEF RoundInv, ReplayTypeOK, Stands, VerdictJustified, Scored
<1>3. round'.kind = "regression" => Guards(Run)'
  <2> SUFFICES ASSUME round.kind = "regression" PROVE Guards(Run)'
    BY <1>1
  <2>1. PICK k : k = Run
    OBVIOUS
  <2>2. Guards(k) /\ \A i \in DOMAIN k : k[i].id \in Nat
    BY <2>1, RunType DEF RoundInv
  <2>3. Guards(k)'
    BY <2>2, GuardsSurvive
  <2>4. Run' = k
    BY <1>1, <2>1 DEF Run
  <2> QED
    BY <2>3, <2>4 DEF Guards
<1> QED
  BY <1>2, <1>3 DEF RoundInv

\* The guard of a regression run, as the runs state it.
LEMMA GuardsAreFirst ==
  ASSUME RoundInv
  PROVE  WinsGuardFirst
<1> SUFFICES ASSUME round.kind = "regression" PROVE WinsGuardFirst
  BY DEF WinsGuardFirst
<1> DEFINE A == Outcome \cup CaseRecord
           s == details.cases
           t == round.todo
<1>1. s \in Seq(A) /\ t \in Seq(A)
  BY ReplayShapes, SeqMonotonic DEF RoundInv
<1> HIDE DEF A, s, t
<1>2. /\ Len(s) \in Nat /\ Len(t) \in Nat /\ DOMAIN s = 1..Len(s) /\ DOMAIN t = 1..Len(t)
      /\ DOMAIN (s \o t) = 1..(Len(s) + Len(t))
      /\ \A i \in 1..(Len(s) + Len(t)) : (s \o t)[i] = IF i <= Len(s) THEN s[i] ELSE t[i - Len(s)]
  BY <1>1, ConcatProperties, LenProperties
<1>3. Run = s \o t /\ Taken = {s[j].id : j \in DOMAIN s} \cup {t[j].id : j \in DOMAIN t}
  BY DEF Run, Taken, s, t
<1>4. \A id : id \in Taken <=> \E i \in DOMAIN Run : Run[i].id = id
  <2> TAKE id
  <2>1. ASSUME NEW j \in DOMAIN s, s[j].id = id PROVE \E i \in DOMAIN Run : Run[i].id = id
    <3>1. j \in 1..(Len(s) + Len(t)) /\ j <= Len(s)
      BY <1>2
    <3> QED
      BY <1>2, <1>3, <2>1, <3>1
  <2>2. ASSUME NEW j \in DOMAIN t, t[j].id = id PROVE \E i \in DOMAIN Run : Run[i].id = id
    <3>1. /\ j + Len(s) \in 1..(Len(s) + Len(t)) /\ ~(j + Len(s) <= Len(s))
          /\ (j + Len(s)) - Len(s) = j
      BY <1>2
    <3>2. (s \o t)[j + Len(s)] = t[j]
      BY <1>2, <3>1
    <3> QED
      BY <1>2, <1>3, <2>2, <3>1, <3>2
  <2>3. ASSUME NEW i \in DOMAIN Run, Run[i].id = id PROVE id \in Taken
    <3>1. CASE i <= Len(s)
      BY <1>2, <1>3, <2>3, <3>1
    <3>2. CASE ~(i <= Len(s))
      <4>1. i - Len(s) \in 1..Len(t)
        BY <1>2, <1>3, <3>2
      <4> QED
        BY <1>2, <1>3, <2>3, <3>2, <4>1
    <3> QED
      BY <3>1, <3>2
  <2> QED
    BY <1>3, <2>1, <2>2, <2>3
<1>5. Guards(Run)
  BY DEF RoundInv
<1> HIDE DEF Taken
<1>6. (\E i \in DOMAIN Run : Run[i].kind = "failure") =>
        \A c \in OfKind("win") : (\E id \in Taken : c.id < id) => c.id \in Taken
  BY <1>4, <1>5 DEF Guards
<1>7. \A i, j \in DOMAIN Run : i < j /\ Run[i].kind = "failure" => Run[j].kind = "failure"
  BY <1>5 DEF Guards
<1> QED
  BY <1>6, <1>7, Zenon DEF WinsGuardFirst, Run

=============================================================================
