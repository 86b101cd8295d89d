------------------------- MODULE MetricBatchProofs -------------------------
(***************************************************************************)
(* Lemmas that several components rest on: least members and ranks of      *)
(* finite sets, which say that a listing in some order exists, and what a  *)
(* batch of scores looks like whatever the platform answers.               *)
(***************************************************************************)
EXTENDS MetricBatch, Integers, FiniteSetTheorems, WellFoundedInduction, TLAPS

-----------------------------------------------------------------------------
(* Order                                                                   *)

\* Every non-empty set of naturals has a least member.
LEMMA LeastNatural ==
  ASSUME NEW T \in SUBSET Nat, T # {}
  PROVE  \E least \in T : \A q \in T : least <= q
<1> DEFINE R == OpToRel(<, Nat)
<1>1. IsWellFoundedOn(R, Nat)
  BY NatLessThanWellFounded
<1>2. \A x, y \in Nat : y < x => <<y, x>> \in R
  BY DEF OpToRel
<1> HIDE DEF R
<1>3. PICK least \in T : \A q \in T : <<q, least>> \notin R
  BY <1>1, WFMin
<1>4. \A q \in T : ~ (q < least)
  BY <1>2, <1>3
<1> QED
  BY <1>4

\* The rank of a member is how many come before it by their keys.
Before(S, key, c) == {d \in S : key[d] < key[c]}
Rank(S, key, c) == Cardinality(Before(S, key, c)) + 1

\* Of two members the one with the smaller key has the smaller rank.
LEMMA RankOrder ==
  ASSUME NEW S, IsFiniteSet(S), NEW key \in [S -> Int], NEW c \in S, NEW d \in S
  PROVE  /\ Rank(S, key, c) \in 1..Cardinality(S)
         /\ key[c] < key[d] <=> Rank(S, key, c) < Rank(S, key, d)
<1>1. \A a \in S : /\ IsFiniteSet(Before(S, key, a)) /\ Cardinality(Before(S, key, a)) \in Nat
                   /\ Cardinality(Before(S, key, a)) < Cardinality(S)
  <2> SUFFICES ASSUME NEW a \in S
               PROVE  /\ IsFiniteSet(Before(S, key, a)) /\ Cardinality(Before(S, key, a)) \in Nat
                      /\ Cardinality(Before(S, key, a)) < Cardinality(S)
    OBVIOUS
  <2>1. Before(S, key, a) \subseteq S \ {a}
    BY DEF Before
  <2>2. IsFiniteSet(S \ {a}) /\ Cardinality(S \ {a}) = Cardinality(S) - 1
    BY FS_RemoveElement
  <2>3. /\ IsFiniteSet(Before(S, key, a))
        /\ Cardinality(Before(S, key, a)) <= Cardinality(S \ {a})
    BY <2>1, <2>2, FS_Subset
  <2> QED
    BY <2>2, <2>3, FS_CardinalityType
<1>2. Cardinality(S) \in Nat
  BY FS_CardinalityType
<1>3. ASSUME NEW a \in S, NEW b \in S, key[a] < key[b]
      PROVE  Cardinality(Before(S, key, a)) < Cardinality(Before(S, key, b))
  <2>1. /\ Before(S, key, a) \subseteq Before(S, key, b)
        /\ a \in Before(S, key, b) /\ a \notin Before(S, key, a)
    BY <1>3 DEF Before
  <2>2. /\ Cardinality(Before(S, key, a)) <= Cardinality(Before(S, key, b))
        /\ Cardinality(Before(S, key, a)) # Cardinality(Before(S, key, b))
    BY <1>1, <2>1, FS_Subset
  <2> QED
    BY <1>1, <2>2
<1>4. ASSUME NEW a \in S, NEW b \in S, ~ (key[a] < key[b])
      PROVE  Cardinality(Before(S, key, b)) <= Cardinality(Before(S, key, a))
  <2>1. Before(S, key, b) \subseteq Before(S, key, a)
    BY <1>4 DEF Before
  <2> QED
    BY <1>1, <2>1, FS_Subset
<1>5. Rank(S, key, c) \in 1..Cardinality(S)
  BY <1>1, <1>2 DEF Rank
<1>6. key[c] < key[d] => Rank(S, key, c) < Rank(S, key, d)
  BY <1>1, <1>3 DEF Rank
<1>7. ~ (key[c] < key[d]) => ~ (Rank(S, key, c) < Rank(S, key, d))
  BY <1>1, <1>4 DEF Rank
<1> QED
  BY <1>5, <1>6, <1>7

\* With keys of their own the members have all the ranks there are: a listing by
\* rank names each of them once.
LEMMA EveryRankIsTaken ==
  ASSUME NEW S, IsFiniteSet(S), NEW key \in [S -> Int],
         \A c, d \in S : key[c] = key[d] => c = d,
         NEW k \in 1..Cardinality(S)
  PROVE  \E c \in S : /\ Rank(S, key, c) = k
                      /\ \A d \in S : Rank(S, key, d) = k => d = c
<1> DEFINE n == Cardinality(S)
           rank == [c \in S |-> Rank(S, key, c)]
<1>1. n \in Nat
  BY FS_CardinalityType
<1>2. rank \in [S -> 1..n]
  BY RankOrder
<1>3. ASSUME NEW c \in S, NEW d \in S, rank[c] = rank[d]
      PROVE  c = d
  <2>1. Rank(S, key, c) = Rank(S, key, d)
    BY <1>3
  <2>2. /\ key[c] < key[d] <=> Rank(S, key, c) < Rank(S, key, d)
        /\ key[d] < key[c] <=> Rank(S, key, d) < Rank(S, key, c)
        /\ Rank(S, key, c) \in 1..n
    BY RankOrder
  <2>3. ~ (key[c] < key[d]) /\ ~ (key[d] < key[c])
    BY <1>1, <2>1, <2>2
  <2>4. key[c] = key[d]
    BY <2>3
  <2> QED
    BY <2>4
<1>4. rank \in Injection(S, 1..n)
  BY <1>2, <1>3 DEF Injection, IsInjective
<1>5. IsFiniteSet(1..n) /\ Cardinality(1..n) = n
  BY <1>1, FS_Interval
<1>6. rank \in Surjection(S, 1..n)
  BY <1>4, <1>5, FS_Injection
<1>7. PICK c \in S : rank[c] = k
  BY <1>6 DEF Surjection
<1>8. \A d \in S : Rank(S, key, d) = k => d = c
  BY <1>3, <1>7
<1> QED
  BY <1>7, <1>8

-----------------------------------------------------------------------------
(* Batches                                                                 *)

LEMMA NewBatchType ==
  ASSUME NEW all, NEW items \in SUBSET all
  PROVE  /\ NoBatch \in Batch(all)
         /\ NewBatch(items) \in Batch(all) /\ DOMAIN NewBatch(items).scores = items
<1>0. EvalAttempts \in Nat \ {0} /\ PollAttempts \in Nat \ {0}
  BY BatchLimits
<1>1. 1 \in 1..EvalAttempts /\ 0 \in 0..(PollAttempts - 1)
  BY <1>0
<1>2. \A D \in SUBSET all :
        [i \in D |-> NoScore] \in UNION {[E -> Scores \cup {NoScore}] : E \in SUBSET all}
  OBVIOUS
<1>3. NoBatch \in Batch(all)
  BY <1>1, <1>2 DEF NoBatch, Batch
<1>4. NewBatch(items) \in Batch(all)
  BY <1>1, <1>2 DEF NewBatch, Batch
<1> QED
  BY <1>3, <1>4 DEF NewBatch

\* What a batch becomes when an attempt is over.
LEMMA RetriedType ==
  ASSUME NEW all, NEW b \in Batch(all), NEW v \in [DOMAIN b.scores -> Scores \cup {NoScore}]
  PROVE  Retried(b, v) \in Batch(all) /\ DOMAIN Retried(b, v).scores = DOMAIN b.scores
<1>0. /\ EvalAttempts \in Nat \ {0} /\ PollAttempts \in Nat \ {0}
      /\ b.attempt \in 1..EvalAttempts
      /\ b.scores \in UNION {[E -> Scores \cup {NoScore}] : E \in SUBSET all}
  BY BatchLimits DEF Batch
<1>1. /\ 0 \in 0..(PollAttempts - 1)
      /\ b.attempt < EvalAttempts => b.attempt + 1 \in 1..EvalAttempts
      /\ v \in UNION {[E -> Scores \cup {NoScore}] : E \in SUBSET all}
      /\ DOMAIN v = DOMAIN b.scores
  BY <1>0
<1>2. CASE b.attempt < EvalAttempts
  BY <1>1, <1>2 DEF Retried, Batch
<1>3. CASE ~(b.attempt < EvalAttempts)
  BY <1>1, <1>3 DEF Retried, Batch
<1> QED
  BY <1>2, <1>3

\* Whatever the platform answers, a batch stays one, of the same items; only one
\* that is being created or polled goes on.
LEMMA NextBatchType ==
  ASSUME NEW all, NEW b \in Batch(all), NEW c \in NextBatches(b)
  PROVE  /\ c \in Batch(all) /\ DOMAIN c.scores = DOMAIN b.scores
         /\ b.pc \in {"create", "poll"} /\ c.pc # "none"
<1>0. /\ EvalAttempts \in Nat \ {0} /\ PollAttempts \in Nat \ {0}
      /\ b.attempt \in 1..EvalAttempts /\ b.polls \in 0..(PollAttempts - 1)
      /\ b.scores \in UNION {[E -> Scores \cup {NoScore}] : E \in SUBSET all}
  BY BatchLimits DEF Batch
<1>1. /\ 0 \in 0..(PollAttempts - 1)
      /\ b.scores \in [DOMAIN b.scores -> Scores \cup {NoScore}]
  BY <1>0
<1>2. b.pc \in {"create", "poll"}
  BY DEF NextBatches
<1> DEFINE Good(d) == d \in Batch(all) /\ DOMAIN d.scores = DOMAIN b.scores /\ d.pc # "none"
<1>3. /\ \A pc \in {"poll", "scored", "raised"} : Good([b EXCEPT !.pc = pc])
      /\ \A p \in 0..(PollAttempts - 1) : Good([b EXCEPT !.pc = "scored", !.polls = p])
      /\ \A p \in 0..(PollAttempts - 1), v \in [DOMAIN b.scores -> Scores \cup {NoScore}] :
           Good([b EXCEPT !.pc = "scored", !.polls = p, !.scores = v])
  <2>1. \A v \in [DOMAIN b.scores -> Scores \cup {NoScore}] :
          v \in UNION {[E -> Scores \cup {NoScore}] : E \in SUBSET all} /\ DOMAIN v = DOMAIN b.scores
    BY <1>0
  <2>2. \A pc \in {"poll", "scored", "raised"} : Good([b EXCEPT !.pc = pc])
    BY <1>0 DEF Batch
  <2>3. \A p \in 0..(PollAttempts - 1) : Good([b EXCEPT !.pc = "scored", !.polls = p])
    BY <1>0 DEF Batch
  <2>4. \A p \in 0..(PollAttempts - 1), v \in [DOMAIN b.scores -> Scores \cup {NoScore}] :
           Good([b EXCEPT !.pc = "scored", !.polls = p, !.scores = v])
    BY <1>0, <2>1 DEF Batch
  <2> QED
    BY <2>2, <2>3, <2>4
<1>4. \A v \in [DOMAIN b.scores -> Scores \cup {NoScore}] : Good(Retried(b, v))
  <2>1. \A v : Retried(b, v).pc \in {"create", "scored"}
    BY DEF Retried, Batch
  <2> QED
    BY <2>1, RetriedType
<1>5. ASSUME NEW d \in Failures(b)
      PROVE  Good(d)
  <2> DEFINE After(e, hint) == IF Transient(e, hint) THEN Retried(b, b.scores)
                               ELSE [b EXCEPT !.pc = "scored", !.polls = 0]
  <2>1. \/ d \in {After(e, hint) : e \in CommandErrors, hint \in BOOLEAN}
        \/ d = [b EXCEPT !.pc = "raised"]
    BY DEF Failures
  <2>2. Good(Retried(b, b.scores))
    BY <1>1, <1>4
  <2>3. Good([b EXCEPT !.pc = "scored", !.polls = 0])
    BY <1>1, <1>3, Zenon
  <2>4. Good([b EXCEPT !.pc = "raised"])
    BY <1>3
  <2> HIDE DEF Good
  <2>5. \A e, hint : Good(After(e, hint))
    BY <2>2, <2>3, Zenon
  <2> HIDE DEF After
  <2>6. CASE d \in {After(e, hint) : e \in CommandErrors, hint \in BOOLEAN}
    <3>1. \E e \in CommandErrors, hint \in BOOLEAN : d = After(e, hint)
      BY <2>6
    <3> QED
      BY <2>5, <3>1
  <2> QED
    BY <2>1, <2>4, <2>6
<1>6. ASSUME NEW a \in Answers(b)
      PROVE  Good(Polled(b, a)) \/ b.pc # "poll"
  <2>1. a.scores \in [DOMAIN b.scores -> Scores \cup {NoScore}]
    BY DEF Answers
  <2>2. Good([b EXCEPT !.pc = "scored", !.polls = 0, !.scores = a.scores])
    BY <1>1, <1>3, <2>1, Zenon
  <2>3. ASSUME b.polls + 1 < PollAttempts, b.pc = "poll"
        PROVE  Good([b EXCEPT !.polls = @ + 1])
    <3>1. b.polls + 1 \in 0..(PollAttempts - 1)
      BY <1>0, <2>3
    <3> QED
      BY <1>0, <2>3, <3>1 DEF Batch
  <2>4. Good(Retried(b, a.scores))
    BY <1>4, <2>1
  <2> HIDE DEF Good
  <2> QED
    BY <2>2, <2>3, <2>4, Zenon DEF Polled
<1>7. CASE b.pc = "create"
  <2>1. c \in Failures(b) \/ c = [b EXCEPT !.pc = "poll"]
    BY <1>7, Zenon DEF NextBatches
  <2>2. Good([b EXCEPT !.pc = "poll"])
    BY <1>3
  <2>3. Good(c)
    <3> HIDE DEF Good
    <3> QED
      BY <1>5, <2>1, <2>2
  <2> QED
    BY <1>2, <2>3
<1>8. CASE b.pc = "poll"
  <2>1. c \in Failures(b) \/ \E a \in Answers(b) : c = Polled(b, a)
    BY <1>8 DEF NextBatches
  <2>2. Good(c)
    <3> HIDE DEF Good
    <3> QED
      BY <1>5, <1>6, <1>8, <2>1
  <2> QED
    BY <1>2, <2>2
<1> QED
  BY <1>2, <1>7, <1>8

=============================================================================
