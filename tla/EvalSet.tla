------------------------------ MODULE EvalSet ------------------------------
(***************************************************************************)
(* The store of replayable cases (workspace/evalset.py): one file per      *)
(* case, written by the hook's persist threads, by the host and by the     *)
(* developer's tools, each in a thread of its own.  Writers hold the       *)
(* store's lock; readers do not.  An eviction and the write it makes room  *)
(* for are two file operations, and the process may die between them.      *)
(***************************************************************************)
EXTENDS MetricBatch, FiniteSets

CONSTANTS
  Writers,     \* threads that capture cases
  Keys,        \* the signatures of a session; a case has a set of them
  Metrics,     \* metrics a case has baseline scores of
  CaseMax,     \* eval_case_max, 0 for no limit
  MaxCaptures  \* bound: cases ever written; a case is numbered by its creation

ASSUME CaseLimits == CaseMax \in Nat /\ MaxCaptures \in Nat \ {0}
ASSUME WritersAreFinite == IsFiniteSet(Writers)

VARIABLES
  cases,    \* the case files
  writer,   \* writer[w]: where thread w stands in capture(), and for which case
  created,  \* how many case ids were ever given out
  removed   \* history: ids deleted by remove()

caseVars == <<cases, writer, created, removed>>

\* baseline[m] is the score of metric m when the case was captured, NoScore if it
\* had none.
CaseFile(id, key, kind, replayable, baseline) ==
  [id |-> id, key |-> key, kind |-> kind, replayable |-> replayable, baseline |-> baseline]

NoCapture == [pc |-> "idle", id |-> 0, key |-> {}, kind |-> "failure", replayable |-> FALSE,
              baseline |-> [m \in Metrics |-> NoScore]]

Oldest(S) == CHOOSE c \in S : \A d \in S : c.id <= d.id
OfKind(kind) == {c \in cases : c.kind = kind}

\* matching(): the failures that share a signature with the candidate.
Matching(keys) == {c \in OfKind("failure") : c.key \cap keys # {}}

\* The n newest of them that can be replayed.
Replayable(S, n) ==
  LET all == {c \in S : c.replayable}
  IN {c \in all : Cardinality({d \in all : d.id > c.id}) < n}

Unlocked == \A w \in Writers : writer[w].pc # "writing"

CasesInit(files) ==
  /\ cases = files
  /\ writer = [w \in Writers |-> NoCapture]
  /\ created = Cardinality(files)
  /\ removed = {}

\* A thread is about to call capture(); a failure case comes with the notice's
\* scores, and with the turn's input if it had one.
Capture(w, key, kind, replayable, baseline) ==
  /\ writer[w].pc = "idle"
  /\ created + Cardinality({v \in Writers : writer[v].pc = "calling"}) < MaxCaptures
  /\ key \in SUBSET Keys
  /\ writer' = [writer EXCEPT ![w] =
       [pc |-> "calling", id |-> 0, key |-> key, kind |-> kind,
        replayable |-> replayable, baseline |-> baseline]]
  /\ UNCHANGED <<cases, created, removed>>

Same(c, d) == c.key = d.key /\ c.kind = d.kind

\* Mistake: the oldest case of any kind makes room.
EnterEvictingAny(w) ==
  LET full == CaseMax > 0 /\ Cardinality(cases) >= CaseMax
  IN /\ writer[w].pc = "calling" /\ Unlocked
     /\ IF (\E c \in cases : Same(c, writer[w]))
        THEN writer' = [writer EXCEPT ![w] = NoCapture] /\ UNCHANGED <<cases, created>>
        ELSE /\ cases' = IF full THEN cases \ {Oldest(cases)} ELSE cases
             /\ created' = created + 1
             /\ writer' = [writer EXCEPT ![w].pc = "writing", ![w].id = created + 1]
     /\ UNCHANGED removed

\* Mistake: the cap and the duplicates are looked up before the lock is taken.
EnterUnlocked(w) ==
  LET full == CaseMax > 0 /\ Cardinality(cases) >= CaseMax
      losers == OfKind("failure")
  IN /\ writer[w].pc = "calling"
     /\ IF (\E c \in cases : Same(c, writer[w])) \/ (full /\ losers = {})
        THEN writer' = [writer EXCEPT ![w] = NoCapture] /\ UNCHANGED <<cases, created>>
        ELSE /\ cases' = IF full THEN cases \ {Oldest(losers)} ELSE cases
             /\ created' = created + 1
             /\ writer' = [writer EXCEPT ![w].pc = "writing", ![w].id = created + 1]
     /\ UNCHANGED removed

\* Under the lock: the identical case is returned; a full set gives up its oldest
\* failure, or refuses the new case if it only holds wins.
Enter(w) ==
  LET full == CaseMax > 0 /\ Cardinality(cases) >= CaseMax
      losers == OfKind("failure")
  IN /\ writer[w].pc = "calling" /\ Unlocked
     /\ IF (\E c \in cases : Same(c, writer[w])) \/ (full /\ losers = {})
        THEN writer' = [writer EXCEPT ![w] = NoCapture] /\ UNCHANGED <<cases, created>>
        ELSE /\ cases' = IF full THEN cases \ {Oldest(losers)} ELSE cases
             /\ created' = created + 1
             /\ writer' = [writer EXCEPT ![w].pc = "writing", ![w].id = created + 1]
     /\ UNCHANGED removed

\* The file of the new case is in place and the lock is released; the journal
\* follows outside of it.
Write(w) ==
  LET c == writer[w]
  IN /\ c.pc = "writing"
     /\ cases' = cases \cup {CaseFile(c.id, c.key, c.kind, c.replayable, c.baseline)}
     /\ writer' = [writer EXCEPT ![w] = NoCapture]
     /\ UNCHANGED <<created, removed>>

\* attach_input(): one atomic rewrite of a case that is still there.
AttachInput(id) ==
  /\ Unlocked
  /\ \E c \in cases :
       /\ c.id = id
       /\ cases' = (cases \ {c}) \cup {[c EXCEPT !.replayable = TRUE]}
  /\ UNCHANGED <<writer, created, removed>>

RemoveCase(id) ==
  /\ Unlocked
  /\ id \in {c.id : c \in cases}
  /\ cases' = {c \in cases : c.id # id}
  /\ removed' = removed \cup {id}
  /\ UNCHANGED <<writer, created>>

CasesRestart ==
  /\ writer' = [w \in Writers |-> NoCapture]
  /\ UNCHANGED <<cases, created, removed>>

-----------------------------------------------------------------------------
(* Properties *)

CaseRecord ==
  [id : 1..MaxCaptures, key : SUBSET Keys, kind : {"failure", "win"}, replayable : BOOLEAN,
   baseline : [Metrics -> Scores \cup {NoScore}]]
WriterState ==
  [pc : {"idle", "calling", "writing"}, id : 0..MaxCaptures, key : SUBSET Keys,
   kind : {"failure", "win"}, replayable : BOOLEAN, baseline : [Metrics -> Scores \cup {NoScore}]]

\* Every variable keeps its shape.
CasesTypeOK ==
  /\ cases \in SUBSET CaseRecord
  /\ writer \in [Writers -> WriterState]
  /\ created \in 0..MaxCaptures
  /\ removed \in SUBSET (1..MaxCaptures)

\* Concurrent captures, evictions and crashes never leave more cases than the cap
\* allows, the one being written included, nor two files of one case.
CorpusBounded ==
  LET coming == {w \in Writers : writer[w].pc = "writing"}
  IN /\ CaseMax > 0 => Cardinality(cases) + Cardinality(coming) <= CaseMax
     /\ \A c, d \in cases : Same(c, d) => c = d
     /\ \A c \in cases, w \in coming : ~Same(c, writer[w])

\* workspace/evalset.py:309: "``win`` cases are never evicted".  A win only goes when
\* it is removed by name.
WinsKept ==
  [][\A c \in cases : c.kind = "win" =>
       c.id \in {d.id : d \in cases'} \/ c.id \in removed']_caseVars
=============================================================================
