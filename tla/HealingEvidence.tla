--------------------------- MODULE HealingEvidence ---------------------------
(***************************************************************************)
(* From a session's scores to the verdict on a rule: the gate fires        *)
(* (TrajectoryGate), the hook persists the notice and keeps the failure as *)
(* a case (hook/core.py, EvalSet), the host adds known wins and inputs,    *)
(* and rounds replay the cases (CaseReplay).  The persist threads of the   *)
(* turns run next to each other and next to the host; a restart loses all  *)
(* of them and keeps the files.                                            *)
(*                                                                         *)
(* Which of the reports is worth a notice is decided as TurnEvaluation     *)
(* says; here it may be any.  The scenarios bound what happens.            *)
(***************************************************************************)
EXTENDS TrajectoryGate, CaseReplay

CONSTANTS
  Baselines,  \* bound: baseline scores that occur
  Scenarios   \* bound: what may happen, and the case files to start from

Host == 0

\* A case that was kept for a breach of the gated session.
OfBreach(c) == c.kind = "failure" /\ "breach" \in c.key

ASSUME HostWrites == Writers = Turns \cup {Host}

\* The files to start from are such as the store leaves behind, and none of them is
\* of the gated session, which has had no turn yet.
ASSUME ScenariosStart ==
  /\ Baselines \subseteq [Metrics -> Scores \cup {NoScore}]
  /\ \A s \in Scenarios :
       /\ s.files \in SUBSET CaseRecord /\ IsFiniteSet(s.files)
       /\ Cardinality(s.files) <= MaxCaptures
       /\ CaseMax > 0 => Cardinality(s.files) <= CaseMax
       /\ \A c, d \in s.files : Same(c, d) \/ c.id = d.id => c = d
       /\ \A c \in s.files : c.id <= Cardinality(s.files)
       /\ \A c \in s.files : ~OfBreach(c)

VARIABLES
  notice,  \* notice[t]: where the notice of turn t stands
  posted,  \* turns whose notice is a file in the mailbox
  budget   \* what the scenario still allows

vars == <<gateVars, caseVars, replayVars, notice, posted, budget>>

Init ==
  /\ GateInit /\ ReplayInit
  /\ notice = [t \in Turns |-> "none"]
  /\ posted = {}
  /\ \E s \in Scenarios : budget = s /\ CasesInit(s.files)

Spend(what) == budget[what] > 0 /\ budget' = [budget EXCEPT ![what] = @ - 1]

-----------------------------------------------------------------------------
(* The gate, and the notice of what it reports                             *)

Gate ==
  /\ \/ \E i \in Traces : TraceCompletes(i) /\ Spend("traces")
     \/ \E t \in Turns : Turn(t) /\ Spend("turns")
     \/ GateForget /\ Spend("forgets")
     \/ (\E t \in Turns : GateStep(t)) /\ UNCHANGED budget
  /\ UNCHANGED <<caseVars, replayVars, notice, posted>>

\* EvalReport.any_alert: the gate fired, or an absolute threshold was breached.
Alerts(t) == eval[t].fired \/ eval[t].breach

\* The report has alerting scores and the hook hands its notice to a thread.
Due(t) ==
  /\ notice[t] = "none" /\ eval[t].pc = "reported"
  /\ Alerts(t)
  /\ notice' = [notice EXCEPT ![t] = "due"]
  /\ Spend("notices")
  /\ UNCHANGED <<gateVars, caseVars, replayVars, posted>>

\* The signatures of a notice, as keys of cases.
KeyOf(t) ==
  (IF eval[t].fired THEN {"gate"} ELSE {}) \cup (IF eval[t].breach THEN {"breach"} ELSE {})

\* _persist_notice(): the latest-evaluation file, the dump and the mailbox.
Post(t) ==
  /\ notice[t] = "due"
  /\ notice' = [notice EXCEPT ![t] = "posted"]
  /\ posted' = posted \cup {t}
  /\ UNCHANGED <<gateVars, caseVars, replayVars, budget>>

\* One of those writes fails: the rest of the thread is left out.
PostFails(t) ==
  /\ notice[t] = "due"
  /\ notice' = [notice EXCEPT ![t] = "done"]
  /\ UNCHANGED <<gateVars, caseVars, replayVars, posted, budget>>

\* Mistake: the case is kept before the notice is written.
KeepEarly(t) ==
  /\ notice[t] \in {"due", "posted"}
  /\ notice' = [notice EXCEPT ![t] = "done"]
  /\ IF eval[t].breach
     THEN \E b \in Baselines, input \in BOOLEAN : Capture(t, KeyOf(t), "failure", input, b)
     ELSE UNCHANGED caseVars
  /\ UNCHANGED <<gateVars, replayVars, posted, budget>>

\* Then, for a breach only, the failure is kept as a case; the turn may have come
\* with the input to replay.
Keep(t) ==
  /\ notice[t] = "posted"
  /\ notice' = [notice EXCEPT ![t] = "done"]
  /\ IF eval[t].breach
     THEN \E b \in Baselines, input \in BOOLEAN : Capture(t, KeyOf(t), "failure", input, b)
     ELSE UNCHANGED caseVars
  /\ UNCHANGED <<gateVars, replayVars, posted, budget>>

-----------------------------------------------------------------------------
(* The cases                                                               *)

\* The host keeps a session it knows to be good, or bad.
HostCaptures ==
  /\ \E b \in Baselines, kind \in {"failure", "win"} : Capture(Host, {kind}, kind, TRUE, b)
  /\ Spend("captures")
  /\ UNCHANGED <<gateVars, replayVars, notice, posted>>

Store ==
  /\ \E w \in Writers : Enter(w) \/ Write(w)
  /\ UNCHANGED <<gateVars, replayVars, notice, posted, budget>>

HostEdits ==
  /\ \E id \in 1..MaxCaptures : AttachInput(id) \/ RemoveCase(id)
  /\ Spend("edits")
  /\ UNCHANGED <<gateVars, replayVars, notice, posted>>

-----------------------------------------------------------------------------
(* The rounds                                                              *)

Rounds ==
  /\ \/ (BeginRound \/ BeginRegression) /\ Spend("rounds")
     \/ (ReadCandidate \/ MarkStarted \/ ReplayReturns \/ ReplayRaises) /\ UNCHANGED budget
  /\ UNCHANGED <<gateVars, caseVars, notice, posted>>

Replay ==
  /\ RoundStep
  /\ UNCHANGED <<gateVars, caseVars, notice, posted, budget>>

Restart ==
  /\ GateRestart /\ CasesRestart /\ ReplayRestart
  /\ notice' = [t \in Turns |-> IF notice[t] = "none" THEN "none" ELSE "done"]
  /\ Spend("restarts")
  /\ UNCHANGED posted

Next ==
  \/ Gate \/ HostCaptures \/ Store \/ HostEdits \/ Rounds \/ Replay \/ Restart
  \/ \E t \in Turns : Due(t) \/ Post(t) \/ PostFails(t) \/ Keep(t)

Spec == Init /\ [][Next]_vars /\ WF_vars(Replay)

-----------------------------------------------------------------------------
(* Properties *)

\* Every variable keeps its shape.
TypeOK ==
  /\ GateTypeOK /\ CasesTypeOK /\ ReplayTypeOK
  /\ notice \in [Turns -> {"none", "due", "posted", "done"}]
  /\ posted \in SUBSET Turns

\* hook/core.py:707: "Only breach-severity notices become failure cases."  Behind
\* every failure kept of the gated session there is a notice of its own in the
\* mailbox, whichever write fails and wherever the process dies.
CaseFollowsNotice ==
  Cardinality({c \in cases : OfBreach(c)}) <= Cardinality(posted)
=============================================================================
