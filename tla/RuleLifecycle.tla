--------------------------- MODULE RuleLifecycle ---------------------------
(***************************************************************************)
(* What candidate validation promises about a learned rule, with no round, *)
(* no thread and no verdict in sight.  A rule is written as a candidate,   *)
(* live sessions are witnessed against it, and one decision, taken once,   *)
(* makes it active or retires it.  Evidence is never dropped and none is   *)
(* added after the decision.                                               *)
(*                                                                         *)
(* RuleValidation implements this module as long as every round of         *)
(* candidate evaluation is started by the hook's single-flight spawn.      *)
(***************************************************************************)
EXTENDS Naturals, FiniteSets

CONSTANTS
  Rules,      \* rule identifiers
  Sessions,   \* live sessions a candidate can be observed on
  Window      \* how many distinct sessions one trial admits

VARIABLES
  status,     \* status[r]: "absent", "candidate", "active" or "retired"
  observed,   \* observed[r]: the sessions admitted to r's trial
  breached    \* breached[r]: those of them that failed in r's metric family

lifecycleVars == <<status, observed, breached>>

Init ==
  /\ status = [r \in Rules |-> "absent"]
  /\ observed = [r \in Rules |-> {}]
  /\ breached = [r \in Rules |-> {}]

\* A repair episode writes a rule: it starts as a candidate.
Propose(r) ==
  /\ status[r] = "absent"
  /\ status' = [status EXCEPT ![r] = "candidate"]
  /\ UNCHANGED <<observed, breached>>

\* A report of session s is counted for r.  A full window admits no new
\* session, and a session that failed once stays failed.
Witness(r, s, failed) ==
  /\ status[r] = "candidate"
  /\ s \in observed[r] \/ Cardinality(observed[r]) < Window
  /\ observed' = [observed EXCEPT ![r] = @ \cup {s}]
  /\ breached' = [breached EXCEPT ![r] = IF failed THEN @ \cup {s} ELSE @]
  /\ UNCHANGED status

\* The one decision about r.
Decide(r, outcome) ==
  /\ status[r] = "candidate"
  /\ status' = [status EXCEPT ![r] = outcome]
  /\ UNCHANGED <<observed, breached>>

Next ==
  \E r \in Rules :
    \/ Propose(r)
    \/ \E s \in Sessions, failed \in BOOLEAN : Witness(r, s, failed)
    \/ \E outcome \in {"active", "retired"} : Decide(r, outcome)

Spec == Init /\ [][Next]_lifecycleVars
=============================================================================
