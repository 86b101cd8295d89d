------------------------- MODULE RepairSettlement -------------------------
(***************************************************************************)
(* Managed repair of one task session: the coordinator that assigns an     *)
(* episode of pending notices to one run at a time and waits for it        *)
(* (repair/coordinator.py), the run itself with the two tools that leave   *)
(* something behind (repair/agent.py, agent_tools/toolset.py), and the     *)
(* files they share: the mailbox with its summary (workspace/mailbox.py),  *)
(* the rules log and the guide rendered from it (workspace/rules.py).      *)
(*                                                                         *)
(* Event-loop code is atomic between two awaits; file access runs in       *)
(* worker threads.  A cancelled run stops at its next await, the thread it *)
(* was waiting for does not.  The model's answers are arbitrary: any tool, *)
(* in any order, or none.                                                  *)
(***************************************************************************)
EXTENDS Naturals, FiniteSets

CONSTANTS
  Notices,    \* notice ids, numbered in the order they are posted
  Related,    \* pairs of notices of one turn that share a trace or a signature
  Settlers,   \* tasks of the host that call settle()
  MaxCalls,   \* bound: how often settle() is called; a call starts one run at most
  Faulty       \* bound: runs during which writes to the journal may fail

ASSUME NoticesAreNumbered == Notices \subseteq Nat /\ IsFiniteSet(Notices)
ASSUME RelatedIsSymmetric ==
  /\ Related \subseteq Notices \X Notices
  /\ \A p \in Related : <<p[2], p[1]>> \in Related
ASSUME CallsAreCounted == MaxCalls \in Nat /\ Faulty \subseteq 1..MaxCalls

Runs == 1..MaxCalls
NoRun == 0

VARIABLES
  pending,     \* notices with a file in mailbox/pending
  processed,   \* processed[n]: the kind in mailbox/processed/n.json, or "none"
  status,      \* the notices that status.json counts
  posting,     \* a thread of the hook holds the mailbox lock to post
  torn,        \* history: the process died before it had refreshed status.json
  rules,       \* the rules log: runs whose rule_add created a candidate
  shown,       \* the rules in the skill root and in the file of their scope
  run,         \* run[t]: the agent task t and what its toolset remembers
  thread,      \* thread[t]: the tool call t has handed to a worker thread
  tasks,       \* _tasks[e]: the run registered for episode e
  results,     \* _results: episodes with a cached successful result
  latest,      \* _latest_by_session, {} for None
  settler,     \* settler[c]: where caller c stands in settle()
  calls        \* how often settle() was called

summary == <<status, posting, torn>>
mailbox == <<pending, processed, summary>>
store == <<rules, shown>>
coordinator == <<tasks, results, latest>>
vars == <<mailbox, store, run, thread, coordinator, settler, calls>>

UnusedRun == [pc |-> "unused", episode |-> {}, cancel |-> FALSE, kind |-> "none",
              candidate |-> FALSE, resolved |-> FALSE]
IdleThread == [pc |-> "idle", todo |-> {}, live |-> {}]
Outside == [pc |-> "out", episode |-> {}, run |-> NoRun, outcome |-> "none"]

\* sync_markdown(): the guide that shows the live rules S.
Rendered(S) == [root |-> S, scope |-> S]

\* A run whose task is not done.
Live(t) == run[t].pc \in {"thinking", "adding", "acking"}

Init ==
  /\ pending = {}
  /\ processed = [n \in Notices |-> "none"]
  /\ status = {} /\ posting = FALSE /\ torn = FALSE
  /\ rules = {} /\ shown = Rendered({})
  /\ run = [t \in Runs |-> UnusedRun]
  /\ thread = [t \in Runs |-> IdleThread]
  /\ tasks = [e \in SUBSET Notices |-> NoRun]
  /\ results = {}
  /\ latest = {}
  /\ settler = [c \in Settlers |-> Outside]
  /\ calls = 0

\* Mistake: the lock is released before the summary is refreshed.
UnlockedEarly ==
  \A t \in Runs : thread[t].pc \notin {"write", "unlink"}

\* post() and acknowledge_many() hold the mailbox lock from their first look at the
\* files until the summary is refreshed.
Unlocked ==
  /\ ~posting
  /\ \A t \in Runs : thread[t].pc \notin {"write", "unlink", "listing", "summary"}

\* The hook posts a notice of the session.
Post(n) ==
  /\ Unlocked
  /\ \A m \in Notices : (processed[m] # "none" \/ m \in pending) <=> m < n
  /\ pending' = pending \cup {n}
  /\ posting' = TRUE
  /\ UNCHANGED <<processed, status, torn, store, run, thread, coordinator, settler, calls>>

\* _refresh_status(), still under the lock: what is pending goes to status.json.
PostRefreshes ==
  /\ posting
  /\ status' = pending
  /\ torn' = FALSE
  /\ posting' = FALSE
  /\ UNCHANGED <<pending, processed, store, run, thread, coordinator, settler, calls>>

-----------------------------------------------------------------------------
(* settle()                                                                *)

\* _pending_episode(): the oldest notice and all that hang together with it.
Episode(S) ==
  LET First == {n \in S : \A m \in S : n <= m}
      Joined(E) == \A m, n \in S : m \in E /\ <<m, n>> \in Related => n \in E
  IN CHOOSE E \in SUBSET S :
       /\ First \subseteq E /\ Joined(E)
       /\ \A F \in SUBSET S : First \subseteq F /\ Joined(F) => E \subseteq F

\* Caller c leaves settle() with outcome; "cancelled" is a CancelledError, "raised"
\* another exception.
Returned(c, outcome) ==
  [Outside EXCEPT !.outcome = outcome,
                  !.episode = IF outcome = "timed_out" THEN settler[c].episode ELSE {}]

Settle(c) ==
  /\ settler[c].pc = "out"
  /\ calls < MaxCalls
  /\ calls' = calls + 1
  /\ settler' = [settler EXCEPT ![c] = [Outside EXCEPT !.pc = "reading"]]
  /\ UNCHANGED <<mailbox, store, run, thread, coordinator>>

\* The listing of pending/ takes no lock and may fall between two unlinks.
ReadPending(c) ==
  /\ settler[c].pc = "reading"
  /\ settler' = [settler EXCEPT ![c].pc = "claiming", ![c].episode = Episode(pending)]
  /\ UNCHANGED <<mailbox, store, run, thread, coordinator, calls>>

\* What run t has for a caller that finds its task registered: a place to wait, or
\* how it ended.
Attached(c, t, pc) ==
  IF Live(t) THEN [settler[c] EXCEPT !.pc = pc, !.run = t] ELSE Returned(c, run[t].pc)

\* Nothing is pending: return the last result, or follow the last run.
Follow(c) ==
  /\ settler[c].pc = "claiming"
  /\ settler[c].episode = {}
  /\ settler' = [settler EXCEPT ![c] =
       IF latest \in results THEN Returned(c, "success")
       ELSE IF tasks[latest] = NoRun THEN Returned(c, "none")
       ELSE Attached(c, tasks[latest], "following")]
  /\ UNCHANGED <<mailbox, store, run, thread, coordinator, calls>>

\* Mistake: a run under way for the episode is not looked up.
ClaimTwice(c) ==
  LET e == settler[c].episode
      t == CHOOSE u \in Runs : run[u].pc = "unused"
  IN /\ settler[c].pc = "claiming"
     /\ e # {}
     /\ run' = [run EXCEPT ![t] = [UnusedRun EXCEPT !.pc = "thinking", !.episode = e]]
     /\ tasks' = [tasks EXCEPT ![e] = t]
     /\ latest' = e
     /\ settler' = [settler EXCEPT ![c].pc = "waiting", ![c].run = t]
     /\ UNCHANGED <<mailbox, store, thread, results, calls>>

\* _single_flight(): the cached result, the registered run, or a new run.
Claim(c) ==
  LET e == settler[c].episode
      t == CHOOSE u \in Runs : run[u].pc = "unused"
  IN /\ settler[c].pc = "claiming"
     /\ e # {}
     /\ \/ /\ e \in results
           /\ settler' = [settler EXCEPT ![c] = Returned(c, "success")]
           /\ UNCHANGED <<run, tasks, latest>>
        \/ /\ e \notin results
           /\ tasks[e] # NoRun
           /\ settler' = [settler EXCEPT ![c] = Attached(c, tasks[e], "waiting")]
           /\ UNCHANGED <<run, tasks, latest>>
        \/ /\ e \notin results
           /\ tasks[e] = NoRun
           /\ run' = [run EXCEPT ![t] = [UnusedRun EXCEPT !.pc = "thinking", !.episode = e]]
           /\ tasks' = [tasks EXCEPT ![e] = t]
           /\ latest' = e
           /\ settler' = [settler EXCEPT ![c].pc = "waiting", ![c].run = t]
     /\ UNCHANGED <<mailbox, store, thread, results, calls>>

\* Mistake: the caller stops waiting and joins, but cancels nothing.
TimeoutWithoutCancel(c) ==
  /\ settler[c].pc = "waiting"
  /\ settler' = [settler EXCEPT ![c].pc = "joining"]
  /\ UNCHANGED <<mailbox, store, run, thread, coordinator, calls>>

\* The settlement budget expires.  A waiting caller cancels the run and joins
\* it; a call still queued for a worker thread is cancelled with it.
Timeout(c) ==
  /\ settler[c].pc = "waiting"
  /\ LET t == settler[c].run
     IN /\ run' = [run EXCEPT ![t].cancel = TRUE]
        /\ \/ UNCHANGED thread
           \/ /\ thread[t].pc \in {"add", "append", "ack"}
              /\ thread' = [thread EXCEPT ![t] = IdleThread]
  /\ settler' = [settler EXCEPT ![c].pc = "joining"]
  /\ UNCHANGED <<mailbox, store, coordinator, calls>>

\* A follower just gives up.
FollowTimeout(c) ==
  /\ settler[c].pc = "following"
  /\ settler' = [settler EXCEPT ![c] = Returned(c, "none")]
  /\ UNCHANGED <<mailbox, store, run, thread, coordinator, calls>>

\* The host cancels the caller before the budget expires; the run goes on.
CallerCancelled(c) ==
  /\ settler[c].pc \in {"reading", "claiming", "waiting", "following"}
  /\ settler' = [settler EXCEPT ![c] = Outside]
  /\ UNCHANGED <<mailbox, store, run, thread, coordinator, calls>>

-----------------------------------------------------------------------------
(* The run                                                                 *)

\* The loop: another turn or tool call, while the run is neither resolved nor told
\* to stop.
MayCall(t) == run[t].pc = "thinking" /\ ~run[t].cancel /\ ~run[t].resolved

\* rule_add: at most one candidate in a run.
CallAdd(t) ==
  /\ MayCall(t)
  /\ ~run[t].candidate
  /\ run' = [run EXCEPT ![t].pc = "adding"]
  /\ thread' = [thread EXCEPT ![t].pc = "add"]
  /\ UNCHANGED <<mailbox, store, coordinator, settler, calls>>

\* Mistake: notice_ack believes the rule id it is given.
CallAckUnchecked(t, kind) ==
  /\ MayCall(t)
  /\ run' = [run EXCEPT ![t].pc = "acking", ![t].kind = kind]
  /\ thread' = [thread EXCEPT ![t].pc = "ack"]
  /\ UNCHANGED <<mailbox, store, coordinator, settler, calls>>

\* notice_ack needs a candidate of this run, notice_resolve does not.
CallAck(t, kind) ==
  /\ MayCall(t)
  /\ kind = "candidate" => run[t].candidate
  /\ run' = [run EXCEPT ![t].pc = "acking", ![t].kind = kind]
  /\ thread' = [thread EXCEPT ![t].pc = "ack"]
  /\ UNCHANGED <<mailbox, store, coordinator, settler, calls>>

\* Mistake: a refused acknowledgement counts as a resolution.
ToolReturnsOptimistic(t) ==
  /\ run[t].pc \in {"adding", "acking"} /\ ~run[t].cancel
  /\ thread[t].pc \in {"added", "covered", "acked", "refused"}
  /\ run' = [run EXCEPT ![t].pc = "thinking",
                        ![t].candidate = @ \/ thread[t].pc = "added",
                        ![t].resolved = (run[t].pc = "acking")]
  /\ thread' = [thread EXCEPT ![t] = IdleThread]
  /\ UNCHANGED <<mailbox, store, coordinator, settler, calls>>

\* Mistake: the tool's answer becomes the run's state.
ToolReturnsRaw(t) ==
  /\ run[t].pc \in {"adding", "acking"} /\ ~run[t].cancel
  /\ thread[t].pc \in {"added", "covered", "acked", "refused"}
  /\ run' = [run EXCEPT ![t].pc = thread[t].pc]
  /\ thread' = [thread EXCEPT ![t] = IdleThread]
  /\ UNCHANGED <<mailbox, store, coordinator, settler, calls>>

\* The toolset takes note of a rule it added and of an acknowledgement.
Noted(t) ==
  [run[t] EXCEPT !.pc = "thinking",
                 !.candidate = @ \/ thread[t].pc = "added",
                 !.resolved = (thread[t].pc = "acked")]

\* The tool call returns to the run.
ToolReturns(t) ==
  /\ run[t].pc \in {"adding", "acking"} /\ ~run[t].cancel
  /\ thread[t].pc \in {"added", "covered", "acked", "refused"}
  /\ run' = [run EXCEPT ![t] = Noted(t)]
  /\ thread' = [thread EXCEPT ![t] = IdleThread]
  /\ UNCHANGED <<mailbox, store, coordinator, settler, calls>>

\* How the loop may end.  An unresolved run fails on its limits, a bad answer or its
\* own deadline; a resolved one too if the call cannot be journaled.
Outcomes(t) ==
  CASE run[t].cancel -> {"cancelled"}
    [] MayCall(t) -> {"failed"}
    [] run[t].pc = "thinking" /\ ~MayCall(t) /\ ~run[t].cancel ->
         IF t \in Faulty THEN {"success", "failed"} ELSE {"success"}
    [] OTHER -> {}

\* The run without its toolset, of which no thread needs more than the kind.
Over(t, outcome) == [run[t] EXCEPT !.pc = outcome, !.candidate = FALSE, !.resolved = FALSE]

\* _finish(): every end is journaled, and the task raises if that fails.
Ends(t) == Outcomes(t) \cup IF t \in Faulty /\ Outcomes(t) # {} THEN {"raised"} ELSE {}

\* Mistake: a caller that timed out leaves the claim behind.
RunEndsKeepingClaim(t, outcome) ==
  LET e == run[t].episode
  IN /\ Live(t)
     /\ outcome \in Ends(t)
     /\ run' = [run EXCEPT ![t] = Over(t, outcome)]
     /\ results' = IF outcome = "success" THEN results \cup {e} ELSE results
     /\ tasks' = IF outcome # "cancelled" THEN [tasks EXCEPT ![e] = NoRun] ELSE tasks
     /\ latest' = e
     /\ settler' = [c \in Settlers |->
          IF settler[c].run # t THEN settler[c]
          ELSE IF settler[c].pc = "joining" THEN Returned(c, "timed_out")
          ELSE Returned(c, outcome)]
     /\ UNCHANGED <<mailbox, store, thread, calls>>

\* The task is done: its callback _capture_result() and everybody who awaits it
\* are woken in the same turn of the event loop.  A caller that joins after its
\* timeout swallows the CancelledError and drops the claim; to any other it is
\* raised.  Any other exception is raised to all of them and
\* leaves the claim.
RunEnds(t, outcome) ==
  LET e == run[t].episode
      joined == \E c \in Settlers : settler[c].run = t /\ settler[c].pc = "joining"
      settled == outcome \in {"success", "failed"} \/ (outcome = "cancelled" /\ joined)
  IN /\ Live(t)
     /\ outcome \in Ends(t)
     /\ run' = [run EXCEPT ![t] = Over(t, outcome)]
     /\ results' = IF outcome = "success" THEN results \cup {e} ELSE results
     /\ tasks' = IF settled THEN [tasks EXCEPT ![e] = NoRun] ELSE tasks
     /\ latest' = IF settled THEN e ELSE latest
     /\ settler' = [c \in Settlers |->
          IF settler[c].run # t THEN settler[c]
          ELSE IF settler[c].pc = "joining" /\ outcome # "raised" THEN Returned(c, "timed_out")
          ELSE Returned(c, outcome)]
     /\ UNCHANGED <<mailbox, store, thread, calls>>

-----------------------------------------------------------------------------
(* Worker threads                                                          *)

\* What the thread leaves behind for a run that has been told to stop: nobody.
Answer(t, answer) ==
  IF run[t].cancel THEN IdleThread ELSE [IdleThread EXCEPT !.pc = answer]

\* covering_rules() looks for a live rule without the lock; the call that adds the
\* candidate is one of its own, and a cancelled run does not come to it.
ThreadCover(t) ==
  /\ thread[t].pc = "add"
  /\ thread' \in {[thread EXCEPT ![t] = Answer(t, "covered")],
                 [thread EXCEPT ![t] = Answer(t, "append")]}
  /\ UNCHANGED <<mailbox, store, run, coordinator, settler, calls>>

\* Mistake: the rules lock does not exclude the threads of other runs.
RulesShared == TRUE

\* add_with_result() holds the rules lock until the guide is rendered.
RulesUnlocked == \A t \in Runs : thread[t].pc \notin {"root", "scope"}

\* Under the lock: a live rule covers the proposal by now, or it is appended to the
\* log and the guide is rendered from what is live then.
ThreadAdd(t) ==
  /\ thread[t].pc = "append" /\ RulesUnlocked
  /\ \/ /\ rules' = rules \cup {t}
        /\ thread' = [thread EXCEPT ![t] = [IdleThread EXCEPT !.pc = "root", !.live = rules']]
     \/ /\ rules' = rules
        /\ thread' = [thread EXCEPT ![t] = Answer(t, "covered")]
  /\ UNCHANGED <<mailbox, shown, run, coordinator, settler, calls>>

\* _sync_markdown_locked(): the skill root first, then the file of the scope.  Both
\* it and add() journal the rule; if that fails the tool call does.
ThreadSync(t) ==
  /\ \/ /\ thread[t].pc = "root"
        /\ shown' = [shown EXCEPT !.root = thread[t].live]
        /\ thread' = [thread EXCEPT ![t].pc = "scope"]
     \/ /\ thread[t].pc = "scope"
        /\ shown' = [shown EXCEPT !.scope = thread[t].live]
        /\ \E answer \in {"added"} \cup (IF t \in Faulty THEN {"refused"} ELSE {}) :
             thread' = [thread EXCEPT ![t] = Answer(t, answer)]
  /\ UNCHANGED <<mailbox, rules, run, coordinator, settler, calls>>

\* Mistake: the notices leave pending/ before their resolutions are written.
ThreadCheckTakes(t) ==
  /\ thread[t].pc = "ack"
  /\ Unlocked
  /\ LET all == run[t].episode \subseteq pending
     IN /\ pending' = IF all THEN pending \ run[t].episode ELSE pending
        /\ thread' = [thread EXCEPT ![t] =
             IF all THEN [IdleThread EXCEPT !.pc = "write", !.todo = run[t].episode]
             ELSE Answer(t, "refused")]
  /\ UNCHANGED <<processed, summary, store, run, coordinator, settler, calls>>

ThreadCheck(t) ==
  /\ thread[t].pc = "ack"
  /\ Unlocked
  /\ thread' = [thread EXCEPT ![t] =
       IF run[t].episode \subseteq pending
       THEN [IdleThread EXCEPT !.pc = "write", !.todo = run[t].episode]
       ELSE Answer(t, "refused")]
  /\ UNCHANGED <<mailbox, store, run, coordinator, settler, calls>>

\* Every resolution is on disk before the first notice leaves pending/.
ThreadWrite(t, n) ==
  /\ thread[t].pc = "write"
  /\ n \in thread[t].todo
  /\ processed' = [processed EXCEPT ![n] = run[t].kind]
  /\ thread' = [thread EXCEPT ![t] =
       IF @.todo = {n} THEN [@ EXCEPT !.pc = "unlink", !.todo = run[t].episode]
       ELSE [@ EXCEPT !.todo = thread[t].todo \ {n}]]
  /\ UNCHANGED <<pending, summary, store, run, coordinator, settler, calls>>

ThreadUnlink(t, n) ==
  /\ thread[t].pc = "unlink"
  /\ n \in thread[t].todo
  /\ pending' = pending \ {n}
  /\ thread' = [thread EXCEPT ![t] =
       IF @.todo = {n} THEN [IdleThread EXCEPT !.pc = "listing"]
       ELSE [@ EXCEPT !.todo = thread[t].todo \ {n}]]
  /\ UNCHANGED <<processed, summary, store, run, coordinator, settler, calls>>

\* _refresh_status() likewise: list what is pending, then replace status.json.
ThreadRefresh(t) ==
  /\ \/ /\ thread[t].pc = "listing"
        /\ thread' = [thread EXCEPT ![t] = [@ EXCEPT !.pc = "summary", !.todo = pending]]
        /\ UNCHANGED <<status, torn>>
     \/ /\ thread[t].pc = "summary"
        /\ status' = thread[t].todo
        /\ torn' = FALSE
        /\ thread' = [thread EXCEPT ![t] = Answer(t, "acked")]
  /\ UNCHANGED <<pending, processed, posting, store, run, coordinator, settler, calls>>

-----------------------------------------------------------------------------
\* The process dies and starts again: the files survive, and Harness.create()
\* renders the guide anew but trusts the summary as it is.
Restart ==
  /\ run' = [t \in Runs |-> IF Live(t) THEN Over(t, "dead") ELSE run[t]]
  /\ thread' = [t \in Runs |-> IdleThread]
  /\ tasks' = [e \in SUBSET Notices |-> NoRun]
  /\ results' = {}
  /\ latest' = {}
  /\ settler' = [c \in Settlers |-> Outside]
  /\ shown' = Rendered(rules)
  /\ posting' = FALSE
  /\ torn' = (torn \/ ~Unlocked)
  /\ UNCHANGED <<pending, processed, status, rules, calls>>

ThreadStep(t) ==
  \/ ThreadCover(t) \/ ThreadAdd(t) \/ ThreadSync(t) \/ ThreadCheck(t) \/ ThreadRefresh(t)
  \/ \E n \in Notices : ThreadWrite(t, n) \/ ThreadUnlink(t, n)

SettlerStep(c) ==
  ReadPending(c) \/ Follow(c) \/ Claim(c) \/ Timeout(c) \/ FollowTimeout(c)

Next ==
  \/ (\E n \in Notices : Post(n)) \/ PostRefreshes
  \/ \E c \in Settlers : Settle(c) \/ SettlerStep(c) \/ CallerCancelled(c)
  \/ \E t \in Runs :
       \/ CallAdd(t) \/ ToolReturns(t) \/ ThreadStep(t)
       \/ \E kind \in {"candidate", "other"} : CallAck(t, kind)
       \/ \E outcome \in {"success", "failed", "cancelled", "raised"} : RunEnds(t, outcome)
  \/ Restart

Spec == Init /\ [][Next]_vars

\* The event loop runs what is ready and every wait of a caller has a deadline;
\* a cancelled run only has its own record left to write.  Nothing is assumed of
\* the model's answers.
Fairness ==
  /\ \A c \in Settlers : WF_vars(SettlerStep(c))
  /\ \A t \in Runs : WF_vars(RunEnds(t, "cancelled"))

FairSpec == Spec /\ Fairness

-----------------------------------------------------------------------------
(* Properties *)

RunState ==
  [pc : {"unused", "thinking", "adding", "acking", "success", "failed",
         "cancelled", "raised", "dead"},
   episode : SUBSET Notices, cancel : BOOLEAN, kind : {"none", "candidate", "other"},
   candidate : BOOLEAN, resolved : BOOLEAN]
ThreadState ==
  [pc : {"idle", "add", "append", "root", "scope", "added", "covered", "ack", "write",
         "unlink", "listing", "summary", "acked", "refused"},
   todo : SUBSET Notices, live : SUBSET Runs]
SettlerState ==
  [pc : {"out", "reading", "claiming", "waiting", "following", "joining"},
   episode : SUBSET Notices, run : 0..MaxCalls,
   outcome : {"none", "success", "failed", "cancelled", "raised", "timed_out"}]

\* Every variable keeps its shape.
TypeOK ==
  /\ pending \in SUBSET Notices
  /\ processed \in [Notices -> {"none", "candidate", "other"}]
  /\ status \in SUBSET Notices
  /\ posting \in BOOLEAN
  /\ torn \in BOOLEAN
  /\ rules \in SUBSET Runs
  /\ shown \in [root : SUBSET Runs, scope : SUBSET Runs]
  /\ run \in [Runs -> RunState]
  /\ thread \in [Runs -> ThreadState]
  /\ tasks \in [SUBSET Notices -> 0..MaxCalls]
  /\ results \in SUBSET (SUBSET Notices)
  /\ latest \in SUBSET Notices
  /\ settler \in [Settlers -> SettlerState]
  /\ calls \in 0..MaxCalls

\* README: "timeout or failure leaves every notice recoverable".  A notice that
\* a thread is acknowledging, or was acknowledging when the process died, is in
\* pending/ or has its resolution in processed/: none that a run was ever
\* assigned vanishes.
NoticeRecoverable ==
  \A t \in Runs : \A n \in run[t].episode : n \in pending \/ processed[n] # "none"

\* A cached result is returned to every later caller for good, so it may only
\* exist once no notice of its episode is pending.
CachedMeansResolved ==
  \A e \in results : e \cap pending = {} /\ \A n \in e : processed[n] # "none"

\* Single flight: two runs of one episode are never under way together, with
\* callers that time out, retry, are cancelled or join the same run.
OneRunPerEpisode ==
  \A t, u \in Runs :
    Live(t) /\ Live(u) /\ run[t].episode = run[u].episode => t = u

\* repair/coordinator.py:237: "agent folds ordinary exceptions".  A claim never
\* outlives its run, where it would answer every later settle() of the episode with
\* the exception of a dead task, unless the run's end could not be journaled.
ClaimIsLive ==
  \A e \in SUBSET Notices :
    LET t == tasks[e]
    IN t # NoRun => run[t].episode = e /\ (Live(t) \/ run[t].pc = "raised")

\* A notice resolved with a candidate was resolved by a run that did create one,
\* also when that run was cancelled between the two.
CandidateExists ==
  \A n \in Notices :
    processed[n] = "candidate" => \E t \in rules : n \in run[t].episode

\* workspace/mailbox.py:419: "The current summary".  Whoever posts and whoever
\* acknowledges, whenever nobody holds the lock status.json counts what is
\* pending, unless the process died between the two.
SummaryFollows ==
  LET busy == \E t \in Runs : thread[t].pc \in {"write", "unlink", "listing", "summary"}
  IN ~posting /\ ~busy /\ ~torn => status = pending

\* workspace/rules.py:1091: "readers see "no rules here" rather than stale ones".
\* Once no thread renders it, the guide shows the log: a thread of a run that was
\* given up renders late and never over what a later one has added.
GuideFollows ==
  (\A t \in Runs : thread[t].pc \notin {"root", "scope"}) =>
    shown.root = rules /\ shown.scope = rules

\* Every settle() comes back, whatever the model behind the run does.
SettleReturns ==
  \A c \in Settlers : settler[c].pc # "out" ~> settler[c].pc = "out"

\* README: "Repair failure or timeout never fails the developer task".
TimeoutStaysInside == \A c \in Settlers : settler[c].outcome # "cancelled"

\* repair/coordinator.py:103: "repair exceeded the settlement budget; notice
\* remains pending".
TimedOutMeansPending ==
  \A c \in Settlers :
    settler[c].outcome = "timed_out" => settler[c].episode \subseteq pending

\* README: "managed repair may add at most one provisional candidate" for an
\* episode; agent_tools/toolset.py:533: "a repair episode may create at most one
\* candidate".  Runs that died with the process are not counted.
OneCandidatePerEpisode ==
  \A t, u \in {v \in rules : run[v].pc # "dead"} :
    run[t].episode = run[u].episode => t = u
=============================================================================
