----------------------- MODULE RepairSettlementProofs -----------------------
(***************************************************************************)
(* Theorems about RepairSettlement, for every number of callers, calls and *)
(* notices, whatever relates the notices and whichever runs are faulty.    *)
(***************************************************************************)
EXTENDS RepairSettlement, FiniteSetTheorems, TLAPS

-----------------------------------------------------------------------------
(* Operators                                                               *)

\* An episode is made of notices it was looked up among: of all the sets that hold
\* the oldest notice and what hangs together with it, there is a smallest.
LEMMA EpisodeIsPending ==
  ASSUME NEW S
  PROVE  Episode(S) \in SUBSET S
<1> DEFINE First == {n \in S : \A m \in S : n <= m}
           Joined(E) == \A m, n \in S : m \in E /\ <<m, n>> \in Related => n \in E
           Smallest(E) == /\ First \subseteq E /\ Joined(E)
                          /\ \A F \in SUBSET S : First \subseteq F /\ Joined(F) => E \subseteq F
           E0 == {n \in S : \A F \in SUBSET S : First \subseteq F /\ Joined(F) => n \in F}
<1>1. E0 \in SUBSET S
  OBVIOUS
<1>2. First \subseteq E0
  OBVIOUS
<1>3. Joined(E0)
  <2> SUFFICES ASSUME NEW m \in S, NEW n \in S, m \in E0, <<m, n>> \in Related,
                      NEW F \in SUBSET S, First \subseteq F, Joined(F)
               PROVE  n \in F
    BY Zenon
  <2> HIDE DEF First
  <2>1. m \in F
    BY Zenon
  <2> QED
    BY <2>1, Zenon
<1> HIDE DEF First, Joined
<1>4. \A F \in SUBSET S : First \subseteq F /\ Joined(F) => E0 \subseteq F
  OBVIOUS
<1>5. Smallest(E0)
  BY <1>2, <1>3, <1>4
<1>6. \E E \in SUBSET S : Smallest(E)
  BY <1>1, <1>5, Zenon
<1>7. Episode(S) = CHOOSE E \in SUBSET S : Smallest(E)
  BY Zenon DEF Episode, First, Joined, Smallest
<1> HIDE DEF Smallest
<1> QED
  BY <1>6, <1>7, Zenon

\* The records a run, a thread and a caller start from have their types.
LEMMA FreshRecords ==
  /\ UnusedRun \in RunState
  /\ IdleThread \in ThreadState
  /\ Outside \in SettlerState
BY CallsAreCounted DEF UnusedRun, IdleThread, Outside, RunState, ThreadState,
   SettlerState, NoRun

\* A run that is over is a run, and not a live one.
LEMMA OverType ==
  ASSUME TypeOK, NEW t \in Runs,
         NEW outcome \in {"success", "failed", "cancelled", "raised", "dead"}
  PROVE  /\ Over(t, outcome) \in RunState
         /\ Over(t, outcome).pc = outcome
         /\ Over(t, outcome).episode = run[t].episode
         /\ Over(t, outcome).kind = run[t].kind
         /\ ~Over(t, outcome).candidate
         /\ ~Over(t, outcome).resolved
BY DEF Over, RunState, TypeOK

\* A caller who returns stands outside, with an outcome of its call.
LEMMA ReturnedType ==
  ASSUME TypeOK, NEW c \in Settlers,
         NEW outcome \in {"none", "success", "failed", "cancelled", "raised", "timed_out"}
  PROVE  /\ Returned(c, outcome) \in SettlerState
         /\ Returned(c, outcome).pc = "out"
         /\ Returned(c, outcome).run = NoRun
         /\ Returned(c, outcome).episode \subseteq settler[c].episode
<1>1. settler[c].episode \in SUBSET Notices
  BY DEF TypeOK, SettlerState
<1> DEFINE e == IF outcome = "timed_out" THEN settler[c].episode ELSE {}
<1>2. e \in SUBSET Notices /\ e \subseteq settler[c].episode
  BY <1>1
<1>3. Outside \in SettlerState /\ Outside.pc = "out" /\ Outside.run = NoRun
  BY FreshRecords DEF Outside
<1>4. Returned(c, outcome) = [Outside EXCEPT !.outcome = outcome, !.episode = e]
  BY DEF Returned
<1> HIDE DEF e
<1> QED
  BY <1>2, <1>3, <1>4 DEF SettlerState

\* A tool call that returns leaves a thinking run.
LEMMA NotedType ==
  ASSUME TypeOK, NEW t \in Runs
  PROVE  /\ Noted(t) \in RunState
         /\ Noted(t).pc = "thinking"
         /\ Noted(t).episode = run[t].episode
         /\ Noted(t).kind = run[t].kind
         /\ Noted(t).cancel = run[t].cancel
         /\ Noted(t).candidate = (run[t].candidate \/ thread[t].pc = "added")
         /\ Noted(t).resolved = (thread[t].pc = "acked")
<1>1. run \in [Runs -> RunState]
  BY DEF TypeOK
<1>2. run[t] \in RunState
  BY <1>1
<1> QED
  BY <1>2 DEF Noted, RunState

\* What a thread answers is an answer or nothing.
LEMMA AnswerType ==
  ASSUME TypeOK, NEW t \in Runs,
         NEW answer \in {"append", "added", "covered", "acked", "refused"}
  PROVE  /\ Answer(t, answer) \in ThreadState
         /\ Answer(t, answer).pc \in {"idle", answer}
BY FreshRecords DEF Answer, IdleThread, ThreadState

-----------------------------------------------------------------------------
(* Shapes and claims.  The shape of the coordinator's state rests on what  *)
(* its claims mean: a caller who finds a dead task registered is answered  *)
(* by that task's exception, and a new run needs a number of its own.      *)

\* Callers whose run is still to be started, and runs that were.
Coming == {c \in Settlers : settler[c].pc \in {"reading", "claiming"}}
Used == {t \in Runs : run[t].pc # "unused"}

\* Every call starts one run at most.
Admission ==
  /\ IsFiniteSet(Coming)
  /\ Cardinality(Coming) + Cardinality(Used) <= calls

\* Whoever waits, waits for a live run; nobody else is bound to one.  A run told to
\* stop has a caller that joins it.
Attended ==
  /\ \A c \in Settlers :
       IF settler[c].pc \in {"waiting", "following", "joining"}
       THEN settler[c].run \in Runs /\ Live(settler[c].run)
       ELSE settler[c].run = NoRun
  /\ \A t \in Runs : Live(t) /\ run[t].cancel =>
       \E c \in Settlers : settler[c].run = t /\ settler[c].pc = "joining"

\* A live run is the one registered for its episode.
Registered == \A t \in Runs : Live(t) => tasks[run[t].episode] = t

ClaimInv == TypeOK /\ Admission /\ Attended /\ Registered /\ ClaimIsLive

\* While a caller is on its way to a claim, there is a run left to start.
LEMMA RunLeft ==
  ASSUME TypeOK, Admission, NEW c \in Coming
  PROVE  /\ (CHOOSE u \in Runs : run[u].pc = "unused") \in Runs
         /\ run[CHOOSE u \in Runs : run[u].pc = "unused"].pc = "unused"
<1>1. MaxCalls \in Nat /\ calls \in Nat /\ calls <= MaxCalls
  BY CallsAreCounted DEF TypeOK
<1>2. IsFiniteSet(Runs) /\ Cardinality(Runs) = MaxCalls
  BY <1>1, FS_Interval DEF Runs
<1>3. Used \in SUBSET Runs
  BY DEF Used
<1>4. IsFiniteSet(Used) /\ Cardinality(Used) \in Nat
  BY <1>2, <1>3, FS_Subset, FS_CardinalityType
<1>5. Cardinality(Coming) \in Nat /\ Cardinality(Coming) # 0
  BY FS_EmptySet, FS_CardinalityType DEF Admission
<1>6. Used # Runs
  BY <1>1, <1>2, <1>4, <1>5 DEF Admission
<1>7. \E u \in Runs : run[u].pc = "unused"
  BY <1>3, <1>6 DEF Used
<1> QED
  BY <1>7

LEMMA UsedIsFinite == IsFiniteSet(Used) /\ Cardinality(Used) \in Nat
<1>1. IsFiniteSet(Runs)
  BY CallsAreCounted, FS_Interval DEF Runs
<1>2. Used \subseteq Runs
  BY DEF Used
<1> QED
  BY <1>1, <1>2, FS_Subset, FS_CardinalityType

LEMMA ClaimInit == Init => ClaimInv
<1> SUFFICES ASSUME Init PROVE ClaimInv
  OBVIOUS
<1>0. MaxCalls \in Nat /\ 0 \in 0..MaxCalls
  BY CallsAreCounted
<1>1. TypeOK
  <2>1. /\ run \in [Runs -> RunState]
        /\ thread \in [Runs -> ThreadState]
        /\ settler \in [Settlers -> SettlerState]
    BY FreshRecords DEF Init
  <2>2. tasks \in [SUBSET Notices -> 0..MaxCalls]
    BY <1>0 DEF Init, NoRun
  <2> QED
    BY <1>0, <2>1, <2>2 DEF Init, TypeOK, Rendered
<1>2. Admission
  <2>1. Coming = {} /\ Used = {}
    BY DEF Init, Coming, Used, Outside, UnusedRun
  <2> QED
    BY <2>1, FS_EmptySet DEF Init, Admission
<1>3. \A t \in Runs : ~Live(t)
  BY DEF Init, Live, UnusedRun
<1>4. Attended
  BY <1>3 DEF Init, Attended, Outside
<1>5. Registered /\ ClaimIsLive
  BY <1>3 DEF Init, Registered, ClaimIsLive
<1> QED
  BY <1>1, <1>2, <1>4, <1>5 DEF ClaimInv

\* A step that moves no caller and ends and starts no run keeps the claims.
LEMMA ClaimFrame ==
  ASSUME ClaimInv, UNCHANGED <<tasks, settler, calls>>,
         \A t \in Runs :
           /\ run'[t].pc = "unused" <=> run[t].pc = "unused"
           /\ Live(t)' <=> Live(t)
           /\ run[t].pc = "raised" => run'[t].pc = "raised"
           /\ run'[t].episode = run[t].episode
           /\ run'[t].cancel = run[t].cancel
  PROVE  Admission' /\ Attended' /\ Registered' /\ ClaimIsLive'
<1>1. Coming' = Coming /\ Used' = Used
  BY DEF Coming, Used
<1>2. Admission'
  BY <1>1 DEF ClaimInv, Admission
<1>3. Attended'
  BY DEF ClaimInv, Attended
<1>4. Registered'
  BY DEF ClaimInv, Registered
<1>5. ClaimIsLive'
  <2> SUFFICES ASSUME NEW e \in SUBSET Notices, NEW t, t = tasks'[e], t # NoRun
               PROVE  run'[t].episode = e /\ (Live(t)' \/ run'[t].pc = "raised")
    BY DEF ClaimIsLive
  <2>1. t \in Runs
    BY DEF ClaimInv, TypeOK, Runs, NoRun
  <2>2. run[t].episode = e /\ (Live(t) \/ run[t].pc = "raised")
    BY DEF ClaimInv, ClaimIsLive
  <2> QED
    BY <2>1, <2>2
<1> QED
  BY <1>2, <1>3, <1>4, <1>5

\* The hook's thread and the threads of the runs move files, not claims.
LEMMA FilesKeepClaims ==
  ASSUME ClaimInv, \/ \E n \in Notices : Post(n)
                   \/ PostRefreshes
                   \/ \E t \in Runs : ThreadStep(t)
  PROVE  ClaimInv'
<1>1. UNCHANGED <<run, tasks, settler, calls>>
  BY DEF Post, PostRefreshes, ThreadStep, ThreadCover, ThreadAdd, ThreadSync, ThreadCheck,
     ThreadRefresh, ThreadWrite, ThreadUnlink, coordinator
<1>2. Admission' /\ Attended' /\ Registered' /\ ClaimIsLive'
  BY <1>1, ClaimFrame DEF Live
<1>3. ASSUME NEW n \in Notices, Post(n) PROVE TypeOK'
  BY <1>3 DEF Post, ClaimInv, TypeOK, store, coordinator
<1>4. CASE PostRefreshes
  BY <1>2, <1>4 DEF PostRefreshes, ClaimInv, TypeOK, store, coordinator
<1>5. ASSUME NEW t \in Runs, ThreadStep(t) PROVE TypeOK'
  <2>0. IdleThread \in ThreadState /\ TypeOK
    BY FreshRecords DEF ClaimInv
  <2>1. CASE ThreadCover(t)
    BY <2>0, <2>1, AnswerType DEF ThreadCover, TypeOK, mailbox, summary, store, coordinator
  <2>2. CASE ThreadAdd(t)
    <3>1. rules' \in SUBSET Runs
      BY <2>0, <2>2 DEF ThreadAdd, TypeOK
    <3>2. [IdleThread EXCEPT !.pc = "root", !.live = rules'] \in ThreadState
      BY <2>0, <3>1 DEF ThreadState
    <3>3. thread' \in [Runs -> ThreadState]
      BY <2>0, <2>2, <3>2, AnswerType DEF ThreadAdd, TypeOK
    <3> QED
      BY <2>0, <2>2, <3>1, <3>3 DEF ThreadAdd, TypeOK, mailbox, summary, coordinator
  <2>3. CASE ThreadSync(t)
    <3>1. thread[t] \in ThreadState
      BY <2>0 DEF TypeOK
    <3>2. [thread[t] EXCEPT !.pc = "scope"] \in ThreadState /\ thread[t].live \in SUBSET Runs
      BY <3>1 DEF ThreadState
    <3>3. shown' \in [root : SUBSET Runs, scope : SUBSET Runs]
      BY <2>0, <2>3, <3>2 DEF ThreadSync, TypeOK
    <3>4. thread' \in [Runs -> ThreadState]
      <4>1. CASE thread' = [thread EXCEPT ![t].pc = "scope"]
        BY <2>0, <3>2, <4>1 DEF TypeOK
      <4>2. ASSUME NEW answer \in {"added", "refused"},
                   thread' = [thread EXCEPT ![t] = Answer(t, answer)]
            PROVE  thread' \in [Runs -> ThreadState]
        BY <2>0, <4>2, AnswerType DEF TypeOK
      <4> QED
        BY <2>3, <4>1, <4>2 DEF ThreadSync
    <3> QED
      BY <2>0, <2>3, <3>3, <3>4 DEF ThreadSync, TypeOK, mailbox, summary, coordinator
  <2>4. CASE ThreadCheck(t)
    <3>1. run[t].episode \in SUBSET Notices
      BY <2>0 DEF TypeOK, RunState
    <3>2. [IdleThread EXCEPT !.pc = "write", !.todo = run[t].episode] \in ThreadState
      BY <2>0, <3>1 DEF ThreadState
    <3>3. thread' \in [Runs -> ThreadState]
      BY <2>0, <2>4, <3>2, AnswerType DEF ThreadCheck, TypeOK
    <3> QED
      BY <2>0, <2>4, <3>3 DEF ThreadCheck, TypeOK, mailbox, summary, store, coordinator
  <2>5. CASE ThreadRefresh(t)
    <3>1. thread[t] \in ThreadState /\ pending \in SUBSET Notices
      BY <2>0 DEF TypeOK
    <3>2. [thread[t] EXCEPT !.pc = "summary", !.todo = pending] \in ThreadState
          /\ thread[t].todo \in SUBSET Notices
      BY <3>1 DEF ThreadState
    <3>3. thread' \in [Runs -> ThreadState] /\ status' \in SUBSET Notices /\ torn' \in BOOLEAN
      BY <2>0, <2>5, <3>2, AnswerType DEF ThreadRefresh, TypeOK
    <3> QED
      BY <2>0, <2>5, <3>3 DEF ThreadRefresh, TypeOK, store, coordinator
  <2>6. ASSUME NEW n \in Notices, ThreadWrite(t, n) PROVE TypeOK'
    <3>1. thread[t] \in ThreadState /\ run[t] \in RunState
      BY <2>0 DEF TypeOK
    <3>2. /\ [thread[t] EXCEPT !.pc = "unlink", !.todo = run[t].episode] \in ThreadState
          /\ [thread[t] EXCEPT !.todo = thread[t].todo \ {n}] \in ThreadState
          /\ run[t].kind \in {"none", "candidate", "other"}
      BY <3>1 DEF ThreadState, RunState
    <3>3. thread' \in [Runs -> ThreadState]
          /\ processed' \in [Notices -> {"none", "candidate", "other"}]
      BY <2>0, <2>6, <3>2 DEF ThreadWrite, TypeOK
    <3>4. UNCHANGED <<pending, summary, store, run, coordinator, settler, calls>>
      BY <2>6 DEF ThreadWrite
    <3> QED
      BY <2>0, <3>3, <3>4 DEF TypeOK, summary, store, coordinator
  <2>7. ASSUME NEW n \in Notices, ThreadUnlink(t, n) PROVE TypeOK'
    <3>1. thread[t] \in ThreadState
      BY <2>0 DEF TypeOK
    <3>2. /\ [IdleThread EXCEPT !.pc = "listing"] \in ThreadState
          /\ [thread[t] EXCEPT !.todo = thread[t].todo \ {n}] \in ThreadState
      BY <2>0, <3>1 DEF ThreadState
    <3>3. thread' \in [Runs -> ThreadState] /\ pending' \in SUBSET Notices
      BY <2>0, <2>7, <3>2 DEF ThreadUnlink, TypeOK
    <3> QED
      BY <2>0, <2>7, <3>3 DEF ThreadUnlink, TypeOK, summary, store, coordinator
  <2> QED
    BY <1>5, <2>1, <2>2, <2>3, <2>4, <2>5, <2>6, <2>7 DEF ThreadStep
<1> QED
  BY <1>2, <1>3, <1>4, <1>5 DEF ClaimInv

\* The loop's calls and their answers keep a run live.
LEMMA LoopKeepsClaims ==
  ASSUME ClaimInv, NEW t \in Runs,
         CallAdd(t) \/ ToolReturns(t) \/ \E kind \in {"candidate", "other"} : CallAck(t, kind)
  PROVE  ClaimInv'
<1>0. /\ TypeOK /\ run \in [Runs -> RunState] /\ run[t] \in RunState
      /\ thread \in [Runs -> ThreadState] /\ thread[t] \in ThreadState
  BY DEF ClaimInv, TypeOK
<1>1. \A kind \in {"candidate", "other"} :
         [run[t] EXCEPT !.pc = "acking", !.kind = kind] \in RunState
  BY <1>0 DEF RunState
<1>2. /\ [run[t] EXCEPT !.pc = "adding"] \in RunState
      /\ [thread[t] EXCEPT !.pc = "add"] \in ThreadState
      /\ [thread[t] EXCEPT !.pc = "ack"] \in ThreadState
  BY <1>0 DEF RunState, ThreadState
<1>3. /\ run' \in [Runs -> RunState] /\ thread' \in [Runs -> ThreadState]
      /\ UNCHANGED <<mailbox, store, coordinator, settler, calls>>
      /\ Live(t) /\ Live(t)'
      /\ \A u \in Runs \ {t} : run'[u] = run[u]
      /\ run'[t].episode = run[t].episode /\ run'[t].cancel = run[t].cancel
  <2>1. CASE CallAdd(t)
    BY <1>0, <1>2, <2>1 DEF CallAdd, MayCall, Live, RunState
  <2>2. ASSUME NEW kind \in {"candidate", "other"}, CallAck(t, kind) PROVE <1>3!:
    <3>1. run' = [run EXCEPT ![t] = [run[t] EXCEPT !.pc = "acking", !.kind = kind]]
      BY <2>2, <1>0 DEF CallAck
    <3>2. thread' = [thread EXCEPT ![t] = [thread[t] EXCEPT !.pc = "ack"]]
      BY <2>2, <1>0 DEF CallAck
    <3>3. run[t].pc = "thinking" /\ UNCHANGED <<mailbox, store, coordinator, settler, calls>>
      BY <2>2 DEF CallAck, MayCall
    <3> QED
      BY <1>0, <1>1, <1>2, <3>1, <3>2, <3>3 DEF Live, RunState
  <2>3. CASE ToolReturns(t)
    BY <1>0, <2>3, NotedType, FreshRecords DEF ToolReturns, Live
  <2> QED
    BY <2>1, <2>2, <2>3
<1>4. TypeOK'
  BY <1>0, <1>3 DEF TypeOK, mailbox, summary, store, coordinator
<1>5. \A u \in Runs :
         /\ run'[u].pc = "unused" <=> run[u].pc = "unused"
         /\ Live(u)' <=> Live(u)
         /\ run[u].pc = "raised" => run'[u].pc = "raised"
         /\ run'[u].episode = run[u].episode
         /\ run'[u].cancel = run[u].cancel
  BY <1>3 DEF Live
<1>6. UNCHANGED <<tasks, settler, calls>>
  BY <1>3 DEF coordinator
<1> QED
  BY <1>4, <1>5, <1>6, ClaimFrame DEF ClaimInv

\* A step of one caller that neither starts nor ends a run.
LEMMA CallerFrame ==
  ASSUME ClaimInv, NEW c \in Settlers, NEW s \in SettlerState,
         settler' = [settler EXCEPT ![c] = s],
         UNCHANGED <<run, tasks, calls>>,
         s.pc \in {"reading", "claiming"} => c \in Coming,
         settler[c].pc # "joining",
         IF s.pc \in {"waiting", "following", "joining"}
         THEN s.run \in Runs /\ Live(s.run) ELSE s.run = NoRun
  PROVE  /\ settler' \in [Settlers -> SettlerState]
         /\ Admission' /\ Attended' /\ Registered' /\ ClaimIsLive'
<1>0. TypeOK /\ settler \in [Settlers -> SettlerState] /\ calls \in Nat
  BY CallsAreCounted DEF ClaimInv, TypeOK
<1>1. Used' = Used
  BY DEF Used
<1>2. Coming' \subseteq Coming
  BY <1>0 DEF Coming
<1>3. IsFiniteSet(Coming) /\ Cardinality(Coming) + Cardinality(Used) <= calls
  BY DEF ClaimInv, Admission
<1>5. /\ IsFiniteSet(Coming') /\ Cardinality(Coming') <= Cardinality(Coming)
      /\ Cardinality(Coming') \in Nat /\ Cardinality(Coming) \in Nat /\ Cardinality(Used) \in Nat
  BY <1>2, <1>3, UsedIsFinite, FS_Subset, FS_CardinalityType
<1>6. Admission'
  BY <1>0, <1>1, <1>3, <1>5 DEF Admission
<1>7. Attended'
  BY <1>0 DEF ClaimInv, Attended, Live
<1>8. Registered' /\ ClaimIsLive'
  BY DEF ClaimInv, Registered, ClaimIsLive, Live
<1> QED
  BY <1>0, <1>6, <1>7, <1>8

\* What a caller finds at a registered task: a place to wait, or an exception.
LEMMA AttachedType ==
  ASSUME ClaimInv, NEW c \in Settlers, NEW e \in SUBSET Notices, tasks[e] # NoRun,
         NEW pc \in {"waiting", "following"}
  PROVE  LET s == Attached(c, tasks[e], pc)
         IN /\ s \in SettlerState
            /\ s.pc \notin {"reading", "claiming"}
            /\ IF s.pc \in {"waiting", "following", "joining"}
               THEN s.run \in Runs /\ Live(s.run) ELSE s.run = NoRun
            /\ s.episode \subseteq settler[c].episode
<1> DEFINE t == tasks[e]
<1>1. TypeOK /\ settler[c] \in SettlerState /\ t \in Runs /\ t \in 0..MaxCalls
  BY DEF ClaimInv, TypeOK, Runs, NoRun
<1>2. Live(t) \/ run[t].pc = "raised"
  BY DEF ClaimInv, ClaimIsLive
<1>3. Attached(c, t, pc) =
        IF Live(t) THEN [settler[c] EXCEPT !.pc = pc, !.run = t] ELSE Returned(c, run[t].pc)
  BY DEF Attached
<1> HIDE DEF t
<1>4. CASE Live(t)
  <2> DEFINE s == [settler[c] EXCEPT !.pc = pc, !.run = t]
  <2>1. /\ s \in SettlerState /\ s.pc = pc /\ s.run = t
        /\ s.episode = settler[c].episode
    BY <1>1 DEF SettlerState
  <2>2. Attached(c, t, pc) = s
    BY <1>3, <1>4
  <2> HIDE DEF s
  <2> QED
    BY <1>1, <1>4, <2>1, <2>2 DEF t
<1>5. CASE ~Live(t)
  <2>1. Attached(c, t, pc) = Returned(c, "raised")
    BY <1>2, <1>3, <1>5
  <2> QED
    BY <1>1, <2>1, ReturnedType DEF t
<1> QED
  BY <1>4, <1>5

\* Callers that read, follow, claim what is there, or give up.
LEMMA CallersKeepClaims ==
  ASSUME ClaimInv, NEW c \in Settlers,
         \/ ReadPending(c) \/ Follow(c) \/ FollowTimeout(c) \/ CallerCancelled(c)
         \/ Claim(c) /\ UNCHANGED run
  PROVE  ClaimInv'
<1>0. TypeOK /\ settler[c] \in SettlerState
  BY DEF ClaimInv, TypeOK
<1>1. ReadPending(c) => ClaimInv'
  <2> SUFFICES ASSUME ReadPending(c) PROVE ClaimInv'
    OBVIOUS
  <2> DEFINE s == [settler[c] EXCEPT !.pc = "claiming", !.episode = Episode(pending)]
  <2>1. Episode(pending) \in SUBSET Notices
    BY <1>0, EpisodeIsPending DEF TypeOK
  <2>2. s \in SettlerState /\ s.pc = "claiming" /\ s.run = settler[c].run
    BY <1>0, <2>1 DEF SettlerState
  <2>3. settler' = [settler EXCEPT ![c] = s] /\ settler[c].pc = "reading"
        /\ UNCHANGED <<mailbox, store, run, thread, coordinator, calls>>
    BY <1>0 DEF ReadPending, TypeOK
  <2> HIDE DEF s
  <2>4. settler[c].run = NoRun /\ c \in Coming
    BY <2>3 DEF ClaimInv, Attended, Coming
  <2>5. settler' \in [Settlers -> SettlerState] /\ Admission' /\ Attended' /\ Registered'
        /\ ClaimIsLive'
    BY <2>2, <2>3, <2>4, CallerFrame DEF coordinator
  <2> QED
    BY <1>0, <2>3, <2>5 DEF ClaimInv, TypeOK, mailbox, summary, store, coordinator
<1>2. ASSUME NEW s \in SettlerState, settler' = [settler EXCEPT ![c] = s],
             UNCHANGED <<mailbox, store, run, thread, coordinator, calls>>,
             settler[c].pc # "joining", s.pc \notin {"reading", "claiming"},
             IF s.pc \in {"waiting", "following", "joining"}
             THEN s.run \in Runs /\ Live(s.run) ELSE s.run = NoRun
      PROVE  ClaimInv'
  <2>1. settler' \in [Settlers -> SettlerState] /\ Admission' /\ Attended' /\ Registered'
        /\ ClaimIsLive'
    BY <1>2, CallerFrame DEF coordinator
  <2> QED
    BY <1>0, <1>2, <2>1 DEF ClaimInv, TypeOK, mailbox, summary, store, coordinator
<1>3. ASSUME NEW outcome \in {"none", "success"}, settler[c].pc # "joining",
             settler' = [settler EXCEPT ![c] = Returned(c, outcome)],
             UNCHANGED <<mailbox, store, run, thread, coordinator, calls>>
      PROVE  ClaimInv'
  BY <1>0, <1>2, <1>3, ReturnedType
<1>4. ASSUME NEW e \in SUBSET Notices, tasks[e] # NoRun, settler[c].pc # "joining",
             NEW pc \in {"waiting", "following"},
             settler' = [settler EXCEPT ![c] = Attached(c, tasks[e], pc)],
             UNCHANGED <<mailbox, store, run, thread, coordinator, calls>>
      PROVE  ClaimInv'
  BY <1>2, <1>4, AttachedType
<1>5. Follow(c) => ClaimInv'
  <2>1. latest \in SUBSET Notices
    BY <1>0 DEF TypeOK
  <2> QED
    BY <1>3, <1>4, <2>1 DEF Follow
<1>6. FollowTimeout(c) => ClaimInv'
  BY <1>3 DEF FollowTimeout
<1>7. CallerCancelled(c) => ClaimInv'
  BY <1>2, FreshRecords DEF CallerCancelled, Outside
<1>8. Claim(c) /\ UNCHANGED run => ClaimInv'
  <2> SUFFICES ASSUME Claim(c), UNCHANGED run PROVE ClaimInv'
    OBVIOUS
  <2> DEFINE e == settler[c].episode
  <2>1. e \in SUBSET Notices /\ settler[c].pc = "claiming"
    BY <1>0 DEF SettlerState, Claim
  <2>2. c \in Coming
    BY <2>1 DEF Coming
  <2>3. CASE e \in results \/ tasks[e] # NoRun
    <3>1. UNCHANGED <<mailbox, store, run, thread, coordinator, calls>>
      BY <2>3 DEF Claim, coordinator
    <3>2. \/ settler' = [settler EXCEPT ![c] = Returned(c, "success")]
          \/ /\ tasks[e] # NoRun
             /\ settler' = [settler EXCEPT ![c] = Attached(c, tasks[e], "waiting")]
      BY <2>3 DEF Claim
    <3> QED
      BY <1>3, <1>4, <2>1, <3>1, <3>2
  <2>4. CASE e \notin results /\ tasks[e] = NoRun
    <3> DEFINE t == CHOOSE u \in Runs : run[u].pc = "unused"
               new == [UnusedRun EXCEPT !.pc = "thinking", !.episode = e]
    <3>1. t \in Runs /\ run[t].pc = "unused"
      BY <2>2, RunLeft DEF ClaimInv
    <3>2. new.pc = "thinking"
      BY DEF UnusedRun
    <3>3. run' = [run EXCEPT ![t] = new]
      BY <2>4 DEF Claim
    <3> QED
      BY <1>0, <3>1, <3>2, <3>3 DEF TypeOK
  <2> QED
    BY <2>3, <2>4
<1> QED
  BY <1>1, <1>5, <1>6, <1>7, <1>8

\* A call that may still start a run is counted.
LEMMA SettleKeepsClaims ==
  ASSUME ClaimInv, NEW c \in Settlers, Settle(c)
  PROVE  ClaimInv'
<1>0. TypeOK /\ MaxCalls \in Nat /\ calls \in Nat
  BY CallsAreCounted DEF ClaimInv, TypeOK
<1>1. [Outside EXCEPT !.pc = "reading"] \in SettlerState
  BY FreshRecords DEF SettlerState
<1>2. TypeOK'
  <2>1. settler' \in [Settlers -> SettlerState] /\ calls' \in 0..MaxCalls
    BY <1>0, <1>1 DEF Settle, TypeOK
  <2> QED
    BY <1>0, <2>1 DEF Settle, TypeOK, mailbox, summary, store, coordinator
<1>3. Coming' = Coming \cup {c} /\ c \notin Coming /\ Used' = Used
  BY <1>0 DEF Settle, TypeOK, Coming, Used, Outside
<1>4. Admission'
  <2>1. IsFiniteSet(Coming) /\ Cardinality(Coming) + Cardinality(Used) <= calls
    BY DEF ClaimInv, Admission
  <2>2. IsFiniteSet(Coming') /\ Cardinality(Coming') = Cardinality(Coming) + 1
    BY <1>3, <2>1, FS_AddElement
  <2>3. Cardinality(Coming) \in Nat /\ Cardinality(Used) \in Nat
    BY <2>1, UsedIsFinite, FS_CardinalityType
  <2> QED
    BY <1>0, <1>3, <2>1, <2>2, <2>3 DEF Settle, Admission
<1>5. Attended'
  BY <1>0 DEF ClaimInv, TypeOK, Attended, Settle, Live, Outside
<1>6. Registered' /\ ClaimIsLive'
  BY DEF ClaimInv, Registered, ClaimIsLive, Settle, Live, coordinator
<1> QED
  BY <1>2, <1>4, <1>5, <1>6 DEF ClaimInv

\* Single flight: a claim of an episode nobody works on starts a run of its own.
LEMMA ClaimKeepsClaims ==
  ASSUME ClaimInv, NEW c \in Settlers, Claim(c)
  PROVE  ClaimInv'
<1> DEFINE e == settler[c].episode
           t == CHOOSE u \in Runs : run[u].pc = "unused"
<1>1. CASE UNCHANGED run
  BY <1>1, CallersKeepClaims
<1>2. CASE run' # run
  <2>0. /\ TypeOK /\ settler[c] \in SettlerState /\ settler[c].pc = "claiming" /\ c \in Coming
        /\ run \in [Runs -> RunState] /\ settler \in [Settlers -> SettlerState]
        /\ tasks \in [SUBSET Notices -> 0..MaxCalls]
    BY DEF ClaimInv, TypeOK, Claim, Coming
  <2>1. e \in SUBSET Notices
    BY <2>0 DEF SettlerState
  <2>2. t \in Runs /\ run[t].pc = "unused"
    BY <2>0, RunLeft DEF ClaimInv
  <2>3. /\ tasks[e] = NoRun
        /\ tasks' = [tasks EXCEPT ![e] = t]
        /\ latest' = e
        /\ UNCHANGED <<mailbox, store, thread, results, calls>>
    BY <1>2 DEF Claim
  <2>3a. /\ run' = [run EXCEPT ![t] = [UnusedRun EXCEPT !.pc = "thinking", !.episode = e]]
         /\ settler' = [settler EXCEPT ![c].pc = "waiting", ![c].run = t]
    BY <1>2 DEF Claim
  <2> HIDE DEF e, t
  <2> DEFINE new == [UnusedRun EXCEPT !.pc = "thinking", !.episode = e]
             s == [settler[c] EXCEPT !.pc = "waiting", !.run = t]
  <2>4. /\ new \in RunState /\ new.pc = "thinking" /\ new.episode = e /\ ~new.cancel
    BY <2>1, FreshRecords DEF RunState, UnusedRun
  <2>5. t # NoRun /\ t \in 0..MaxCalls
    BY <2>2, CallsAreCounted DEF Runs, NoRun
  <2>6. /\ s \in SettlerState /\ s.pc = "waiting" /\ s.run = t
        /\ run' = [run EXCEPT ![t] = new]
        /\ settler' = [settler EXCEPT ![c] = s]
    BY <2>0, <2>3a, <2>5 DEF SettlerState
  <2> HIDE DEF new, s
  <2>7. TypeOK'
    <3>1. /\ run' \in [Runs -> RunState] /\ settler' \in [Settlers -> SettlerState]
          /\ tasks' \in [SUBSET Notices -> 0..MaxCalls] /\ latest' \in SUBSET Notices
      BY <2>0, <2>1, <2>2, <2>3, <2>4, <2>5, <2>6
    <3> QED
      BY <2>0, <2>3, <3>1 DEF TypeOK, mailbox, summary, store
  <2>8. Admission'
    <3>1. IsFiniteSet(Coming) /\ Cardinality(Coming) + Cardinality(Used) <= calls
      BY DEF ClaimInv, Admission
    <3>2. IsFiniteSet(Used)
      BY UsedIsFinite
    <3>3. Coming' = Coming \ {c}
      BY <2>0, <2>6 DEF Coming
    <3>4. Used' = Used \cup {t} /\ t \notin Used
      BY <2>0, <2>2, <2>4, <2>6 DEF Used
    <3>5. IsFiniteSet(Coming') /\ Cardinality(Coming') = Cardinality(Coming) - 1
      BY <2>0, <3>1, <3>3, FS_RemoveElement
    <3>6. Cardinality(Used') = Cardinality(Used) + 1
      BY <3>2, <3>4, FS_AddElement
    <3>7. Cardinality(Coming) \in Nat /\ Cardinality(Used) \in Nat /\ calls \in Nat
      BY <2>0, <3>1, <3>2, FS_CardinalityType, CallsAreCounted DEF TypeOK
    <3> QED
      BY <2>3, <3>1, <3>5, <3>6, <3>7 DEF Admission
  <2>9. /\ \A u \in Runs \ {t} : run'[u] = run[u]
        /\ run'[t] = new /\ ~Live(t)
        /\ \A u \in Runs : Live(u)' <=> (u = t \/ Live(u))
    BY <2>0, <2>2, <2>4, <2>6 DEF Live
  <2>10. Attended'
    <3>1. \A d \in Settlers \ {c} : settler'[d] = settler[d] /\ settler[d].run # t
      BY <2>0, <2>5, <2>6, <2>9 DEF ClaimInv, Attended
    <3>2. settler'[c] = s /\ settler[c].run = NoRun
      BY <2>0, <2>6 DEF ClaimInv, Attended
    <3>3. ASSUME NEW d \in Settlers, NEW r, r = settler'[d].run
          PROVE  IF settler'[d].pc \in {"waiting", "following", "joining"}
                 THEN r \in Runs /\ Live(r)' ELSE r = NoRun
      BY <2>2, <2>6, <2>9, <3>1, <3>2, <3>3 DEF ClaimInv, Attended
    <3>4. ASSUME NEW u \in Runs, Live(u)', run'[u].cancel
          PROVE  \E d \in Settlers : settler'[d].run = u /\ settler'[d].pc = "joining"
      BY <2>0, <2>4, <2>9, <3>1, <3>4 DEF ClaimInv, Attended
    <3> QED
      BY <3>3, <3>4, Zenon DEF Attended, Live
  <2>11. Registered'
    <3> SUFFICES ASSUME NEW u \in Runs, Live(u)' PROVE tasks'[run'[u].episode] = u
      BY DEF Registered
    <3>1. CASE u = t
      BY <2>0, <2>1, <2>3, <2>4, <2>9, <3>1
    <3>2. CASE u # t
      <4>1. tasks[run[u].episode] = u /\ u # NoRun /\ run[u].episode \in SUBSET Notices
        BY <2>0, <2>9, <3>2 DEF ClaimInv, Registered, Runs, NoRun, TypeOK, RunState
      <4> QED
        BY <2>0, <2>1, <2>3, <2>9, <3>2, <4>1
    <3> QED
      BY <3>1, <3>2
  <2>12. ClaimIsLive'
    <3> SUFFICES ASSUME NEW f \in SUBSET Notices, NEW u, u = tasks'[f], u # NoRun
                 PROVE  run'[u].episode = f /\ (Live(u)' \/ run'[u].pc = "raised")
      BY DEF ClaimIsLive
    <3>1. CASE f = e
      BY <2>0, <2>1, <2>2, <2>3, <2>4, <2>9, <3>1
    <3>2. CASE f # e
      <4>1. u = tasks[f] /\ u \in Runs
        BY <2>0, <2>1, <2>3, <3>2 DEF Runs, NoRun
      <4>2. run[u].episode = f /\ (Live(u) \/ run[u].pc = "raised")
        BY <4>1 DEF ClaimInv, ClaimIsLive
      <4>3. u # t
        BY <2>2, <2>9, <4>2
      <4> QED
        BY <2>9, <4>1, <4>2, <4>3
    <3> QED
      BY <3>1, <3>2
  <2> QED
    BY <2>7, <2>8, <2>10, <2>11, <2>12 DEF ClaimInv
<1> QED
  BY <1>1, <1>2

\* A caller whose time is up stays to join the run it has cancelled.
LEMMA TimeoutKeepsClaims ==
  ASSUME ClaimInv, NEW c \in Settlers, Timeout(c)
  PROVE  ClaimInv'
<1> DEFINE t == settler[c].run
           s == [settler[c] EXCEPT !.pc = "joining"]
           told == [run[t] EXCEPT !.cancel = TRUE]
<1>0. TypeOK /\ settler[c] \in SettlerState /\ settler[c].pc = "waiting"
  BY DEF ClaimInv, TypeOK, Timeout
<1>1. t \in Runs /\ Live(t)
  BY <1>0 DEF ClaimInv, Attended
<1>2. s \in SettlerState /\ s.pc = "joining" /\ s.run = t
  BY <1>0 DEF SettlerState
<1>3. /\ told \in RunState /\ told.pc = run[t].pc /\ told.episode = run[t].episode
      /\ told.cancel
  <2> HIDE DEF t
  <2>1. run[t] \in RunState
    BY <1>0, <1>1 DEF TypeOK
  <2> QED
    BY <2>1 DEF RunState
<1>4. /\ run' = [run EXCEPT ![t] = told]
      /\ settler' = [settler EXCEPT ![c] = s]
      /\ UNCHANGED <<mailbox, store, coordinator, calls>>
  BY <1>0, <1>1 DEF Timeout, TypeOK
<1>5. thread' = thread \/ thread' = [thread EXCEPT ![t] = IdleThread]
  BY DEF Timeout
<1> HIDE DEF t, s, told
<1>6. TypeOK'
  <2>1. /\ run' \in [Runs -> RunState] /\ settler' \in [Settlers -> SettlerState]
        /\ thread' \in [Runs -> ThreadState]
    BY <1>0, <1>1, <1>2, <1>3, <1>4, <1>5, FreshRecords DEF TypeOK
  <2> QED
    BY <1>0, <1>4, <2>1 DEF TypeOK, mailbox, summary, store, coordinator
<1>7. /\ \A u \in Runs \ {t} : run'[u] = run[u]
      /\ run'[t] = told
      /\ \A u \in Runs : (run'[u].pc = run[u].pc) /\ (Live(u)' <=> Live(u))
      /\ \A u \in Runs : run'[u].episode = run[u].episode
  BY <1>0, <1>1, <1>3, <1>4 DEF TypeOK, Live
<1>8. Coming' = Coming /\ Used' = Used
  BY <1>0, <1>2, <1>4, <1>7 DEF TypeOK, Coming, Used
<1>9. Admission'
  BY <1>4, <1>8 DEF ClaimInv, Admission
<1>10. Attended'
  <2>1. /\ \A d \in Settlers \ {c} : settler'[d] = settler[d]
        /\ settler'[c] = s
    BY <1>0, <1>4 DEF TypeOK
  <2>2. ASSUME NEW d \in Settlers, NEW r, r = settler'[d].run
        PROVE  IF settler'[d].pc \in {"waiting", "following", "joining"}
               THEN r \in Runs /\ Live(r)' ELSE r = NoRun
    BY <1>0, <1>1, <1>2, <1>7, <2>1, <2>2 DEF ClaimInv, Attended
  <2>3. ASSUME NEW u \in Runs, Live(u)', run'[u].cancel
        PROVE  \E d \in Settlers : settler'[d].run = u /\ settler'[d].pc = "joining"
    BY <1>0, <1>2, <1>7, <2>1, <2>3 DEF ClaimInv, Attended
  <2> QED
    BY <2>2, <2>3, Zenon DEF Attended, Live
<1>11. Registered' /\ ClaimIsLive'
  <2>1. Registered'
    BY <1>4, <1>7 DEF ClaimInv, Registered, coordinator
  <2>2. ClaimIsLive'
    <3> SUFFICES ASSUME NEW f \in SUBSET Notices, NEW u, u = tasks'[f], u # NoRun
                 PROVE  run'[u].episode = f /\ (Live(u)' \/ run'[u].pc = "raised")
      BY DEF ClaimIsLive
    <3>1. u = tasks[f] /\ u \in Runs
      BY <1>0, <1>4 DEF TypeOK, Runs, NoRun, coordinator
    <3> QED
      BY <1>7, <3>1 DEF ClaimInv, ClaimIsLive
  <2> QED
    BY <2>1, <2>2
<1> QED
  BY <1>6, <1>9, <1>10, <1>11 DEF ClaimInv

\* A run ends: its claim goes with it, unless the task raises, and whoever waits for
\* it leaves.
LEMMA RunEndsKeepsClaims ==
  ASSUME ClaimInv, NEW t \in Runs,
         NEW outcome \in {"success", "failed", "cancelled", "raised"}, RunEnds(t, outcome)
  PROVE  ClaimInv'
<1> DEFINE e == run[t].episode
           over == Over(t, outcome)
           settled == \/ outcome \in {"success", "failed"}
                      \/ /\ outcome = "cancelled"
                         /\ \E c \in Settlers : settler[c].run = t /\ settler[c].pc = "joining"
<1>0. /\ TypeOK /\ run \in [Runs -> RunState] /\ run[t] \in RunState
      /\ tasks \in [SUBSET Notices -> 0..MaxCalls] /\ settler \in [Settlers -> SettlerState]
  BY DEF ClaimInv, TypeOK
<1>1. e \in SUBSET Notices /\ over \in RunState /\ over.pc = outcome /\ over.episode = e
  BY <1>0, OverType DEF RunState
<1>2. /\ Live(t) /\ outcome \in Ends(t)
      /\ run' = [run EXCEPT ![t] = over]
      /\ results' = IF outcome = "success" THEN results \cup {e} ELSE results
      /\ tasks' = IF settled THEN [tasks EXCEPT ![e] = NoRun] ELSE tasks
      /\ latest' = IF settled THEN e ELSE latest
      /\ UNCHANGED <<mailbox, store, thread, calls>>
  BY DEF RunEnds
<1>3. settler' = [c \in Settlers |->
         IF settler[c].run # t THEN settler[c]
         ELSE IF settler[c].pc = "joining" /\ outcome # "raised" THEN Returned(c, "timed_out")
         ELSE Returned(c, outcome)]
  BY DEF RunEnds
<1>4. settled \/ outcome = "raised"
  <2>1. outcome = "cancelled" => run[t].cancel
    BY <1>2 DEF Ends, Outcomes, MayCall
  <2> QED
    BY <1>2, <2>1 DEF ClaimInv, Attended
<1>5. tasks[e] = t /\ t # NoRun
  BY <1>2 DEF ClaimInv, Registered, Runs, NoRun
<1> HIDE DEF e, over, settled
<1>6. ASSUME NEW c \in Settlers
      PROVE  /\ settler'[c] \in SettlerState
             /\ settler[c].run # t => settler'[c] = settler[c]
             /\ settler[c].run = t => settler'[c].pc = "out" /\ settler'[c].run = NoRun
  BY <1>0, <1>3, ReturnedType
<1>7. /\ \A u \in Runs \ {t} : run'[u] = run[u]
      /\ run'[t] = over
      /\ \A u \in Runs : Live(u)' <=> u # t /\ Live(u)
  BY <1>0, <1>1, <1>2 DEF Live
<1>8. TypeOK'
  <2>1. /\ run' \in [Runs -> RunState] /\ settler' \in [Settlers -> SettlerState]
        /\ tasks' \in [SUBSET Notices -> 0..MaxCalls]
        /\ results' \in SUBSET (SUBSET Notices) /\ latest' \in SUBSET Notices
    <3>1. settler' \in [Settlers -> SettlerState]
      BY <1>3, <1>6
    <3>2. 0 \in 0..MaxCalls
      BY CallsAreCounted
    <3> QED
      BY <1>0, <1>1, <1>2, <3>1, <3>2 DEF TypeOK, NoRun
  <2> QED
    BY <1>0, <1>2, <2>1 DEF TypeOK, mailbox, summary, store
<1>9. Admission'
  <2>1. \A c \in Settlers : settler[c].run = t => settler[c].pc \notin {"reading", "claiming"}
    BY <1>5 DEF ClaimInv, Attended
  <2>2. Coming' = Coming
    BY <1>6, <2>1 DEF Coming
  <2>3. Used' = Used
    BY <1>1, <1>2, <1>7 DEF Used, Live
  <2> QED
    BY <1>2, <2>2, <2>3 DEF ClaimInv, Admission
<1>10. Attended'
  <2>1. ASSUME NEW d \in Settlers, NEW r, r = settler'[d].run
        PROVE  IF settler'[d].pc \in {"waiting", "following", "joining"}
               THEN r \in Runs /\ Live(r)' ELSE r = NoRun
    BY <1>6, <1>7, <2>1 DEF ClaimInv, Attended
  <2>2. ASSUME NEW u \in Runs, Live(u)', run'[u].cancel
        PROVE  \E d \in Settlers : settler'[d].run = u /\ settler'[d].pc = "joining"
    BY <1>6, <1>7, <2>2 DEF ClaimInv, Attended
  <2> QED
    BY <2>1, <2>2, Zenon DEF Attended, Live
<1>11. Registered'
  <2> SUFFICES ASSUME NEW u \in Runs, Live(u)' PROVE tasks'[run'[u].episode] = u
    BY DEF Registered
  <2>1. u # t /\ tasks[run[u].episode] = u /\ run[u].episode \in SUBSET Notices
    BY <1>0, <1>7 DEF ClaimInv, Registered, RunState
  <2> QED
    BY <1>0, <1>1, <1>2, <1>5, <1>7, <2>1
<1>12. ClaimIsLive'
  <2> SUFFICES ASSUME NEW f \in SUBSET Notices, NEW u, u = tasks'[f], u # NoRun
               PROVE  run'[u].episode = f /\ (Live(u)' \/ run'[u].pc = "raised")
    BY DEF ClaimIsLive
  <2>1. u = tasks[f] /\ u \in Runs /\ (f = e => ~settled)
    BY <1>0, <1>1, <1>2 DEF Runs, NoRun
  <2>2. run[u].episode = f /\ (Live(u) \/ run[u].pc = "raised")
    BY <2>1 DEF ClaimInv, ClaimIsLive
  <2>3. CASE f = e
    BY <1>1, <1>4, <1>5, <1>7, <2>1, <2>3
  <2>4. CASE f # e
    <3>1. u # t
      BY <2>2, <2>4 DEF e
    <3> QED
      BY <1>7, <2>1, <2>2, <3>1
  <2> QED
    BY <2>3, <2>4
<1> QED
  BY <1>8, <1>9, <1>10, <1>11, <1>12 DEF ClaimInv

\* A restart leaves no run, no caller and no claim.
LEMMA RestartKeepsClaims ==
  ASSUME ClaimInv, Restart
  PROVE  ClaimInv'
<1>0. TypeOK /\ run \in [Runs -> RunState]
  BY DEF ClaimInv, TypeOK
<1>1. /\ run' = [t \in Runs |-> IF Live(t) THEN Over(t, "dead") ELSE run[t]]
      /\ thread' = [t \in Runs |-> IdleThread]
      /\ tasks' = [e \in SUBSET Notices |-> NoRun]
      /\ results' = {} /\ latest' = {}
      /\ settler' = [c \in Settlers |-> Outside]
      /\ shown' = Rendered(rules) /\ posting' = FALSE
      /\ torn' = (torn \/ ~Unlocked)
      /\ UNCHANGED <<pending, processed, status, rules, calls>>
  BY DEF Restart
<1>2. \A t \in Runs : /\ run'[t] \in RunState
                      /\ ~Live(t)'
                      /\ run'[t].pc # "unused" <=> run[t].pc # "unused"
  BY <1>0, <1>1, OverType DEF Live
<1>3. TypeOK'
  <2>1. /\ run' \in [Runs -> RunState] /\ thread' \in [Runs -> ThreadState]
        /\ settler' \in [Settlers -> SettlerState]
    BY <1>1, <1>2, FreshRecords
  <2>2. tasks' \in [SUBSET Notices -> 0..MaxCalls]
    BY <1>1, CallsAreCounted DEF NoRun
  <2>3. /\ shown' \in [root : SUBSET Runs, scope : SUBSET Runs]
        /\ torn' \in BOOLEAN
    BY <1>0, <1>1 DEF TypeOK, Rendered, Unlocked
  <2> QED
    BY <1>0, <1>1, <2>1, <2>2, <2>3 DEF TypeOK
<1>4. Admission'
  <2>1. Coming' = {} /\ Used' = Used
    BY <1>1, <1>2 DEF Coming, Used, Outside
  <2>2. Cardinality(Coming) \in Nat /\ Cardinality(Used) \in Nat /\ calls \in Nat
    BY <1>0, UsedIsFinite, FS_CardinalityType, CallsAreCounted DEF ClaimInv, Admission, TypeOK
  <2>3. Cardinality(Coming) + Cardinality(Used) <= calls
    BY DEF ClaimInv, Admission
  <2> QED
    BY <1>1, <2>1, <2>2, <2>3, FS_EmptySet DEF Admission
<1>5. Attended'
  BY <1>1, <1>2 DEF Attended, Outside
<1>6. Registered' /\ ClaimIsLive'
  BY <1>1, <1>2 DEF Registered, ClaimIsLive
<1> QED
  BY <1>3, <1>4, <1>5, <1>6 DEF ClaimInv

LEMMA ClaimStep ==
  ASSUME ClaimInv, [Next]_vars
  PROVE  ClaimInv'
<1>1. CASE UNCHANGED vars
  BY <1>1 DEF vars, mailbox, summary, store, coordinator, ClaimInv, TypeOK, Admission, Coming,
     Used, Attended, Live, Registered, ClaimIsLive
<1>2. CASE (\E n \in Notices : Post(n)) \/ PostRefreshes \/ \E t \in Runs : ThreadStep(t)
  BY <1>2, FilesKeepClaims
<1>3. ASSUME NEW c \in Settlers, Settle(c) \/ SettlerStep(c) \/ CallerCancelled(c)
      PROVE  ClaimInv'
  BY <1>3, SettleKeepsClaims, CallersKeepClaims, ClaimKeepsClaims, TimeoutKeepsClaims
     DEF SettlerStep
<1>4. ASSUME NEW t \in Runs,
             \/ CallAdd(t) \/ ToolReturns(t)
             \/ \E kind \in {"candidate", "other"} : CallAck(t, kind)
      PROVE  ClaimInv'
  BY <1>4, LoopKeepsClaims
<1>5. ASSUME NEW t \in Runs,
             \E outcome \in {"success", "failed", "cancelled", "raised"} : RunEnds(t, outcome)
      PROVE  ClaimInv'
  BY <1>5, RunEndsKeepsClaims
<1>6. CASE Restart
  BY <1>6, RestartKeepsClaims
<1> QED
  BY <1>1, <1>2, <1>3, <1>4, <1>5, <1>6 DEF Next

THEOREM ClaimsHold == Spec => []ClaimInv
<1>1. Init => ClaimInv
  BY ClaimInit
<1>2. ClaimInv /\ [Next]_vars => ClaimInv'
  BY ClaimStep
<1> QED
  BY <1>1, <1>2, PTL DEF Spec

\* Every variable keeps its shape: no step finds a claim, a caller or a tool answer
\* that is not one the code knows, and a claim always finds a run left to start.
THEOREM TypeCorrect == Spec => []TypeOK
<1>1. ClaimInv => TypeOK
  BY DEF ClaimInv
<1> QED
  BY <1>1, ClaimsHold, PTL

\* repair/coordinator.py, _single_flight() with _capture_result() and the callers that
\* time out: a claim never outlives its run, unless the run's end could not be
\* journaled.
THEOREM ClaimsAreLive == Spec => []ClaimIsLive
<1>1. ClaimInv => ClaimIsLive
  BY DEF ClaimInv
<1> QED
  BY <1>1, ClaimsHold, PTL

\* Single flight: two runs of one episode are never under way together, whatever the
\* callers do, because the registry has one entry for an episode and every live run
\* is the entry of its own.
THEOREM SingleFlight == Spec => []OneRunPerEpisode
<1>1. ClaimInv => OneRunPerEpisode
  BY DEF ClaimInv, Registered, OneRunPerEpisode
<1> QED
  BY <1>1, ClaimsHold, PTL

-----------------------------------------------------------------------------
(* Runs and their worker threads *)

\* A thinking run has no tool call out; a thread that acknowledges has a kind to write
\* and works off the episode of its run.
ToolInv ==
  \A t \in Runs :
    /\ run[t].pc \in {"unused", "thinking"} => thread[t].pc = "idle"
    /\ run[t].pc = "unused" => run[t].episode = {}
    /\ thread[t].pc \in {"ack", "write", "unlink"} => run[t].kind # "none"
    /\ thread[t].pc \in {"write", "unlink"} => thread[t].todo \subseteq run[t].episode

\* Where a thread holds no lock: the call is queued, or its answer is.
LockFree == {"idle", "add", "append", "ack", "added", "covered", "acked", "refused"}

\* What a step of the event loop may do to run t and its thread: no lock changes hands,
\* and a run only notes what its thread has answered.
LoopMoves(t) ==
  /\ \/ thread'[t] = thread[t]
     \/ thread[t].pc \in LockFree /\ thread'[t].pc \in {"idle", "add", "ack"}
  /\ run'[t].pc \in {"unused", "thinking"} => thread'[t].pc = "idle"
  /\ run'[t].pc = "unused" => run'[t] = run[t]
  /\ thread'[t].pc \in {"ack", "write", "unlink"} => run'[t].kind # "none"
  /\ run'[t].kind = "candidate" => run[t].kind = "candidate" \/ run[t].candidate
  /\ run'[t].kind # run[t].kind => thread[t].pc = "idle"
  /\ run'[t].candidate => run[t].candidate \/ thread[t].pc = "added"
  /\ run'[t].resolved => run[t].resolved \/ thread[t].pc = "acked"
  /\ \/ run'[t].episode = run[t].episode
     \/ /\ run[t].episode = {} /\ ~run'[t].resolved /\ thread'[t].pc = "idle"
        /\ \E c \in Settlers : run'[t].episode = settler[c].episode

\* The steps of the event loop; the others are a thread's, or end the process.
LoopStep ==
  \/ \E c \in Settlers : Settle(c) \/ SettlerStep(c) \/ CallerCancelled(c)
  \/ \E t \in Runs :
       \/ CallAdd(t) \/ ToolReturns(t)
       \/ \E kind \in {"candidate", "other"} : CallAck(t, kind)
       \/ \E outcome \in {"success", "failed", "cancelled", "raised"} : RunEnds(t, outcome)

LEMMA RunUnmoved ==
  ASSUME ToolInv, NEW t \in Runs, run'[t] = run[t], thread'[t] = thread[t]
  PROVE  LoopMoves(t)
BY DEF ToolInv, LoopMoves

LEMMA CallersMove ==
  ASSUME ClaimInv, ToolInv, NEW c \in Settlers,
         Settle(c) \/ SettlerStep(c) \/ CallerCancelled(c)
  PROVE  UNCHANGED <<mailbox, store>> /\ \A t \in Runs : LoopMoves(t)
<1>0. TypeOK /\ run \in [Runs -> RunState] /\ thread \in [Runs -> ThreadState]
  BY DEF ClaimInv, TypeOK
<1>1. UNCHANGED <<mailbox, store>>
  BY DEF Settle, SettlerStep, ReadPending, Follow, Claim, Timeout, FollowTimeout,
     CallerCancelled
<1>2. CASE UNCHANGED <<run, thread>>
  BY <1>1, <1>2, RunUnmoved
<1>3. CASE Claim(c) /\ run' # run
  <2> DEFINE e == settler[c].episode
             r == CHOOSE u \in Runs : run[u].pc = "unused"
             new == [UnusedRun EXCEPT !.pc = "thinking", !.episode = e]
  <2>1. settler[c].pc = "claiming" /\ run' = [run EXCEPT ![r] = new] /\ thread' = thread
    BY <1>3 DEF Claim
  <2>2. r \in Runs /\ run[r].pc = "unused"
    BY <2>1, RunLeft DEF ClaimInv, Coming
  <2>3. new.pc = "thinking" /\ new.episode = e /\ ~new.candidate /\ ~new.resolved
        /\ new.kind = "none"
    BY DEF UnusedRun
  <2> HIDE DEF e, r, new
  <2>4. \A t \in Runs \ {r} : run'[t] = run[t] /\ thread'[t] = thread[t]
    BY <1>0, <2>1
  <2>5. run'[r] = new /\ thread'[r] = thread[r] /\ thread[r].pc = "idle"
        /\ run[r].episode = {}
    BY <1>0, <2>1, <2>2 DEF ToolInv
  <2>6. ASSUME NEW t \in Runs, t = r PROVE LoopMoves(t)
    BY <2>3, <2>5, <2>6 DEF LoopMoves, e
  <2> QED
    BY <1>1, <2>4, <2>6, RunUnmoved
<1>4. CASE Timeout(c)
  <2> DEFINE r == settler[c].run
             told == [run[r] EXCEPT !.cancel = TRUE]
  <2>0. r \in Runs /\ Live(r)
    BY <1>4 DEF Timeout, ClaimInv, Attended
  <2>1. /\ run' = [run EXCEPT ![r] = told]
        /\ \/ thread' = thread
           \/ /\ thread[r].pc \in {"add", "append", "ack"}
              /\ thread' = [thread EXCEPT ![r] = IdleThread]
    BY <1>4 DEF Timeout
  <2>2. /\ told.pc = run[r].pc /\ told.episode = run[r].episode /\ told.kind = run[r].kind
        /\ told.candidate = run[r].candidate /\ told.resolved = run[r].resolved
    <3> HIDE DEF r
    <3>1. run[r] \in RunState
      BY <1>0, <2>0
    <3> QED
      BY <3>1 DEF RunState
  <2> HIDE DEF r, told
  <2>3. \A t \in Runs \ {r} : run'[t] = run[t] /\ thread'[t] = thread[t]
    BY <1>0, <2>1
  <2>4. run'[r] = told
    BY <1>0, <2>0, <2>1
  <2>5. \/ thread'[r] = thread[r]
        \/ thread[r].pc \in {"add", "append", "ack"} /\ thread'[r].pc = "idle"
    BY <1>0, <2>0, <2>1 DEF IdleThread
  <2>6. ASSUME NEW t \in Runs, t = r PROVE LoopMoves(t)
    BY <2>0, <2>2, <2>4, <2>5, <2>6 DEF LoopMoves, ToolInv, LockFree, Live
  <2> QED
    BY <1>1, <2>3, <2>6, RunUnmoved
<1> QED
  BY <1>2, <1>3, <1>4 DEF Settle, SettlerStep, ReadPending, Follow, Claim, FollowTimeout,
     CallerCancelled

LEMMA RunsMove ==
  ASSUME ClaimInv, ToolInv, NEW r \in Runs,
         \/ CallAdd(r) \/ ToolReturns(r)
         \/ \E kind \in {"candidate", "other"} : CallAck(r, kind)
         \/ \E outcome \in {"success", "failed", "cancelled", "raised"} : RunEnds(r, outcome)
  PROVE  UNCHANGED <<mailbox, store>> /\ \A t \in Runs : LoopMoves(t)
<1>0. /\ TypeOK /\ run \in [Runs -> RunState] /\ thread \in [Runs -> ThreadState]
      /\ run[r] \in RunState /\ thread[r] \in ThreadState
  BY DEF ClaimInv, TypeOK
<1>1. UNCHANGED <<mailbox, store>>
  BY DEF CallAdd, ToolReturns, CallAck, RunEnds
<1>2. ASSUME NEW new, NEW done, new.episode = run[r].episode,
             run' = [run EXCEPT ![r] = new],
             \/ done = thread[r]
             \/ thread[r].pc \in LockFree /\ done.pc \in {"idle", "add", "ack"},
             thread' = [thread EXCEPT ![r] = done],
             new.pc # "unused", new.pc = "thinking" => done.pc = "idle",
             done.pc \in {"ack", "write", "unlink"} => new.kind # "none",
             new.kind = "candidate" => run[r].kind = "candidate" \/ run[r].candidate,
             new.kind # run[r].kind => thread[r].pc = "idle",
             new.candidate => run[r].candidate \/ thread[r].pc = "added",
             new.resolved => run[r].resolved \/ thread[r].pc = "acked"
      PROVE  \A t \in Runs : LoopMoves(t)
  <2>1. \A t \in Runs \ {r} : run'[t] = run[t] /\ thread'[t] = thread[t]
    BY <1>0, <1>2
  <2>2. run'[r] = new /\ thread'[r] = done
    BY <1>0, <1>2
  <2>3. LoopMoves(r)
    BY <1>2, <2>2 DEF LoopMoves
  <2> QED
    BY <2>1, <2>3, RunUnmoved
<1>3. CASE CallAdd(r)
  <2> DEFINE new == [run[r] EXCEPT !.pc = "adding"]
             done == [thread[r] EXCEPT !.pc = "add"]
  <2>1. /\ run' = [run EXCEPT ![r] = new] /\ thread' = [thread EXCEPT ![r] = done]
        /\ run[r].pc = "thinking" /\ thread[r].pc = "idle"
    BY <1>0, <1>3 DEF CallAdd, MayCall, ToolInv
  <2>2. /\ new.pc = "adding" /\ new.episode = run[r].episode /\ new.kind = run[r].kind
        /\ new.candidate = run[r].candidate /\ new.resolved = run[r].resolved
        /\ done.pc = "add"
    BY <1>0 DEF RunState, ThreadState
  <2> HIDE DEF new, done
  <2> QED
    BY <1>1, <1>2, <2>1, <2>2 DEF LockFree
<1>4. ASSUME NEW kind \in {"candidate", "other"}, CallAck(r, kind)
      PROVE  \A t \in Runs : LoopMoves(t)
  <2> DEFINE new == [run[r] EXCEPT !.pc = "acking", !.kind = kind]
             done == [thread[r] EXCEPT !.pc = "ack"]
  <2>1. run' = [run EXCEPT ![r].pc = "acking", ![r].kind = kind]
        /\ thread' = [thread EXCEPT ![r].pc = "ack"]
    BY <1>4 DEF CallAck
  <2>2. run' = [run EXCEPT ![r] = new] /\ thread' = [thread EXCEPT ![r] = done]
    BY <1>0, <2>1
  <2>3. /\ run[r].pc = "thinking" /\ thread[r].pc = "idle"
        /\ kind = "candidate" => run[r].candidate
    BY <1>4 DEF CallAck, MayCall, ToolInv
  <2>4. /\ new.pc = "acking" /\ new.episode = run[r].episode /\ new.kind = kind
        /\ new.candidate = run[r].candidate /\ new.resolved = run[r].resolved
        /\ done.pc = "ack"
    BY <1>0 DEF RunState, ThreadState
  <2> HIDE DEF new, done
  <2> QED
    BY <1>2, <2>2, <2>3, <2>4 DEF LockFree
<1>5. CASE ToolReturns(r)
  <2>1. /\ run' = [run EXCEPT ![r] = Noted(r)] /\ thread' = [thread EXCEPT ![r] = IdleThread]
        /\ thread[r].pc \in {"added", "covered", "acked", "refused"}
    BY <1>5 DEF ToolReturns
  <2>2. IdleThread.pc = "idle"
    BY DEF IdleThread
  <2> QED
    BY <1>0, <1>1, <1>2, <2>1, <2>2, NotedType DEF LockFree
<1>6. ASSUME NEW outcome \in {"success", "failed", "cancelled", "raised"}, RunEnds(r, outcome)
      PROVE  \A t \in Runs : LoopMoves(t)
  <2>1. run' = [run EXCEPT ![r] = Over(r, outcome)] /\ thread' = thread
    BY <1>6 DEF RunEnds
  <2>2. /\ run'[r].pc = outcome /\ run'[r].episode = run[r].episode
        /\ run'[r].kind = run[r].kind /\ ~run'[r].candidate /\ ~run'[r].resolved
        /\ thread'[r] = thread[r]
    BY <1>0, <2>1, OverType
  <2>3. LoopMoves(r)
    BY <2>2 DEF LoopMoves, ToolInv
  <2>4. \A t \in Runs \ {r} : run'[t] = run[t] /\ thread'[t] = thread[t]
    BY <1>0, <2>1
  <2> QED
    BY <2>3, <2>4, RunUnmoved
<1> QED
  BY <1>1, <1>3, <1>4, <1>5, <1>6

LEMMA LoopStepMoves ==
  ASSUME ClaimInv, ToolInv, LoopStep
  PROVE  UNCHANGED <<mailbox, store>> /\ \A t \in Runs : LoopMoves(t)
BY CallersMove, RunsMove DEF LoopStep

\* What a step of a worker thread leaves alone.
LEMMA ThreadAlone ==
  ASSUME TypeOK, NEW r \in Runs, ThreadStep(r)
  PROVE  /\ UNCHANGED <<run, posting, coordinator, settler, calls>>
         /\ \A t \in Runs \ {r} : thread'[t] = thread[t]
<1>1. thread \in [Runs -> ThreadState]
  BY DEF TypeOK
<1>2. UNCHANGED <<run, posting, coordinator, settler, calls>>
  BY DEF ThreadStep, ThreadCover, ThreadAdd, ThreadSync, ThreadCheck, ThreadRefresh,
     ThreadWrite, ThreadUnlink, mailbox, summary
<1>3. \E x : thread' = [thread EXCEPT ![r] = x]
  <2>1. CASE ThreadCover(r)
    BY <2>1 DEF ThreadCover
  <2>2. CASE ThreadAdd(r)
    BY <2>2 DEF ThreadAdd
  <2>3. CASE ThreadSync(r)
    BY <2>3 DEF ThreadSync
  <2>4. CASE ThreadCheck(r)
    BY <2>4 DEF ThreadCheck
  <2>5. CASE ThreadRefresh(r)
    BY <2>5 DEF ThreadRefresh
  <2>6. ASSUME NEW n \in Notices, ThreadWrite(r, n) PROVE <1>3!:
    BY <2>6, Zenon DEF ThreadWrite
  <2>7. ASSUME NEW n \in Notices, ThreadUnlink(r, n) PROVE <1>3!:
    BY <2>7, Zenon DEF ThreadUnlink
  <2> QED
    BY <2>1, <2>2, <2>3, <2>4, <2>5, <2>6, <2>7 DEF ThreadStep
<1> QED
  BY <1>1, <1>2, <1>3

\* The steps of a worker thread, field by field.
Covers(r) ==
  /\ UNCHANGED <<mailbox, store>>
  /\ thread[r].pc = "add" /\ thread'[r].pc \in {"idle", "append", "covered"}

Adds(r) ==
  /\ UNCHANGED <<mailbox, shown>>
  /\ thread[r].pc = "append" /\ RulesUnlocked
  /\ \/ /\ rules' = rules \cup {r}
        /\ thread'[r].pc = "root" /\ thread'[r].live = rules'
     \/ /\ rules' = rules
        /\ thread'[r].pc \in {"idle", "covered"}

Syncs(r) ==
  /\ UNCHANGED <<mailbox, rules>>
  /\ \/ /\ thread[r].pc = "root" /\ thread'[r].pc = "scope"
        /\ shown'.root = thread[r].live /\ thread'[r].live = thread[r].live
     \/ /\ thread[r].pc = "scope" /\ thread'[r].pc \in {"idle", "added", "refused"}
        /\ shown'.scope = thread[r].live /\ shown'.root = shown.root

Checks(r) ==
  /\ UNCHANGED <<mailbox, store>>
  /\ thread[r].pc = "ack" /\ Unlocked
  /\ \/ /\ run[r].episode \subseteq pending
        /\ thread'[r].pc = "write" /\ thread'[r].todo = run[r].episode
     \/ thread'[r].pc \in {"idle", "refused"}

Writes(r, n) ==
  /\ UNCHANGED <<pending, summary, store>>
  /\ thread[r].pc = "write" /\ n \in thread[r].todo
  /\ processed'[n] = run[r].kind
  /\ \A m \in Notices \ {n} : processed'[m] = processed[m]
  /\ \/ /\ thread[r].todo = {n}
        /\ thread'[r].pc = "unlink" /\ thread'[r].todo = run[r].episode
     \/ thread'[r].pc = "write" /\ thread'[r].todo = thread[r].todo \ {n}

Unlinks(r, n) ==
  /\ UNCHANGED <<processed, summary, store>>
  /\ thread[r].pc = "unlink" /\ n \in thread[r].todo
  /\ pending' = pending \ {n}
  /\ \/ thread[r].todo = {n} /\ thread'[r].pc = "listing"
     \/ thread'[r].pc = "unlink" /\ thread'[r].todo = thread[r].todo \ {n}

Refreshes(r) ==
  /\ UNCHANGED <<pending, processed, posting, store>>
  /\ \/ /\ thread[r].pc = "listing" /\ thread'[r].pc = "summary"
        /\ thread'[r].todo = pending
        /\ UNCHANGED <<status, torn>>
     \/ /\ thread[r].pc = "summary" /\ thread'[r].pc \in {"idle", "acked"}
        /\ status' = thread[r].todo

LEMMA ThreadShapes ==
  ASSUME TypeOK, NEW r \in Runs, ThreadStep(r)
  PROVE  \/ Covers(r) \/ Adds(r) \/ Syncs(r) \/ Checks(r) \/ Refreshes(r)
         \/ \E n \in Notices : Writes(r, n) \/ Unlinks(r, n)
<1>0. /\ thread \in [Runs -> ThreadState] /\ thread[r] \in ThreadState
      /\ shown \in [root : SUBSET Runs, scope : SUBSET Runs]
      /\ processed \in [Notices -> {"none", "candidate", "other"}]
  BY DEF TypeOK
<1>1. ThreadCover(r) => Covers(r)
  BY <1>0, AnswerType DEF ThreadCover, Covers
<1>2. ThreadAdd(r) => Adds(r)
  <2> DEFINE x == [IdleThread EXCEPT !.pc = "root", !.live = rules']
  <2>1. x.pc = "root" /\ x.live = rules'
    BY DEF IdleThread
  <2> HIDE DEF x
  <2>2. ThreadAdd(r) =>
          /\ UNCHANGED <<mailbox, shown>>
          /\ thread[r].pc = "append" /\ RulesUnlocked
          /\ \/ rules' = rules \cup {r} /\ thread' = [thread EXCEPT ![r] = x]
             \/ rules' = rules /\ thread' = [thread EXCEPT ![r] = Answer(r, "covered")]
    BY Zenon DEF ThreadAdd, x
  <2> QED
    BY <1>0, <2>1, <2>2, AnswerType DEF Adds
<1>3. ThreadSync(r) => Syncs(r)
  <2> SUFFICES ASSUME ThreadSync(r) PROVE Syncs(r)
    OBVIOUS
  <2>1. UNCHANGED <<mailbox, rules>>
    BY DEF ThreadSync
  <2>2. CASE thread[r].pc = "root"
    <3>1. /\ shown' = [shown EXCEPT !.root = thread[r].live]
          /\ thread' = [thread EXCEPT ![r].pc = "scope"]
      BY <2>2 DEF ThreadSync
    <3>2. thread'[r].pc = "scope" /\ thread'[r].live = thread[r].live
      BY <1>0, <3>1 DEF ThreadState
    <3> QED
      BY <1>0, <2>1, <2>2, <3>1, <3>2 DEF Syncs
  <2>3. CASE thread[r].pc = "scope"
    <3>1. /\ shown' = [shown EXCEPT !.scope = thread[r].live]
          /\ \E answer \in {"added", "refused"} :
               thread' = [thread EXCEPT ![r] = Answer(r, answer)]
      BY <2>3 DEF ThreadSync
    <3>2. thread'[r].pc \in {"idle", "added", "refused"}
      BY <1>0, <3>1, AnswerType
    <3> QED
      BY <1>0, <2>1, <2>3, <3>1, <3>2 DEF Syncs
  <2> QED
    BY <2>2, <2>3 DEF ThreadSync
<1>4. ThreadCheck(r) => Checks(r)
  <2> DEFINE x == [IdleThread EXCEPT !.pc = "write", !.todo = run[r].episode]
  <2>1. x.pc = "write" /\ x.todo = run[r].episode
    BY DEF IdleThread
  <2> HIDE DEF x
  <2>2. ThreadCheck(r) =>
          /\ UNCHANGED <<mailbox, store>>
          /\ thread[r].pc = "ack" /\ Unlocked
          /\ thread' = [thread EXCEPT ![r] =
               IF run[r].episode \subseteq pending THEN x ELSE Answer(r, "refused")]
    BY DEF ThreadCheck, x
  <2> QED
    BY <1>0, <2>1, <2>2, AnswerType DEF Checks
<1>5. ThreadRefresh(r) => Refreshes(r)
  <2> DEFINE x == [thread[r] EXCEPT !.pc = "summary", !.todo = pending]
  <2>1. x.pc = "summary" /\ x.todo = pending
    BY <1>0 DEF ThreadState
  <2> HIDE DEF x
  <2>2. ThreadRefresh(r) =>
          /\ UNCHANGED <<pending, processed, posting, store>>
          /\ \/ /\ thread[r].pc = "listing" /\ thread' = [thread EXCEPT ![r] = x]
                /\ UNCHANGED <<status, torn>>
             \/ /\ thread[r].pc = "summary" /\ status' = thread[r].todo
                /\ thread' = [thread EXCEPT ![r] = Answer(r, "acked")]
    BY DEF ThreadRefresh, x
  <2> QED
    BY <1>0, <2>1, <2>2, AnswerType DEF Refreshes
<1>6. ASSUME NEW n \in Notices, ThreadWrite(r, n) PROVE Writes(r, n)
  <2> DEFINE x == [thread[r] EXCEPT !.pc = "unlink", !.todo = run[r].episode]
             y == [thread[r] EXCEPT !.todo = thread[r].todo \ {n}]
  <2>1. /\ x.pc = "unlink" /\ x.todo = run[r].episode
        /\ y.pc = thread[r].pc /\ y.todo = thread[r].todo \ {n}
    BY <1>0 DEF ThreadState
  <2>2. /\ UNCHANGED <<pending, summary, store>>
        /\ thread[r].pc = "write" /\ n \in thread[r].todo
        /\ processed' = [processed EXCEPT ![n] = run[r].kind]
        /\ thread' = [thread EXCEPT ![r] = IF thread[r].todo = {n} THEN x ELSE y]
    BY <1>6 DEF ThreadWrite
  <2> HIDE DEF x, y
  <2> QED
    BY <1>0, <2>1, <2>2 DEF Writes
<1>7. ASSUME NEW n \in Notices, ThreadUnlink(r, n) PROVE Unlinks(r, n)
  <2> DEFINE x == [IdleThread EXCEPT !.pc = "listing"]
             y == [thread[r] EXCEPT !.todo = thread[r].todo \ {n}]
  <2>1. x.pc = "listing" /\ y.pc = thread[r].pc /\ y.todo = thread[r].todo \ {n}
    BY <1>0 DEF ThreadState, IdleThread
  <2>2. /\ UNCHANGED <<processed, summary, store>>
        /\ thread[r].pc = "unlink" /\ n \in thread[r].todo
        /\ pending' = pending \ {n}
        /\ thread' = [thread EXCEPT ![r] = IF thread[r].todo = {n} THEN x ELSE y]
    BY <1>7 DEF ThreadUnlink
  <2> HIDE DEF x, y
  <2> QED
    BY <1>0, <2>1, <2>2 DEF Unlinks
<1> QED
  BY <1>1, <1>2, <1>3, <1>4, <1>5, <1>6, <1>7 DEF ThreadStep

LEMMA ToolInit == Init => ToolInv
BY DEF Init, ToolInv, UnusedRun, IdleThread

LEMMA ToolStep ==
  ASSUME ClaimInv, ToolInv, [Next]_vars
  PROVE  ToolInv'
<1>0. TypeOK
  BY DEF ClaimInv
<1>1. CASE UNCHANGED <<run, thread>>
  BY <1>1 DEF ToolInv
<1>2. CASE LoopStep
  <2>1. \A t \in Runs : LoopMoves(t)
    BY <1>2, LoopStepMoves
  <2> QED
    BY <2>1 DEF ToolInv, LoopMoves
<1>3. ASSUME NEW r \in Runs, ThreadStep(r) PROVE ToolInv'
  <2>1. run' = run /\ \A t \in Runs \ {r} : thread'[t] = thread[t]
    BY <1>0, <1>3, ThreadAlone
  <2>2. \/ Covers(r) \/ Adds(r) \/ Syncs(r) \/ Checks(r) \/ Refreshes(r)
        \/ \E n \in Notices : Writes(r, n) \/ Unlinks(r, n)
    BY <1>0, <1>3, ThreadShapes
  <2>3. /\ thread[r].pc # "idle"
        /\ thread'[r].pc \in {"ack", "write", "unlink"} => run[r].kind # "none"
        /\ thread'[r].pc \in {"write", "unlink"} => thread'[r].todo \subseteq run[r].episode
    <3>1. CASE Covers(r) \/ Adds(r) \/ Syncs(r) \/ Checks(r) \/ Refreshes(r)
      BY <3>1 DEF ToolInv, Covers, Adds, Syncs, Checks, Refreshes
    <3>2. ASSUME NEW n \in Notices, Writes(r, n) \/ Unlinks(r, n) PROVE <2>3!:
      BY <3>2 DEF ToolInv, Writes, Unlinks
    <3> QED
      BY <2>2, <3>1, <3>2
  <2> QED
    BY <2>1, <2>3 DEF ToolInv
<1>4. CASE Restart
  <2>1. \A t \in Runs : thread'[t] = IdleThread
    BY <1>4 DEF Restart
  <2>2. \A t \in Runs : run'[t] = run[t] \/ run'[t].pc = "dead"
    BY <1>0, <1>4, OverType DEF Restart
  <2> QED
    BY <2>1, <2>2 DEF ToolInv, IdleThread
<1> QED
  BY <1>1, <1>2, <1>3, <1>4 DEF Next, LoopStep, Post, PostRefreshes, vars

-----------------------------------------------------------------------------
(* The summary of the mailbox *)

\* Threads that hold the mailbox lock; there is one at most, and none while the hook
\* posts.
HoldsMailbox(t) == thread[t].pc \in {"write", "unlink", "listing", "summary"}

MailboxLock ==
  /\ \A t, u \in Runs : HoldsMailbox(t) /\ HoldsMailbox(u) => t = u
  /\ posting => \A t \in Runs : ~HoldsMailbox(t)

\* What the lock holder has listed is still what is pending when it writes the summary.
SummaryInv ==
  /\ MailboxLock
  /\ \A t \in Runs : thread[t].pc = "summary" => thread[t].todo = pending
  /\ SummaryFollows

LEMMA SummaryInit == Init => SummaryInv
BY DEF Init, SummaryInv, MailboxLock, HoldsMailbox, SummaryFollows, IdleThread

\* A step that leaves the mailbox and its lock alone.
LEMMA SummaryFrame ==
  ASSUME SummaryInv, UNCHANGED mailbox,
         \A t \in Runs : \/ thread'[t] = thread[t]
                         \/ ~HoldsMailbox(t) /\ ~HoldsMailbox(t)'
  PROVE  SummaryInv'
<1>1. \A t \in Runs : /\ HoldsMailbox(t)' <=> HoldsMailbox(t)
                      /\ HoldsMailbox(t) => thread'[t] = thread[t]
  BY DEF HoldsMailbox
<1>2. UNCHANGED <<pending, status, posting, torn>>
  BY DEF mailbox, summary
<1>3. MailboxLock'
  BY <1>1, <1>2 DEF SummaryInv, MailboxLock
<1>4. \A t \in Runs : thread'[t].pc = "summary" => thread'[t].todo = pending'
  BY <1>1, <1>2 DEF SummaryInv, HoldsMailbox
<1>5. SummaryFollows'
  BY <1>1, <1>2 DEF SummaryInv, SummaryFollows, HoldsMailbox
<1> QED
  BY <1>3, <1>4, <1>5 DEF SummaryInv

LEMMA SummaryStep ==
  ASSUME ClaimInv, ToolInv, SummaryInv, [Next]_vars
  PROVE  SummaryInv'
<1>0. TypeOK
  BY DEF ClaimInv
<1>1. CASE UNCHANGED vars
  BY <1>1, SummaryFrame DEF vars
<1>2. ASSUME NEW n \in Notices, Post(n) PROVE SummaryInv'
  BY <1>2 DEF Post, Unlocked, SummaryInv, MailboxLock, HoldsMailbox, SummaryFollows
<1>3. CASE PostRefreshes
  BY <1>3 DEF PostRefreshes, SummaryInv, MailboxLock, HoldsMailbox, SummaryFollows
<1>4. CASE LoopStep
  <2>1. UNCHANGED mailbox /\ \A t \in Runs : LoopMoves(t)
    BY <1>4, LoopStepMoves
  <2>2. \A t \in Runs : thread'[t] = thread[t] \/ (~HoldsMailbox(t) /\ ~HoldsMailbox(t)')
    BY <2>1 DEF LoopMoves, LockFree, HoldsMailbox
  <2> QED
    BY <2>1, <2>2, SummaryFrame
<1>5. ASSUME NEW r \in Runs, ThreadStep(r) PROVE SummaryInv'
  <2>1. UNCHANGED posting /\ \A t \in Runs \ {r} : thread'[t] = thread[t]
    BY <1>0, <1>5, ThreadAlone
  <2>2. CASE Covers(r) \/ Adds(r) \/ Syncs(r)
    <3>1. UNCHANGED mailbox /\ ~HoldsMailbox(r) /\ ~HoldsMailbox(r)'
      BY <2>2 DEF Covers, Adds, Syncs, HoldsMailbox
    <3> QED
      BY <2>1, <3>1, SummaryFrame
  <2>3. CASE Checks(r)
    <3>1. CASE thread'[r].pc \in {"idle", "refused"}
      <4>1. UNCHANGED mailbox /\ ~HoldsMailbox(r) /\ ~HoldsMailbox(r)'
        BY <2>3, <3>1 DEF Checks, HoldsMailbox
      <4> QED
        BY <2>1, <4>1, SummaryFrame
    <3>2. CASE thread'[r].pc = "write"
      <4>1. ~posting' /\ \A t \in Runs \ {r} : ~HoldsMailbox(t)'
        BY <2>1, <2>3, <3>2 DEF Checks, Unlocked, HoldsMailbox
      <4> QED
        BY <3>2, <4>1 DEF SummaryInv, MailboxLock, SummaryFollows, HoldsMailbox
    <3> QED
      BY <2>3, <3>1, <3>2 DEF Checks
  <2>4. ASSUME HoldsMailbox(r), thread'[r].pc \in {"write", "unlink", "listing"}
        PROVE  SummaryInv'
    <3>1. ~posting' /\ \A t \in Runs \ {r} : ~HoldsMailbox(t)'
      BY <2>1, <2>4 DEF SummaryInv, MailboxLock, HoldsMailbox
    <3> QED
      BY <2>4, <3>1 DEF SummaryInv, MailboxLock, SummaryFollows, HoldsMailbox
  <2>5. ASSUME NEW n \in Notices, Writes(r, n) \/ Unlinks(r, n) PROVE SummaryInv'
    BY <2>4, <2>5 DEF Writes, Unlinks, HoldsMailbox
  <2>6. CASE Refreshes(r)
    <3>1. ~posting' /\ \A t \in Runs \ {r} : ~HoldsMailbox(t)'
      BY <2>1, <2>6 DEF Refreshes, SummaryInv, MailboxLock, HoldsMailbox
    <3>2. CASE thread[r].pc = "listing"
      BY <2>6, <3>1, <3>2 DEF Refreshes, SummaryInv, MailboxLock, SummaryFollows, HoldsMailbox
    <3>3. CASE thread[r].pc = "summary"
      BY <2>6, <3>1, <3>3 DEF Refreshes, SummaryInv, MailboxLock, SummaryFollows, HoldsMailbox
    <3> QED
      BY <2>6, <3>2, <3>3 DEF Refreshes
  <2> QED
    BY <1>0, <1>5, <2>2, <2>3, <2>5, <2>6, ThreadShapes
<1>6. CASE Restart
  BY <1>6 DEF Restart, Unlocked, SummaryInv, MailboxLock, SummaryFollows, HoldsMailbox,
     IdleThread
<1> QED
  BY <1>1, <1>2, <1>3, <1>4, <1>5, <1>6 DEF Next, LoopStep

-----------------------------------------------------------------------------
(* The guide *)

\* Threads that hold the rules lock.
HoldsRules(t) == thread[t].pc \in {"root", "scope"}

\* The one thread that renders the guide renders the log as it still is.
GuideInv ==
  /\ \A t, u \in Runs : HoldsRules(t) /\ HoldsRules(u) => t = u
  /\ \A t \in Runs :
       /\ HoldsRules(t) => thread[t].live = rules
       /\ thread[t].pc = "scope" => shown.root = rules
  /\ GuideFollows

LEMMA GuideInit == Init => GuideInv
BY DEF Init, GuideInv, HoldsRules, GuideFollows, IdleThread, Rendered

\* A step that leaves the rules and their lock alone.
LEMMA GuideFrame ==
  ASSUME GuideInv, UNCHANGED store,
         \A t \in Runs : thread'[t] = thread[t] \/ (~HoldsRules(t) /\ ~HoldsRules(t)')
  PROVE  GuideInv'
<1>1. \A t \in Runs : /\ HoldsRules(t)' <=> HoldsRules(t)
                      /\ HoldsRules(t) => thread'[t] = thread[t]
  BY DEF HoldsRules
<1> QED
  BY <1>1 DEF GuideInv, GuideFollows, HoldsRules, store

LEMMA GuideStep ==
  ASSUME ClaimInv, ToolInv, GuideInv, [Next]_vars
  PROVE  GuideInv'
<1>0. TypeOK
  BY DEF ClaimInv
<1>1. CASE UNCHANGED <<store, thread>>
  BY <1>1, GuideFrame
<1>2. CASE LoopStep
  <2>1. UNCHANGED store /\ \A t \in Runs : LoopMoves(t)
    BY <1>2, LoopStepMoves
  <2>2. \A t \in Runs : thread'[t] = thread[t] \/ (~HoldsRules(t) /\ ~HoldsRules(t)')
    BY <2>1 DEF LoopMoves, LockFree, HoldsRules
  <2> QED
    BY <2>1, <2>2, GuideFrame
<1>3. ASSUME NEW r \in Runs, ThreadStep(r) PROVE GuideInv'
  <2>1. \A t \in Runs \ {r} : thread'[t] = thread[t]
    BY <1>0, <1>3, ThreadAlone
  <2>2. ASSUME UNCHANGED store, ~HoldsRules(r), ~HoldsRules(r)' PROVE GuideInv'
    BY <2>1, <2>2, GuideFrame
  <2>3. CASE Covers(r) \/ Checks(r) \/ Refreshes(r)
    BY <2>2, <2>3 DEF Covers, Checks, Refreshes, HoldsRules
  <2>4. ASSUME NEW n \in Notices, Writes(r, n) \/ Unlinks(r, n) PROVE GuideInv'
    BY <2>2, <2>4 DEF Writes, Unlinks, HoldsRules
  <2>5. CASE Adds(r)
    <3>1. CASE thread'[r].pc \in {"idle", "covered"}
      BY <2>2, <2>5, <3>1 DEF Adds, HoldsRules, store
    <3>2. CASE thread'[r].pc = "root"
      <4>1. \A t \in Runs \ {r} : ~HoldsRules(t)'
        BY <2>1, <2>5 DEF Adds, RulesUnlocked, HoldsRules
      <4> QED
        BY <2>5, <3>2, <4>1 DEF Adds, GuideInv, GuideFollows, HoldsRules
    <3> QED
      BY <2>5, <3>1, <3>2 DEF Adds
  <2>6. CASE Syncs(r)
    <3>1. /\ \A t \in Runs \ {r} : ~HoldsRules(t)'
          /\ thread[r].live = rules
      BY <2>1, <2>6 DEF Syncs, GuideInv, HoldsRules
    <3>2. CASE thread[r].pc = "root"
      BY <2>6, <3>1, <3>2 DEF Syncs, GuideInv, GuideFollows, HoldsRules
    <3>3. CASE thread[r].pc = "scope"
      BY <2>6, <3>1, <3>3 DEF Syncs, GuideInv, GuideFollows, HoldsRules
    <3> QED
      BY <2>6, <3>2, <3>3 DEF Syncs
  <2> QED
    BY <1>0, <1>3, <2>3, <2>4, <2>5, <2>6, ThreadShapes
<1>4. CASE Restart
  BY <1>4 DEF Restart, GuideInv, GuideFollows, HoldsRules, IdleThread, Rendered
<1> QED
  BY <1>1, <1>2, <1>3, <1>4 DEF Next, LoopStep, Post, PostRefreshes, vars

-----------------------------------------------------------------------------
(* Notices *)

\* The notices E were posted: none of them has vanished.
Posted(E) == \A n \in E : n \in pending \/ processed[n] # "none"

\* The notices E are resolved, and no longer pending.
Resolved(E) == \A n \in E : n \notin pending /\ processed[n] # "none"

\* What a thread has done to the notices of its run: it writes every resolution, then
\* takes every notice from pending/.
Acknowledged(t) ==
  /\ thread[t].pc = "write" =>
       \A n \in run[t].episode \ thread[t].todo : processed[n] # "none"
  /\ thread[t].pc = "unlink" =>
       /\ \A n \in run[t].episode : processed[n] # "none"
       /\ Resolved(run[t].episode \ thread[t].todo)
  /\ thread[t].pc \in {"listing", "summary", "acked"} \/ run[t].resolved =>
       Resolved(run[t].episode)

NoticeInv ==
  /\ \A c \in Settlers : Posted(settler[c].episode)
  /\ \A t \in Runs : Posted(run[t].episode) /\ Acknowledged(t)
  /\ \A e \in results : Resolved(e)

LEMMA NoticeInit == Init => NoticeInv
BY DEF Init, NoticeInv, Posted, Resolved, Acknowledged, UnusedRun, IdleThread, Outside

\* A step that keeps the files keeps what is posted and what is resolved.
LEMMA FilesKept ==
  ASSUME UNCHANGED <<pending, processed>>, NEW E
  PROVE  (Posted(E)' <=> Posted(E)) /\ (Resolved(E)' <=> Resolved(E))
BY DEF Posted, Resolved

\* Where the event loop takes episodes and results from.
LEMMA LoopEpisodes ==
  ASSUME ClaimInv, LoopStep
  PROVE  /\ \A c \in Settlers : \/ settler'[c].episode \subseteq settler[c].episode
                                \/ settler'[c].episode \subseteq pending
         /\ \A e \in results' : \/ e \in results
                                \/ \E t \in Runs : run[t].resolved /\ e = run[t].episode
<1>0. /\ TypeOK /\ settler \in [Settlers -> SettlerState] /\ run \in [Runs -> RunState]
  BY DEF ClaimInv, TypeOK
<1>1. ASSUME NEW c \in Settlers, NEW s, settler' = [settler EXCEPT ![c] = s],
             s.episode \subseteq settler[c].episode \/ s.episode \subseteq pending
      PROVE  \A d \in Settlers : \/ settler'[d].episode \subseteq settler[d].episode
                                 \/ settler'[d].episode \subseteq pending
  BY <1>0, <1>1
<1>2. ASSUME NEW c \in Settlers, Settle(c) \/ SettlerStep(c) \/ CallerCancelled(c)
      PROVE  UNCHANGED results
  BY <1>2 DEF Settle, SettlerStep, CallerCancelled, ReadPending, Follow, Claim, Timeout,
     FollowTimeout, coordinator
<1>3. ASSUME NEW c \in Settlers, Settle(c) \/ SettlerStep(c) \/ CallerCancelled(c)
      PROVE  \A d \in Settlers : \/ settler'[d].episode \subseteq settler[d].episode
                                 \/ settler'[d].episode \subseteq pending
  <2>0. settler[c] \in SettlerState
    BY <1>0
  <2>1. CASE Settle(c)
    <3>1. [Outside EXCEPT !.pc = "reading"].episode = {}
      BY DEF Outside
    <3> QED
      BY <1>1, <2>1, <3>1 DEF Settle
  <2>2. CASE ReadPending(c)
    <3> DEFINE s == [settler[c] EXCEPT !.pc = "claiming", !.episode = Episode(pending)]
    <3>1. s.episode = Episode(pending)
      BY <2>0 DEF SettlerState
    <3>2. settler' = [settler EXCEPT ![c] = s]
      BY <1>0, <2>2 DEF ReadPending
    <3>3. Episode(pending) \subseteq pending
      BY EpisodeIsPending
    <3> HIDE DEF s
    <3> QED
      BY <1>1, <3>1, <3>2, <3>3
  <2>3. CASE Follow(c)
    <3>1. latest \in SUBSET Notices
      BY <1>0 DEF TypeOK
    <3>2. \/ settler' = [settler EXCEPT ![c] = Returned(c, "success")]
          \/ settler' = [settler EXCEPT ![c] = Returned(c, "none")]
          \/ /\ tasks[latest] # NoRun
             /\ settler' = [settler EXCEPT ![c] = Attached(c, tasks[latest], "following")]
      BY <2>3 DEF Follow
    <3> QED
      BY <1>0, <1>1, <3>1, <3>2, ReturnedType, AttachedType
  <2>4. CASE Claim(c)
    <3> DEFINE e == settler[c].episode
               t == CHOOSE u \in Runs : run[u].pc = "unused"
               s == [settler[c] EXCEPT !.pc = "waiting", !.run = t]
    <3>1. e \in SUBSET Notices
      BY <2>0 DEF SettlerState
    <3>2. \/ settler' = [settler EXCEPT ![c] = Returned(c, "success")]
          \/ /\ tasks[e] # NoRun
             /\ settler' = [settler EXCEPT ![c] = Attached(c, tasks[e], "waiting")]
          \/ settler' = [settler EXCEPT ![c].pc = "waiting", ![c].run = t]
      BY <2>4 DEF Claim
    <3>3. CASE settler' = [settler EXCEPT ![c].pc = "waiting", ![c].run = t]
      <4> HIDE DEF t
      <4>1. settler' = [settler EXCEPT ![c] = s] /\ s.episode = settler[c].episode
        BY <1>0, <2>0, <3>3 DEF SettlerState
      <4> HIDE DEF s
      <4> QED
        BY <1>1, <4>1
    <3> HIDE DEF t, s
    <3> QED
      BY <1>0, <1>1, <3>1, <3>2, <3>3, ReturnedType, AttachedType
  <2>5. CASE Timeout(c)
    <3> DEFINE s == [settler[c] EXCEPT !.pc = "joining"]
    <3>1. settler' = [settler EXCEPT ![c] = s] /\ s.episode = settler[c].episode
      BY <1>0, <2>0, <2>5 DEF Timeout, SettlerState
    <3> HIDE DEF s
    <3> QED
      BY <1>1, <3>1
  <2>6. CASE FollowTimeout(c)
    BY <1>0, <1>1, <2>6, ReturnedType DEF FollowTimeout
  <2>7. CASE CallerCancelled(c)
    BY <1>1, <2>7 DEF CallerCancelled, Outside
  <2> QED
    BY <1>3, <2>1, <2>2, <2>3, <2>4, <2>5, <2>6, <2>7 DEF SettlerStep
<1>4. ASSUME NEW t \in Runs,
             \/ CallAdd(t) \/ ToolReturns(t)
             \/ \E kind \in {"candidate", "other"} : CallAck(t, kind)
      PROVE  UNCHANGED <<settler, results>>
  BY <1>4 DEF CallAdd, ToolReturns, CallAck, coordinator
<1>5. ASSUME NEW t \in Runs, NEW outcome \in {"success", "failed", "cancelled", "raised"},
             RunEnds(t, outcome)
      PROVE  /\ \A c \in Settlers : settler'[c].episode \subseteq settler[c].episode
             /\ \A e \in results' : e \in results \/ (run[t].resolved /\ e = run[t].episode)
  <2>1. settler' = [c \in Settlers |->
         IF settler[c].run # t THEN settler[c]
         ELSE IF settler[c].pc = "joining" /\ outcome # "raised" THEN Returned(c, "timed_out")
         ELSE Returned(c, outcome)]
    BY <1>5 DEF RunEnds
  <2>2. /\ outcome \in Ends(t)
        /\ results' = IF outcome = "success" THEN results \cup {run[t].episode} ELSE results
    BY <1>5 DEF RunEnds
  <2>3. outcome = "success" => run[t].resolved
    BY <2>2 DEF Ends, Outcomes, MayCall
  <2> QED
    BY <1>0, <2>1, <2>2, <2>3, ReturnedType
<1> QED
  BY <1>2, <1>3, <1>4, <1>5 DEF LoopStep

LEMMA NoticeStep ==
  ASSUME ClaimInv, ToolInv, NoticeInv, [Next]_vars
  PROVE  NoticeInv'
<1>0. /\ TypeOK /\ pending \in SUBSET Notices
      /\ \A t \in Runs : run[t].episode \in SUBSET Notices
  BY DEF ClaimInv, TypeOK, RunState
<1>1. CASE UNCHANGED <<pending, processed, run, thread, settler, results>>
  BY <1>1 DEF NoticeInv, Acknowledged, Posted, Resolved
<1>2. ASSUME NEW n \in Notices, Post(n) PROVE NoticeInv'
  <2>1. n \notin pending /\ processed[n] = "none"
    BY <1>2, NoticesAreNumbered DEF Post
  <2>2. pending' = pending \cup {n} /\ UNCHANGED <<processed, run, thread, settler, results>>
    BY <1>2 DEF Post, coordinator
  <2>3. \A E : Posted(E) => Posted(E)'
    BY <2>2 DEF Posted
  <2>4. \A E : Resolved(E) => Resolved(E)'
    BY <2>1, <2>2 DEF Resolved
  <2>5. \A c \in Settlers : Posted(settler[c].episode)'
    BY <2>2, <2>3 DEF NoticeInv
  <2>6. ASSUME NEW t \in Runs PROVE Posted(run[t].episode)' /\ Acknowledged(t)'
    <3>1. Posted(run[t].episode)' /\ Acknowledged(t)
      BY <2>2, <2>3 DEF NoticeInv
    <3>2. Acknowledged(t)'
      BY <2>2, <2>4, <3>1 DEF Acknowledged
    <3> QED
      BY <3>1, <3>2
  <2>7. \A e \in results : Resolved(e)'
    BY <2>4 DEF NoticeInv
  <2> QED
    BY <2>2, <2>5, <2>6, <2>7 DEF NoticeInv
<1>3. CASE LoopStep
  <2>1. UNCHANGED <<pending, processed>> /\ \A t \in Runs : LoopMoves(t)
    BY <1>3, LoopStepMoves DEF mailbox
  <2>2. \A c \in Settlers : Posted(settler[c].episode)'
    BY <1>3, <2>1, LoopEpisodes DEF NoticeInv, Posted
  <2>3. ASSUME NEW t \in Runs PROVE Posted(run[t].episode)' /\ Acknowledged(t)'
    <3>1. LoopMoves(t) /\ Acknowledged(t) /\ Posted(run[t].episode)
      BY <2>1 DEF NoticeInv
    <3>2. Posted(run[t].episode)'
      BY <2>1, <3>1 DEF LoopMoves, NoticeInv, Posted
    <3>3. CASE run'[t].episode = run[t].episode
      BY <2>1, <3>1, <3>2, <3>3 DEF LoopMoves, Acknowledged, Resolved
    <3>4. CASE ~run'[t].resolved /\ thread'[t].pc = "idle"
      BY <3>2, <3>4 DEF Acknowledged
    <3> QED
      BY <3>1, <3>2, <3>3, <3>4 DEF LoopMoves
  <2>4. ASSUME NEW e \in results' PROVE Resolved(e)'
    <3>1. CASE e \in results
      BY <2>1, <3>1 DEF NoticeInv, Resolved
    <3>2. ASSUME NEW t \in Runs, run[t].resolved, e = run[t].episode PROVE Resolved(e)'
      BY <2>1, <3>2 DEF NoticeInv, Acknowledged, Resolved
    <3> QED
      BY <1>3, <3>1, <3>2, LoopEpisodes
  <2> QED
    BY <2>2, <2>3, <2>4 DEF NoticeInv
<1>4. ASSUME NEW r \in Runs, ThreadStep(r) PROVE NoticeInv'
  <2>1. /\ UNCHANGED <<run, settler, results>>
        /\ \A t \in Runs \ {r} : thread'[t] = thread[t]
    BY <1>0, <1>4, ThreadAlone DEF coordinator
  <2>2. ASSUME \A E \in SUBSET Notices : Posted(E) => Posted(E)',
               \A E \in SUBSET Notices : Resolved(E) => Resolved(E)',
               \A n \in Notices : processed[n] # "none" => processed'[n] # "none",
               Acknowledged(r)'
        PROVE  NoticeInv'
    <3>1. \A c \in Settlers : Posted(settler[c].episode)'
      <4>1. \A c \in Settlers : settler[c].episode \in SUBSET Notices
        BY <1>0 DEF TypeOK, SettlerState
      <4> QED
        BY <2>1, <2>2, <4>1 DEF NoticeInv
    <3>2. ASSUME NEW t \in Runs PROVE Posted(run[t].episode)' /\ Acknowledged(t)'
      <4>1. Posted(run[t].episode)'
        BY <1>0, <2>1, <2>2 DEF NoticeInv
      <4>2. CASE t # r
        BY <1>0, <2>1, <2>2, <4>2 DEF NoticeInv, Acknowledged
      <4> QED
        BY <2>2, <4>1, <4>2
    <3>3. \A e \in results : Resolved(e)'
      BY <1>0, <2>2 DEF NoticeInv, TypeOK
    <3> QED
      BY <2>1, <3>1, <3>2, <3>3 DEF NoticeInv
  <2>3. CASE UNCHANGED <<pending, processed>> /\ Acknowledged(r)'
    BY <2>2, <2>3, FilesKept
  <2>4. CASE Covers(r) \/ Adds(r) \/ Syncs(r) \/ Checks(r) \/ Refreshes(r)
    <3>1. UNCHANGED <<pending, processed>>
      BY <2>4 DEF Covers, Adds, Syncs, Checks, Refreshes, mailbox
    <3>2. Acknowledged(r)
      BY DEF NoticeInv
    <3>3. Acknowledged(r)'
      BY <2>1, <2>4, <3>1, <3>2 DEF Acknowledged, Resolved, Covers, Adds, Syncs, Checks,
         Refreshes
    <3> QED
      BY <2>3, <3>1, <3>3
  <2>5. ASSUME NEW n \in Notices, Writes(r, n) PROVE NoticeInv'
    <3>1. /\ pending' = pending /\ processed'[n] # "none"
          /\ \A m \in Notices \ {n} : processed'[m] = processed[m]
      BY <2>5 DEF Writes, ToolInv
    <3>2. /\ processed \in [Notices -> {"none", "candidate", "other"}]
          /\ n \in run[r].episode /\ run[r].episode \subseteq Notices
      BY <1>0, <2>5 DEF TypeOK, Writes, ToolInv
    <3>3. TypeOK'
      BY ClaimStep DEF ClaimInv
    <3>4. \A m \in Notices : processed[m] # "none" => processed'[m] # "none"
      BY <3>1, <3>2, <3>3 DEF TypeOK
    <3>5. Acknowledged(r)'
      BY <2>1, <2>5, <3>1, <3>2 DEF NoticeInv, Acknowledged, Resolved, Writes
    <3>6. /\ \A E \in SUBSET Notices : Posted(E) => Posted(E)'
          /\ \A E \in SUBSET Notices : Resolved(E) => Resolved(E)'
      BY <3>1, <3>4 DEF Posted, Resolved
    <3> QED
      BY <2>2, <3>4, <3>5, <3>6
  <2>6. ASSUME NEW n \in Notices, Unlinks(r, n) PROVE NoticeInv'
    <3>1. pending' = pending \ {n} /\ processed' = processed
      BY <2>6 DEF Unlinks
    <3>2. processed[n] # "none" /\ \A m \in run[r].episode : processed[m] # "none"
      BY <2>6 DEF Unlinks, NoticeInv, Acknowledged, ToolInv
    <3>3. /\ \A E \in SUBSET Notices : Posted(E) => Posted(E)'
          /\ \A E \in SUBSET Notices : Resolved(E) => Resolved(E)'
      BY <3>1, <3>2 DEF Posted, Resolved
    <3>4. Acknowledged(r)'
      BY <2>1, <2>6, <3>1, <3>2 DEF NoticeInv, Acknowledged, Resolved, Unlinks
    <3> QED
      BY <2>2, <3>1, <3>3, <3>4
  <2> QED
    BY <1>0, <1>4, <2>4, <2>5, <2>6, ThreadShapes
<1>5. CASE Restart
  <2>1. /\ UNCHANGED <<pending, processed>> /\ results' = {}
        /\ settler' = [c \in Settlers |-> Outside] /\ thread' = [t \in Runs |-> IdleThread]
    BY <1>5 DEF Restart
  <2>2. \A t \in Runs : /\ run'[t].episode = run[t].episode
                        /\ run'[t].resolved => run[t].resolved
    BY <1>0, <1>5, OverType DEF Restart
  <2> QED
    BY <2>1, <2>2 DEF NoticeInv, Acknowledged, Posted, Resolved, Outside, IdleThread
<1> QED
  BY <1>1, <1>2, <1>3, <1>4, <1>5 DEF Next, LoopStep, PostRefreshes, vars, mailbox, coordinator

-----------------------------------------------------------------------------
(* Candidates *)

\* Whoever believes in a candidate of run t finds it in the log.
CandidateInv ==
  /\ \A t \in Runs :
       \/ run[t].candidate \/ run[t].kind = "candidate"
       \/ thread[t].pc \in {"root", "scope", "added"}
       => t \in rules
  /\ CandidateExists

LEMMA CandidateInit == Init => CandidateInv
BY DEF Init, CandidateInv, CandidateExists, UnusedRun, IdleThread

LEMMA CandidateStep ==
  ASSUME ClaimInv, ToolInv, CandidateInv, [Next]_vars
  PROVE  CandidateInv'
<1>0. TypeOK /\ rules \in SUBSET Runs
  BY DEF ClaimInv, TypeOK
<1>1. CASE UNCHANGED <<processed, rules, run, thread>>
  BY <1>1 DEF CandidateInv, CandidateExists
<1>2. CASE LoopStep
  <2>1. UNCHANGED <<processed, rules>> /\ \A t \in Runs : LoopMoves(t)
    BY <1>2, LoopStepMoves DEF mailbox, store
  <2>2. ASSUME NEW t \in Runs,
               \/ run'[t].candidate \/ run'[t].kind = "candidate"
               \/ thread'[t].pc \in {"root", "scope", "added"}
        PROVE  t \in rules'
    BY <2>1, <2>2 DEF CandidateInv, LoopMoves
  <2>3. CandidateExists'
    BY <1>0, <2>1 DEF CandidateInv, CandidateExists, LoopMoves
  <2> QED
    BY <2>2, <2>3 DEF CandidateInv
<1>3. ASSUME NEW r \in Runs, ThreadStep(r) PROVE CandidateInv'
  <2>1. run' = run /\ \A t \in Runs \ {r} : thread'[t] = thread[t]
    BY <1>0, <1>3, ThreadAlone
  <2>2. CASE Covers(r) \/ Adds(r) \/ Syncs(r) \/ Checks(r) \/ Refreshes(r)
    <3>1. UNCHANGED processed /\ rules \subseteq rules'
      BY <2>2 DEF Covers, Adds, Syncs, Checks, Refreshes, mailbox, store
    <3>2. thread'[r].pc \in {"root", "scope", "added"} => r \in rules'
      BY <2>2 DEF Covers, Adds, Syncs, Checks, Refreshes, CandidateInv
    <3> QED
      BY <2>1, <3>1, <3>2 DEF CandidateInv, CandidateExists
  <2>3. ASSUME NEW n \in Notices, Writes(r, n) PROVE CandidateInv'
    <3>1. /\ rules' = rules /\ processed'[n] = run[r].kind
          /\ \A m \in Notices \ {n} : processed'[m] = processed[m]
          /\ thread'[r].pc \in {"write", "unlink"}
      BY <2>3 DEF Writes, store
    <3>2. n \in run[r].episode
      BY <2>3 DEF Writes, ToolInv
    <3> QED
      BY <2>1, <3>1, <3>2 DEF CandidateInv, CandidateExists
  <2>4. ASSUME NEW n \in Notices, Unlinks(r, n) PROVE CandidateInv'
    BY <2>1, <2>4 DEF Unlinks, store, CandidateInv, CandidateExists
  <2> QED
    BY <1>0, <1>3, <2>2, <2>3, <2>4, ThreadShapes
<1>4. CASE Restart
  <2>1. UNCHANGED <<processed, rules>> /\ thread' = [t \in Runs |-> IdleThread]
    BY <1>4 DEF Restart
  <2>2. \A t \in Runs : /\ run'[t].episode = run[t].episode /\ run'[t].kind = run[t].kind
                        /\ run'[t].candidate => run[t].candidate
    BY <1>0, <1>4, OverType DEF Restart
  <2> QED
    BY <1>0, <2>1, <2>2 DEF CandidateInv, CandidateExists, IdleThread
<1> QED
  BY <1>1, <1>2, <1>3, <1>4 DEF Next, LoopStep, Post, PostRefreshes, vars, mailbox, store

-----------------------------------------------------------------------------
(* Theorems *)

RepairInv == ClaimInv /\ ToolInv /\ SummaryInv /\ GuideInv /\ NoticeInv /\ CandidateInv

THEOREM RepairInvariant == Spec => []RepairInv
<1>1. Init => RepairInv
  BY ClaimInit, ToolInit, SummaryInit, GuideInit, NoticeInit, CandidateInit DEF RepairInv
<1>2. RepairInv /\ [Next]_vars => RepairInv'
  BY ClaimStep, ToolStep, SummaryStep, GuideStep, NoticeStep, CandidateStep DEF RepairInv
<1> QED
  BY <1>1, <1>2, PTL DEF Spec

\* workspace/mailbox.py, acknowledge_many() and _refresh_status(): whenever nobody
\* holds the lock status.json counts what is pending, unless the process died between
\* the files and the summary.  The lock is what makes the listing still true when it
\* is written.
THEOREM SummaryIsCurrent == Spec => []SummaryFollows
<1>1. RepairInv => SummaryFollows
  BY DEF RepairInv, SummaryInv
<1> QED
  BY <1>1, RepairInvariant, PTL

\* workspace/rules.py, add_with_result() and _sync_markdown_locked(): once no thread
\* renders it, the guide shows the log in both its files, however late the thread of a
\* run that was given up came to render.
THEOREM GuideIsCurrent == Spec => []GuideFollows
<1>1. RepairInv => GuideFollows
  BY DEF RepairInv, GuideInv
<1> QED
  BY <1>1, RepairInvariant, PTL

\* workspace/mailbox.py, acknowledge_many(): no notice of an episode vanishes, whenever
\* the run is cancelled, times out or dies with the process.
THEOREM NoticesAreRecoverable == Spec => []NoticeRecoverable
<1>1. RepairInv => NoticeRecoverable
  BY DEF RepairInv, NoticeInv, NoticeRecoverable, Posted
<1> QED
  BY <1>1, RepairInvariant, PTL

\* repair/coordinator.py, _capture_result(): a result is cached only for an episode
\* whose notices are all resolved, and they stay so for every later caller.
THEOREM CachedResultsAreFinal == Spec => []CachedMeansResolved
<1>1. RepairInv => CachedMeansResolved
  BY DEF RepairInv, NoticeInv, CachedMeansResolved, Resolved
<1> QED
  BY <1>1, RepairInvariant, PTL

\* agent_tools/toolset.py, notice_ack: a notice resolved with a candidate was in the
\* episode of a run whose candidate is in the log.
THEOREM CandidatesExist == Spec => []CandidateExists
<1>1. RepairInv => CandidateExists
  BY DEF RepairInv, CandidateInv
<1> QED
  BY <1>1, RepairInvariant, PTL
=============================================================================
