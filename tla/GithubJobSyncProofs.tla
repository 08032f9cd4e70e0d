------------------------ MODULE GithubJobSyncProofs ------------------------
(***************************************************************************)
(* What TLAPS proves of GithubJobSync for every number of runs, versions   *)
(* and pages, every job budget and any number of failures.                 *)
(***************************************************************************)
EXTENDS GithubJobSync, FiniteSetTheorems, TLAPS

-----------------------------------------------------------------------------
(***************************************************************************)
(* The newest run of a nonempty set exists and is one of them.             *)
(***************************************************************************)
Later(S, r) == {s \in S : s > r}

\* Newest, the head of both work queues, is well defined.
LEMMA NewestIn ==
  ASSUME NEW N \in Nat, NEW S \in SUBSET (1..N), S # {}
  PROVE  Newest(S) \in S /\ \A s \in S : s <= Newest(S)
<1> DEFINE T == {Later(S, r) : r \in S}
<1>1. S \subseteq Int
  OBVIOUS
<1>2. IsFiniteSet(S)
  <2>1. IsFiniteSet(1..N)
    BY FS_Interval, 1 \in Int, N \in Int
  <2> QED BY <2>1, FS_Subset
<1>3. T \subseteq FiniteSubsetsOf(S) /\ T # {}
  <2>1. ASSUME NEW r \in S PROVE Later(S, r) \in FiniteSubsetsOf(S)
    <3>1. Later(S, r) \in SUBSET S
      BY DEF Later
    <3> QED BY <3>1, <1>2, FS_Subset DEF FiniteSubsetsOf
  <2> QED BY <2>1
<1>4. \E x \in T : \A y \in T : ~(<<y, x>> \in StrictSubsetOrdering(S))
  <2> HIDE DEF T
  <2> QED BY <1>3, FS_StrictSubsetOrderingWellFounded, WFMin
<1>5. PICK r \in S : \A s \in S :
        ~(<<Later(S, s), Later(S, r)>> \in StrictSubsetOrdering(S))
  BY <1>4
<1>6. ASSUME NEW s \in S, s > r PROVE FALSE
  <2>1. s \in Int /\ r \in Int
    BY <1>1
  <2>2. Later(S, s) \subseteq Later(S, r)
    <3>1. ASSUME NEW t \in S, t > s PROVE t > r
      BY <1>6, <2>1, <1>1, <3>1
    <3> QED BY <3>1 DEF Later
  <2>3. s \in Later(S, r)
    BY <1>6 DEF Later
  <2>4. s \notin Later(S, s)
    BY <2>1 DEF Later
  <2>5. <<Later(S, s), Later(S, r)>> \in StrictSubsetOrdering(S)
    BY <2>2, <2>3, <2>4 DEF StrictSubsetOrdering, Later
  <2> QED BY <2>5, <1>5
<1>7. \A s \in S : s <= r
  BY <1>1, <1>6
<1> QED BY <1>7 DEF Newest

LEMMA NewestRun ==
  ASSUME NEW S \in SUBSET Runs, S # {}
  PROVE  Newest(S) \in Runs /\ Newest(S) \in 0..NumRuns /\ Newest(S) \in S
<1>1. NumRuns \in Nat
  BY ConstantsAssumption
<1>2. Newest(S) \in S
  BY <1>1, NewestIn DEF Runs
<1>3. Newest(S) \in Runs
  BY <1>2
<1>4. \A r \in Runs : r \in 0..NumRuns
  BY <1>1 DEF Runs
<1> QED BY <1>2, <1>3, <1>4

-----------------------------------------------------------------------------
(***************************************************************************)
(* Types.                                                                  *)
(***************************************************************************)
LocalTypes ==
  /\ pc \in [Workers -> Steps]
  /\ page \in [Workers -> Listing] /\ fresh \in [Workers -> BOOLEAN]
  /\ run \in [Workers -> 0..NumRuns] /\ key \in [Workers -> Versions]
  /\ answer \in [Workers -> Versions]
  /\ todo \in SUBSET Runs /\ budget \in 0..JobBudget

LEMMA ZeroTypes == NoRuns \in Listing /\ 0 \in Versions /\ 0 \in 0..NumRuns
                   /\ JobBudget \in 0..JobBudget /\ 1 \in Pages
BY ConstantsAssumption DEF NoRuns, Listing, Versions, Pages

LEMMA PageTypes ==
  ASSUME version \in Listing, NEW p
  PROVE  RunsPage(p) \in Listing
BY ZeroTypes DEF RunsPage, Listing

LEMMA ReturnTypes ==
  ASSUME LocalTypes, NEW w \in Workers, Return(w)
  PROVE  LocalTypes'
BY ZeroTypes DEF LocalTypes, Return, Goto, Steps

LEMMA ForgetTypes ==
  ASSUME LocalTypes, NEW w \in Workers, ForgetPage(w), Goto(w, "progress")
  PROVE  LocalTypes'
BY ZeroTypes DEF LocalTypes, ForgetPage, Goto, Steps

LEMMA GotoTypes ==
  ASSUME LocalTypes, NEW w \in Workers, NEW l \in Steps, Goto(w, l),
         UNCHANGED <<page, fresh, run, key, answer, todo, budget>>
  PROVE  LocalTypes'
BY DEF LocalTypes, Goto

LEMMA NextRunTypes ==
  ASSUME LocalTypes, NEW w \in Workers, NextRun(w)
  PROVE  LocalTypes'
<1>1. CASE w = "poller"
  BY <1>1, ZeroTypes DEF LocalTypes, NextRun, Goto, Steps
<1>2. CASE w # "poller"
  BY <1>2, ReturnTypes DEF NextRun
<1> QED BY <1>1, <1>2

LEMMA AdvanceTypes ==
  ASSUME saving \in Progress, NEW w
  PROVE  Advance(w) \in Progress
BY ConstantsAssumption DEF Advance, Further, Progress, Pages

LEMMA AbandonTypes ==
  ASSUME LocalTypes, NEW w \in Workers, saving \in Progress, AbandonPage(w)
  PROVE  LocalTypes' /\ saving' \in Progress
BY ReturnTypes, ForgetTypes DEF AbandonPage

LEMMA PageDoneTypes ==
  ASSUME LocalTypes, NEW w \in Workers, saving \in Progress, PageDone(w)
  PROVE  LocalTypes' /\ saving' \in Progress
<1>1. "select" \in Steps /\ "progress" \in Steps
  BY DEF Steps
<1> QED BY <1>1, ReturnTypes, GotoTypes, ForgetTypes, AdvanceTypes DEF PageDone

LEMMA FaultTypes ==
  ASSUME faults \in 0..MaxFaults, NEW kind, Fault(kind)
  PROVE  faults' \in 0..MaxFaults
BY ConstantsAssumption DEF Fault

\* The parts of TypeOK that a step of a worker may disturb.
SharedTypes ==
  /\ version \in Listing /\ row \in Listing
  /\ jobs \in [Runs -> [Jobs -> Versions]]
  /\ synced \in Listing /\ progress \in Progress /\ aged \in BOOLEAN
  /\ pageTag \in [Pages -> SUBSET Listing] /\ jobsTag \in Listing
  /\ saving \in Progress /\ answered \in Listing
  /\ unsaved \in [Workers -> SUBSET (Runs \cup Jobs)]
  /\ faults \in 0..MaxFaults

LEMMA TypeParts == TypeOK <=> SharedTypes /\ LocalTypes
BY DEF TypeOK, SharedTypes, LocalTypes

LEMMA RecordPageTypes ==
  ASSUME TypeOK, NEW w \in Workers, RecordPageTag(w)
  PROVE  /\ pageTag' \in [Pages -> SUBSET Listing] /\ jobsTag' \in Listing
         /\ faults' \in 0..MaxFaults
BY ZeroTypes, FaultTypes DEF TypeOK, RecordPageTag, RecordTag

LEMMA RecordJobsTypes ==
  ASSUME TypeOK, NEW w \in Workers, RecordJobsTag(w)
  PROVE  /\ pageTag' \in [Pages -> SUBSET Listing] /\ jobsTag' \in Listing
         /\ faults' \in 0..MaxFaults
<1>1. answer[w] \in Versions
  BY DEF TypeOK
<1>2. /\ [jobsTag EXCEPT ![run[w]] = answer[w]] \in Listing
      /\ [r \in Runs |-> IF r = run[w] THEN answer[w] ELSE 0] \in Listing
      /\ [q \in Pages |-> {}] \in [Pages -> SUBSET Listing]
  BY <1>1, ZeroTypes DEF TypeOK, Listing
<1>3. faults' \in 0..MaxFaults
  BY FaultTypes DEF TypeOK, RecordJobsTag, RecordTag
<1>4. pageTag \in [Pages -> SUBSET Listing]
  BY DEF TypeOK
<1> QED BY <1>2, <1>3, <1>4 DEF RecordJobsTag, RecordTag

LEMMA BatchTypes ==
  ASSUME TypeOK, NEW w \in Workers,
         \/ unsaved' = unsaved \/ BeginBatch(w, Listed(page[w])) \/ BeginBatch(w, Jobs)
         \/ (\E i : Written(w, i)) \/ LeaveBatch(w)
  PROVE  unsaved' \in [Workers -> SUBSET (Runs \cup Jobs)]
BY DEF TypeOK, BeginBatch, Written, LeaveBatch, Listed

LEMMA RequestPageTypes ==
  ASSUME TypeOK, NEW w \in Workers, NEW p, RequestPage(w, p), saving' = saving
  PROVE  TypeOK'
<1>1. LocalTypes'
  BY PageTypes DEF TypeOK, LocalTypes, RequestPage, Goto, Steps
<1>2. SharedTypes'
  BY DEF TypeOK, SharedTypes, RequestPage, github, database, tags
<1> QED BY <1>1, <1>2 DEF TypeOK, SharedTypes, LocalTypes

LEMMA ReceivePageTypes ==
  ASSUME TypeOK, NEW w \in Workers, ReceivePage(w)
  PROVE  TypeOK'
<1> USE DEF ReceivePage
<1>0. LocalTypes /\ SharedTypes
  BY TypeParts
<1>1. /\ LocalTypes' /\ saving' \in Progress
  <2>1. "store" \in Steps
    BY DEF Steps
  <2> QED BY <1>0, <2>1, AbandonTypes, PageDoneTypes, GotoTypes DEF SharedTypes
<1>2. /\ pageTag' \in [Pages -> SUBSET Listing] /\ jobsTag' \in Listing
      /\ faults' \in 0..MaxFaults
  BY RecordPageTypes, FaultTypes DEF TypeOK, tags, Fault
<1>3. unsaved' \in [Workers -> SUBSET (Runs \cup Jobs)]
  BY BatchTypes
<1>4. SharedTypes'
  BY <1>0, <1>1, <1>2, <1>3 DEF SharedTypes, github, database
<1> QED BY <1>1, <1>4 DEF TypeOK, SharedTypes, LocalTypes

LEMMA UpsertRunsTypes ==
  ASSUME TypeOK, NEW w \in Workers, UpsertWorkflowRuns(w)
  PROVE  TypeOK'
<1>0. LocalTypes /\ SharedTypes
  BY TypeParts
<1>1. row' \in Listing /\ synced' \in Listing
  BY DEF TypeOK, Listing, UpsertWorkflowRuns, UpsertRun
<1>2. LocalTypes' /\ saving' \in Progress
  <2>1. UNCHANGED <<pc, page, fresh, run, key, answer, todo, budget>> => LocalTypes'
    BY <1>0 DEF LocalTypes
  <2> QED
    BY <1>0, <2>1, AbandonTypes, PageDoneTypes DEF SharedTypes, UpsertWorkflowRuns
<1>3. unsaved' \in [Workers -> SUBSET (Runs \cup Jobs)]
  BY BatchTypes DEF UpsertWorkflowRuns
<1>4. faults' \in 0..MaxFaults
  BY FaultTypes DEF TypeOK, UpsertWorkflowRuns
<1>5. SharedTypes'
  BY <1>0, <1>1, <1>2, <1>3, <1>4 DEF SharedTypes, UpsertWorkflowRuns, github, tags
<1> QED BY <1>2, <1>5 DEF TypeOK, SharedTypes, LocalTypes

LEMMA ReceiveJobsTypes ==
  ASSUME TypeOK, NEW w \in Workers, ReceiveJobs(w)
  PROVE  TypeOK'
<1> USE DEF ReceiveJobs
<1>0. LocalTypes /\ SharedTypes
  BY TypeParts
<1>1. LocalTypes'
  <2>1. "save" \in Steps /\ "mark" \in Steps
    BY DEF Steps
  <2> QED BY <1>0, <2>1, ReturnTypes, GotoTypes
<1>2. answered' \in Listing
  <2>1. answer[w] \in Versions
    BY DEF TypeOK
  <2>2. SeeAnswer(w) => answered' \in Listing
    BY <2>1 DEF TypeOK, SeeAnswer, Listing
  <2> QED BY <2>2 DEF TypeOK
<1>3. /\ pageTag' \in [Pages -> SUBSET Listing] /\ jobsTag' \in Listing
      /\ faults' \in 0..MaxFaults
  <2>1. answer[w] \in Versions
    BY DEF TypeOK
  <2>2. [jobsTag EXCEPT ![run[w]] = answer[w]] \in Listing
    BY <2>1 DEF TypeOK, Listing
  <2> QED BY <2>2, RecordJobsTypes, FaultTypes DEF TypeOK, tags, Fault
<1>4. unsaved' \in [Workers -> SUBSET (Runs \cup Jobs)]
  BY BatchTypes
<1>5. SharedTypes'
  BY <1>0, <1>2, <1>3, <1>4 DEF SharedTypes, github, database
<1> QED BY <1>1, <1>5 DEF TypeOK, SharedTypes, LocalTypes

LEMMA UpsertJobsTypes ==
  ASSUME TypeOK, NEW w \in Workers, UpsertWorkflowJobs(w)
  PROVE  TypeOK'
<1> USE DEF UpsertWorkflowJobs
<1>0. LocalTypes /\ SharedTypes
  BY TypeParts
<1>1. LocalTypes'
  <2>1. CASE Return(w)
    BY <1>0, <2>1, ReturnTypes
  <2>2. CASE pc' = pc \/ Goto(w, "mark")
    <3>1. UNCHANGED <<page, fresh, run, key, answer, todo, budget>> \/ Return(w)
      OBVIOUS
    <3> QED BY <1>0, <2>2, <3>1, ReturnTypes DEF LocalTypes, Goto, Steps
  <2> QED BY <2>1, <2>2
<1>2. jobs' \in [Runs -> [Jobs -> Versions]]
  <2>1. answer[w] \in Versions /\ jobs \in [Runs -> [Jobs -> Versions]]
    BY DEF TypeOK
  <2>2. PICK j : jobs' = jobs \/ jobs' = [jobs EXCEPT ![run[w]][j] = answer[w]]
    OBVIOUS
  <2>3. \A r \in Runs : [jobs[r] EXCEPT ![j] = answer[w]] \in [Jobs -> Versions]
    BY <2>1
  <2> QED BY <2>1, <2>2, <2>3
<1>3. faults' \in 0..MaxFaults
  BY FaultTypes DEF TypeOK
<1>4. unsaved' \in [Workers -> SUBSET (Runs \cup Jobs)]
  BY BatchTypes
<1>5. SharedTypes'
  BY <1>0, <1>2, <1>3, <1>4 DEF SharedTypes, github, tags
<1> QED BY <1>1, <1>5 DEF TypeOK, SharedTypes, LocalTypes

LEMMA MarkTypes ==
  ASSUME TypeOK, NEW w \in Workers, MarkJobsSynced(w)
  PROVE  TypeOK'
<1> USE DEF MarkJobsSynced
<1>0. LocalTypes /\ SharedTypes
  BY TypeParts
<1>1. LocalTypes'
  BY <1>0, ReturnTypes, NextRunTypes
<1>2. synced' \in Listing
  BY DEF TypeOK, Listing, MarkVersion
<1>3. faults' \in 0..MaxFaults
  BY FaultTypes DEF TypeOK
<1>4. SharedTypes'
  BY <1>0, <1>2, <1>3 DEF SharedTypes, github, tags
<1> QED BY <1>1, <1>4 DEF TypeOK, SharedTypes, LocalTypes

LEMMA PollTypes ==
  ASSUME TypeOK, Poll
  PROVE  TypeOK'
BY RequestPageTypes DEF Poll

LEMMA SelectTypes ==
  ASSUME TypeOK, SelectRunsForJobFetch
  PROVE  TypeOK'
<1> USE DEF SelectRunsForJobFetch
<1>0. LocalTypes /\ SharedTypes
  BY TypeParts
<1>1. LocalTypes'
  <2>1. CASE Return("poller")
    BY <1>0, <2>1, ReturnTypes
  <2>2. CASE Goto("poller", "loop") /\ UNCHANGED <<page, fresh, run, key, answer>>
             /\ todo' \in SUBSET Runs /\ budget' \in 0..JobBudget
    BY <1>0, <2>2 DEF LocalTypes, Goto, Steps
  <2> QED BY <2>1, <2>2 DEF Listed
<1>2. faults' \in 0..MaxFaults
  BY FaultTypes DEF TypeOK
<1>3. SharedTypes'
  BY <1>0, <1>2 DEF SharedTypes, github, database, tags
<1> QED BY <1>1, <1>3 DEF TypeOK, SharedTypes, LocalTypes

LEMMA FetchTypes ==
  ASSUME TypeOK, FetchNextRun
  PROVE  TypeOK'
<1> USE DEF FetchNextRun
<1>0. LocalTypes /\ SharedTypes
  BY TypeParts
<1>1. LocalTypes'
  <2>1. CASE Return("poller")
    BY <1>0, <2>1, ReturnTypes
  <2>2. ASSUME NEW r, r = Newest(todo), todo # {}, BudgetLeft,
               todo' = todo \ {r}, budget' = budget - 1,
               run' = [run EXCEPT !["poller"] = r],
               key' = [key EXCEPT !["poller"] = page["poller"][r]],
               RequestJobs("poller", r), UNCHANGED <<page, fresh>>
        PROVE  LocalTypes'
    <3>1. r \in Runs /\ r \in 0..NumRuns
      BY <2>2, NewestRun DEF TypeOK
    <3>2. page["poller"][r] \in Versions /\ version[r] \in Versions
      BY <3>1 DEF TypeOK, Listing
    <3>3. budget' \in 0..JobBudget
      BY <2>2, ConstantsAssumption DEF TypeOK, BudgetLeft
    <3>4. answer' \in [Workers -> Versions] /\ pc' \in [Workers -> Steps]
      BY <2>2, <3>2, ZeroTypes DEF TypeOK, RequestJobs, Goto, Steps
    <3> QED BY <2>2, <3>1, <3>2, <3>3, <3>4 DEF TypeOK, LocalTypes
  <2> QED BY <2>1, <2>2
<1>2. SharedTypes'
  BY <1>0 DEF SharedTypes, github, database, tags
<1> QED BY <1>1, <1>2 DEF TypeOK, SharedTypes, LocalTypes

LEMMA PickRunTypes ==
  ASSUME TypeOK, PickRun
  PROVE  TypeOK'
<1> DEFINE r == Newest(RunsMissingJobs)
<1>1. r \in Runs /\ r \in 0..NumRuns
  BY NewestRun DEF PickRun, RunsMissingJobs
<1>2. row[r] \in Versions
  BY <1>1 DEF TypeOK, Listing
<1>3. LocalTypes'
  BY <1>1, <1>2 DEF TypeOK, LocalTypes, PickRun, Goto, Steps
<1>4. SharedTypes'
  BY DEF TypeOK, SharedTypes, PickRun, github, database, tags
<1> QED BY <1>3, <1>4 DEF TypeOK, SharedTypes, LocalTypes

LEMMA AskJobsTypes ==
  ASSUME TypeOK, AskJobs, run["backfiller"] \in Runs
  PROVE  TypeOK'
<1>1. version[run["backfiller"]] \in Versions
  BY DEF TypeOK, Listing
<1>2. LocalTypes'
  BY <1>1, ZeroTypes DEF TypeOK, LocalTypes, AskJobs, RequestJobs, Goto, Steps
<1>3. SharedTypes'
  BY DEF TypeOK, SharedTypes, AskJobs, github, database, tags
<1> QED BY <1>2, <1>3 DEF TypeOK, SharedTypes, LocalTypes

LEMMA PickPageTypes ==
  ASSUME TypeOK, PickPage
  PROVE  TypeOK'
<1>0. LocalTypes /\ SharedTypes
  BY TypeParts
<1>1. LocalTypes'
  <2>1. "turn" \in Steps
    BY DEF Steps
  <2> QED BY <1>0, <2>1 DEF PickPage, LocalTypes, Goto
<1>2. saving' \in Progress
  BY ZeroTypes DEF TypeOK, PickPage, Progress
<1>3. faults' \in 0..MaxFaults
  BY FaultTypes DEF TypeOK, PickPage
<1>4. SharedTypes'
  BY <1>0, <1>2, <1>3 DEF SharedTypes, PickPage, github, database, tags
<1> QED BY <1>1, <1>4 DEF TypeOK, SharedTypes, LocalTypes

LEMMA AskPageTypes ==
  ASSUME TypeOK, AskPage
  PROVE  TypeOK'
BY RequestPageTypes DEF AskPage

LEMMA SaveProgressTypes ==
  ASSUME TypeOK, SaveBackfillProgress
  PROVE  TypeOK'
<1>0. LocalTypes /\ SharedTypes
  BY TypeParts
<1>1. LocalTypes'
  BY <1>0, ReturnTypes DEF SaveBackfillProgress
<1>2. /\ progress' \in Progress /\ aged' \in BOOLEAN
      /\ faults' \in 0..MaxFaults
  BY FaultTypes DEF TypeOK, SaveBackfillProgress
<1>3. SharedTypes'
  BY <1>0, <1>2 DEF SharedTypes, SaveBackfillProgress, github, tags
<1> QED BY <1>1, <1>3 DEF TypeOK, SharedTypes, LocalTypes

LEMMA UpdateRunTypes ==
  ASSUME TypeOK, NEW r \in Runs, UpdateRun(r)
  PROVE  TypeOK'
<1>1. version[r] + 1 \in Versions
  BY ConstantsAssumption DEF TypeOK, UpdateRun, Listing, Versions
<1>2. version' \in Listing
  BY <1>1 DEF TypeOK, UpdateRun, Listing
<1> QED BY <1>2 DEF TypeOK, UpdateRun, database, tags, local

LEMMA NewDayTypes ==
  ASSUME TypeOK, NewDay
  PROVE  TypeOK'
BY DEF TypeOK, NewDay, github, local, Progress

LEMMA CrashTypes ==
  ASSUME TypeOK, Crash
  PROVE  TypeOK'
<1>1. /\ LocalTypes' /\ saving' \in Progress
      /\ unsaved' \in [Workers -> SUBSET (Runs \cup Jobs)]
  BY ZeroTypes DEF Crash, RestartLocals, LocalTypes, Steps, Progress
<1>2. faults' \in 0..MaxFaults
  BY FaultTypes DEF TypeOK, Crash
<1>3. /\ pageTag' \in [Pages -> SUBSET Listing] /\ jobsTag' \in Listing
  BY ZeroTypes DEF Crash
<1> QED BY <1>1, <1>2, <1>3 DEF TypeOK, LocalTypes, Crash, github, database

LEMMA WorkTypes ==
  ASSUME TypeOK, NEW w \in Workers, Work(w)
  PROVE  TypeOK'
BY ReceivePageTypes, UpsertRunsTypes, ReceiveJobsTypes, UpsertJobsTypes,
   MarkTypes DEF Work

-----------------------------------------------------------------------------
(***************************************************************************)
(* TypeOK is not inductive: AskJobs answers with version[run], which has a *)
(* value only while the worker works on a run.                             *)
(***************************************************************************)
AtWork == {"ask", "jobs", "save", "mark"}

WorksOnRun == \A w \in Workers : pc[w] \in AtWork => run[w] \in Runs

LEMMA InitTypes == Init => TypeOK /\ WorksOnRun
<1> SUFFICES ASSUME Init PROVE TypeOK /\ WorksOnRun
  OBVIOUS
<1>1. LocalTypes
  BY ZeroTypes DEF Init, LocalTypes, Steps
<1>2. 0 \in 0..MaxFaults
  BY ConstantsAssumption
<1>3. progress \in Progress /\ saving \in Progress
  BY ZeroTypes DEF Init, Progress
<1>4. SharedTypes
  BY <1>2, <1>3, ZeroTypes DEF Init, SharedTypes
<1>5. WorksOnRun
  BY DEF Init, WorksOnRun, AtWork
<1> QED BY <1>1, <1>4, <1>5, TypeParts

LEMMA NextTypes ==
  ASSUME TypeOK, WorksOnRun, [Next]_vars
  PROVE  TypeOK'
<1>1. CASE \E r \in Runs : UpdateRun(r)
  BY <1>1, UpdateRunTypes
<1>2. CASE NewDay
  BY <1>2, NewDayTypes
<1>3. CASE PollerStep
  BY <1>3, WorkTypes, PollTypes, SelectTypes, FetchTypes DEF PollerStep, CollectWorkflows
<1>4. CASE BackfillerStep
  <2>1. AskJobs => run["backfiller"] \in Runs
    BY DEF AskJobs, WorksOnRun, AtWork
  <2> QED BY <1>4, <2>1, WorkTypes, PickRunTypes, AskJobsTypes, PickPageTypes,
             AskPageTypes, SaveProgressTypes DEF BackfillerStep
<1>5. CASE Crash
  BY <1>5, CrashTypes
<1>6. CASE UNCHANGED vars
  BY <1>6 DEF TypeOK, vars, github, database, tags, local
<1> QED BY <1>1, <1>2, <1>3, <1>4, <1>5, <1>6 DEF Next

LEMMA NextWorksOnRun ==
  ASSUME TypeOK, WorksOnRun, [Next]_vars
  PROVE  WorksOnRun'
<1> USE DEF WorksOnRun, AtWork
<1>1. ASSUME NEW w \in Workers,
             \/ Return(w) \/ NextRun(w)
             \/ Goto(w, "progress") /\ ForgetPage(w)
             \/ (\E l \in {"store", "select", "turn", "page"} : Goto(w, l)) /\ UNCHANGED run
      PROVE  WorksOnRun'
  BY <1>1 DEF TypeOK, Return, NextRun, Goto, ForgetPage
<1>2. ASSUME NEW w \in Workers, pc[w] \in AtWork,
             (\E l \in {"save", "mark", "jobs"} : Goto(w, l)) \/ pc' = pc, UNCHANGED run
      PROVE  WorksOnRun'
  BY <1>2 DEF TypeOK, Goto
<1>3. ASSUME NEW w \in Workers, Work(w) PROVE WorksOnRun'
  <2>1. CASE ReceivePage(w)
    BY <2>1, <1>1 DEF ReceivePage, AbandonPage, PageDone
  <2>2. CASE UpsertWorkflowRuns(w)
    <3>1. CASE UNCHANGED <<pc, run>>
      BY <3>1
    <3> QED BY <2>2, <3>1, <1>1 DEF UpsertWorkflowRuns, AbandonPage, PageDone
  <2>3. CASE ReceiveJobs(w)
    BY <2>3, <1>1, <1>2 DEF ReceiveJobs
  <2>4. CASE UpsertWorkflowJobs(w)
    BY <2>4, <1>1, <1>2 DEF UpsertWorkflowJobs
  <2>5. CASE MarkJobsSynced(w)
    BY <2>5, <1>1 DEF MarkJobsSynced
  <2> QED BY <1>3, <2>1, <2>2, <2>3, <2>4, <2>5 DEF Work
<1>4. CASE Poll
  BY <1>4, <1>1 DEF Poll, RequestPage
<1>5. CASE SelectRunsForJobFetch
  <2>1. CASE Return("poller")
    BY <1>5, <2>1, <1>1 DEF SelectRunsForJobFetch
  <2>2. CASE Goto("poller", "loop") /\ UNCHANGED run
    BY <2>2 DEF TypeOK, Goto
  <2> QED BY <1>5, <2>1, <2>2 DEF SelectRunsForJobFetch
<1>6. CASE FetchNextRun
  <2>1. CASE Return("poller")
    BY <1>6, <2>1, <1>1 DEF FetchNextRun
  <2>2. CASE todo # {} /\ Goto("poller", "jobs")
             /\ run' = [run EXCEPT !["poller"] = Newest(todo)]
    BY <1>6, <2>2, NewestRun DEF TypeOK, Goto, FetchNextRun
  <2> QED BY <1>6, <2>1, <2>2 DEF FetchNextRun, RequestJobs
<1>7. CASE PickRun
  BY <1>7, NewestRun DEF TypeOK, PickRun, Goto, RunsMissingJobs
<1>8. CASE AskJobs
  BY <1>8, <1>2 DEF AskJobs, RequestJobs
<1>9. CASE PickPage \/ AskPage
  BY <1>9, <1>1 DEF PickPage, AskPage, RequestPage
<1>10. CASE SaveBackfillProgress
  BY <1>10, <1>1 DEF SaveBackfillProgress
<1>11. CASE Crash
  BY <1>11 DEF Crash, RestartLocals
<1>12. CASE UNCHANGED <<pc, run>>
  BY <1>12
<1>13. CASE NewDay \/ (\E r \in Runs : UpdateRun(r)) \/ UNCHANGED vars
  BY <1>13, <1>12 DEF NewDay, UpdateRun, vars, local
<1> QED BY <1>3, <1>4, <1>5, <1>6, <1>7, <1>8, <1>9, <1>10, <1>11, <1>13
        DEF Next, PollerStep, CollectWorkflows, BackfillerStep

\* The variables keep their types in every behaviour.
THEOREM TypeCorrect == Spec => []TypeOK
<1>1. TypeOK /\ WorksOnRun /\ [Next]_vars => (TypeOK /\ WorksOnRun)'
  BY NextTypes, NextWorksOnRun
<1> QED BY <1>1, InitTypes, PTL DEF Spec

-----------------------------------------------------------------------------
(***************************************************************************)
(* A mark vouches for an answer.  The strengthening: what is stored or     *)
(* listed never is newer than GitHub's; an ETag stands for an answer that  *)
(* was received; and from its request to its mark a worker's key is no     *)
(* newer than the answer it waits for or has received.                     *)
(***************************************************************************)
ListedExists ==
  /\ \A r \in Runs : row[r] <= version[r]
  /\ \A w \in Workers : \A r \in Runs : page[w][r] <= version[r]

TagsAnswered == \A r \in Runs : jobsTag[r] <= answered[r]

\* What worker w holds while it works on a run.
KeyAnswered(w) ==
  /\ pc[w] \in AtWork => key[w] <= version[run[w]]
  /\ pc[w] = "jobs" => IF answer[w] = 0 THEN key[w] <= answered[run[w]]
                       ELSE key[w] <= answer[w]
  /\ pc[w] \in {"save", "mark"} => key[w] <= answered[run[w]]

AnsweredInv ==
  /\ ListedExists
  /\ TagsAnswered
  /\ \A w \in Workers : KeyAnswered(w)
  /\ MarkedWasAnswered

LEMMA ListingValues ==
  ASSUME NEW f \in Listing, NEW r \in Runs
  PROVE  f[r] \in Nat
BY ConstantsAssumption DEF Listing, Versions

\* GitHub's versions and the history of its answers only grow.
LEMMA Growing ==
  ASSUME TypeOK, WorksOnRun, [Next]_vars
  PROVE  \A r \in Runs : version[r] <= version'[r] /\ answered[r] <= answered'[r]
<1>1. \A r \in Runs : version[r] \in Nat /\ answered[r] \in Nat
  BY ListingValues DEF TypeOK
<1>2. \A r \in Runs : version[r] <= version'[r]
  <2>1. CASE \E r \in Runs : UpdateRun(r)
    BY <2>1, <1>1 DEF UpdateRun, TypeOK, Listing
  <2>2. CASE UNCHANGED version
    BY <2>2, <1>1
  <2> QED BY <2>1, <2>2 DEF Next, NewDay, PollerStep, CollectWorkflows, BackfillerStep, Crash,
       Work, ReceivePage, UpsertWorkflowRuns, ReceiveJobs, UpsertWorkflowJobs,
       MarkJobsSynced, Poll, RequestPage, SelectRunsForJobFetch, FetchNextRun,
       PickRun, AskJobs, PickPage, AskPage, SaveBackfillProgress, vars, github
<1>3. \A r \in Runs : answered[r] <= answered'[r]
  <2>1. ASSUME NEW w \in Workers, SeeAnswer(w)
        PROVE  \A r \in Runs : answered[r] <= answered'[r]
    <3>1. answer[w] \in Nat
      BY ConstantsAssumption DEF TypeOK, Versions
    <3> QED BY <2>1, <3>1, <1>1 DEF SeeAnswer, TypeOK, Listing
  <2>2. CASE UNCHANGED answered
    BY <2>2, <1>1
  <2>3. ASSUME NEW w \in Workers, ReceiveJobs(w)
        PROVE  SeeAnswer(w) \/ UNCHANGED answered
    BY <2>3 DEF ReceiveJobs
  <2> QED BY <2>1, <2>2, <2>3 DEF Next, NewDay, PollerStep, CollectWorkflows, BackfillerStep,
       Crash, Work, ReceivePage, UpsertWorkflowRuns, UpsertWorkflowJobs,
       MarkJobsSynced, Poll, RequestPage, SelectRunsForJobFetch, FetchNextRun,
       PickRun, AskJobs, PickPage, AskPage, SaveBackfillProgress, UpdateRun, vars
<1> QED BY <1>2, <1>3

\* Neither the runs table nor a page a worker holds is ahead of GitHub.
LEMMA NextListedExists ==
  ASSUME TypeOK, WorksOnRun, ListedExists, [Next]_vars
  PROVE  ListedExists'
<1>1. TypeOK'
  BY NextTypes
<1>2. \A r \in Runs : /\ version[r] \in Nat /\ version'[r] \in Nat
                      /\ version[r] <= version'[r]
  BY <1>1, Growing, ListingValues DEF TypeOK
<1>3. ASSUME NEW r \in Runs
      PROVE  row[r] \in Nat /\ row'[r] \in Nat /\ row[r] <= version[r]
  BY <1>1, ListingValues DEF TypeOK, ListedExists
<1>4. ASSUME NEW w \in Workers,
             \/ UNCHANGED page
             \/ Return(w) \/ ForgetPage(w)
             \/ \E p : page' = [page EXCEPT ![w] = RunsPage(p)]
      PROVE  \A v \in Workers : \A r \in Runs : page'[v][r] <= version'[r]
  <2>1. \A p : \A r \in Runs : RunsPage(p)[r] <= version[r]
    BY <1>2 DEF RunsPage
  <2>2. \A r \in Runs : NoRuns[r] <= version[r]
    BY <1>2 DEF NoRuns
  <2>3. ASSUME NEW v \in Workers, NEW r \in Runs
        PROVE  page'[v][r] <= version[r] /\ page'[v][r] \in Nat
    <3>1. page'[v] = page[v] \/ page'[v] = NoRuns \/ \E p : page'[v] = RunsPage(p)
      BY <1>4 DEF TypeOK, Return, ForgetPage
    <3>2. page'[v][r] \in Nat
      BY <1>1, ListingValues DEF TypeOK
    <3> QED BY <3>1, <3>2, <2>1, <2>2 DEF ListedExists
  <2> QED BY <2>3, <1>2
<1>5. ASSUME \A r \in Runs : row'[r] = row[r] \/ \E w \in Workers : row'[r] = page[w][r]
      PROVE  \A r \in Runs : row'[r] <= version'[r]
  BY <1>5, <1>2, <1>3 DEF ListedExists
<1>6. ASSUME NEW w \in Workers, Work(w) PROVE ListedExists'
  <2>1. UNCHANGED page \/ Return(w) \/ ForgetPage(w)
    <3>1. AbandonPage(w) => Return(w) \/ ForgetPage(w)
      BY DEF AbandonPage
    <3>2. PageDone(w) => UNCHANGED page \/ Return(w) \/ ForgetPage(w)
      BY DEF PageDone
    <3> QED BY <1>6, <3>1, <3>2 DEF Work, ReceivePage, UpsertWorkflowRuns,
           ReceiveJobs, UpsertWorkflowJobs, MarkJobsSynced, NextRun
  <2>2. \A r \in Runs : row'[r] = row[r] \/ row'[r] = page[w][r]
    <3>1. CASE UpsertWorkflowRuns(w)
      BY <3>1 DEF UpsertWorkflowRuns, UpsertRun, TypeOK, Listing
    <3>2. CASE UNCHANGED row
      BY <3>2
    <3> QED BY <1>6, <3>1, <3>2 DEF Work, ReceivePage, ReceiveJobs,
           UpsertWorkflowJobs, MarkJobsSynced, database
  <2> QED BY <2>1, <2>2, <1>4, <1>5 DEF ListedExists
<1>7. CASE UNCHANGED <<row, page>>
  BY <1>7, <1>2, ListingValues DEF ListedExists, TypeOK
<1>8. CASE Poll \/ AskPage
  <2>1. \A r \in Runs : row'[r] = row[r]
    BY <1>8 DEF Poll, AskPage, RequestPage, database
  <2>2. \E w \in Workers : \E p : page' = [page EXCEPT ![w] = RunsPage(p)]
    BY <1>8 DEF Poll, AskPage, RequestPage
  <2> QED BY <2>1, <2>2, <1>4, <1>5 DEF ListedExists
<1>9. CASE SelectRunsForJobFetch \/ FetchNextRun \/ SaveBackfillProgress
  <2>1. \A r \in Runs : row'[r] = row[r]
    BY <1>9 DEF SelectRunsForJobFetch, FetchNextRun, SaveBackfillProgress, database
  <2>2. \E w \in Workers : UNCHANGED page \/ Return(w)
    BY <1>9 DEF SelectRunsForJobFetch, FetchNextRun, SaveBackfillProgress
  <2> QED BY <2>1, <2>2, <1>4, <1>5 DEF ListedExists
<1>10. CASE Crash
  <2>1. \A w \in Workers : page'[w] = NoRuns
    BY <1>10 DEF Crash, RestartLocals
  <2>2. \A r \in Runs : row'[r] = row[r]
    BY <1>10 DEF Crash, database
  <2>3. \A r \in Runs : NoRuns[r] <= version'[r]
    BY <1>2 DEF NoRuns
  <2> QED BY <2>1, <2>2, <2>3, <1>5 DEF ListedExists
<1>11. CASE NewDay \/ (\E r \in Runs : UpdateRun(r)) \/ PickRun \/ AskJobs
            \/ PickPage \/ UNCHANGED vars
  BY <1>11, <1>7 DEF NewDay, UpdateRun, PickRun, AskJobs, PickPage, vars, local,
     database
<1> QED BY <1>6, <1>8, <1>9, <1>10, <1>11 DEF Next, PollerStep, CollectWorkflows, BackfillerStep

\* An ETag is recorded only with an answer that was received.
LEMMA NextTagsAnswered ==
  ASSUME TypeOK, WorksOnRun, TagsAnswered, [Next]_vars
  PROVE  TagsAnswered'
<1>1. \A r \in Runs : /\ jobsTag[r] \in Nat /\ answered[r] \in Nat
                      /\ answered'[r] \in Nat /\ answered[r] <= answered'[r]
  <2>1. TypeOK'
    BY NextTypes
  <2> QED BY <2>1, Growing, ListingValues DEF TypeOK
<1>2. CASE UNCHANGED jobsTag
  BY <1>1, <1>2 DEF TagsAnswered
<1>3. CASE jobsTag' = NoRuns
  BY <1>1, <1>3 DEF TagsAnswered, NoRuns
<1>4. ASSUME NEW w \in Workers, ReceiveJobs(w) PROVE TagsAnswered'
  <2>1. CASE SeeAnswer(w)
    <3>1. run[w] \in Runs
      BY <1>4 DEF ReceiveJobs, WorksOnRun, AtWork
    <3>2. answer[w] \in Nat
      BY ConstantsAssumption DEF TypeOK, Versions
    <3>3. answer[w] <= answered'[run[w]]
      BY <2>1, <3>1, <3>2, <1>1 DEF SeeAnswer, TypeOK, Listing
    <3>4. \A r \in Runs : jobsTag'[r] = jobsTag[r] \/ jobsTag'[r] = 0
                          \/ (r = run[w] /\ jobsTag'[r] = answer[w])
      BY <1>4, <1>2 DEF ReceiveJobs, RecordJobsTag, RecordTag, TypeOK, Listing, tags
    <3> QED BY <3>3, <3>4, <1>1, <3>2 DEF TagsAnswered
  <2> QED BY <1>4, <2>1, <1>2 DEF ReceiveJobs, tags
<1>5. ASSUME NEW w \in Workers, ReceivePage(w) PROVE TagsAnswered'
  BY <1>5, <1>2, <1>3 DEF ReceivePage, RecordPageTag, RecordTag, tags
<1>6. ASSUME NEW w \in Workers, Work(w) PROVE TagsAnswered'
  BY <1>6, <1>4, <1>5, <1>2 DEF Work, UpsertWorkflowRuns, UpsertWorkflowJobs,
     MarkJobsSynced, tags
<1>7. CASE Crash
  BY <1>7, <1>3 DEF Crash
<1> QED BY <1>6, <1>7, <1>2 DEF Next, PollerStep, CollectWorkflows, BackfillerStep, NewDay,
     UpdateRun, Poll, RequestPage, SelectRunsForJobFetch, FetchNextRun, PickRun,
     AskJobs, PickPage, AskPage, SaveBackfillProgress, vars, tags

\* What worker w holds of its run does not change.
Holds(w) ==
  /\ pc'[w] = pc[w] /\ run'[w] = run[w] /\ key'[w] = key[w]
  /\ answer'[w] = answer[w]

\* The key of a worker that is at work keeps up with the growing history.
LEMMA KeyFrame ==
  ASSUME TypeOK, WorksOnRun, [Next]_vars, NEW w \in Workers, KeyAnswered(w),
         Holds(w)
  PROVE  KeyAnswered(w)'
<1>1. CASE pc[w] \notin AtWork
  BY <1>1 DEF KeyAnswered, Holds, AtWork
<1>2. CASE pc[w] \in AtWork
  <2>1. run[w] \in Runs
    BY <1>2 DEF WorksOnRun
  <2>2. TypeOK'
    BY NextTypes
  <2>3. /\ version[run[w]] \in Nat /\ version'[run[w]] \in Nat
        /\ answered[run[w]] \in Nat /\ answered'[run[w]] \in Nat
        /\ version[run[w]] <= version'[run[w]]
        /\ answered[run[w]] <= answered'[run[w]]
    BY <2>1, <2>2, Growing, ListingValues DEF TypeOK
  <2>4. key[w] \in Nat /\ answer[w] \in Nat
    BY ConstantsAssumption DEF TypeOK, Versions
  <2> QED BY <2>1, <2>3, <2>4 DEF KeyAnswered, Holds
<1> QED BY <1>1, <1>2

\* A step of w leaves what every other worker holds alone.
LEMMA OthersHold ==
  ASSUME TypeOK, NEW w \in Workers, NEW v \in Workers, v # w,
         \/ Work(w)
         \/ w = "poller" /\ (Poll \/ SelectRunsForJobFetch \/ FetchNextRun)
         \/ w = "backfiller" /\ (PickRun \/ AskJobs \/ PickPage \/ AskPage
                                 \/ SaveBackfillProgress)
  PROVE  Holds(v)
<1> USE DEF TypeOK, Holds, Goto, Return, NextRun, ForgetPage
<1>1. AbandonPage(w) => Holds(v)
  BY DEF AbandonPage
<1>2. PageDone(w) => Holds(v)
  BY DEF PageDone
<1>3. ReceivePage(w) \/ UpsertWorkflowRuns(w) => Holds(v)
  BY <1>1, <1>2 DEF ReceivePage, UpsertWorkflowRuns
<1>4. ReceiveJobs(w) => Holds(v)
  BY DEF ReceiveJobs
<1>5. UpsertWorkflowJobs(w) \/ MarkJobsSynced(w) => Holds(v)
  BY DEF UpsertWorkflowJobs, MarkJobsSynced
<1>6. w = "poller" /\ (Poll \/ SelectRunsForJobFetch \/ FetchNextRun) => Holds(v)
  BY DEF Poll, RequestPage, SelectRunsForJobFetch, FetchNextRun, RequestJobs
<1>7. w = "backfiller" /\ (PickRun \/ AskJobs \/ PickPage \/ AskPage
                           \/ SaveBackfillProgress) => Holds(v)
  BY DEF PickRun, AskJobs, RequestJobs, PickPage, AskPage, RequestPage,
     SaveBackfillProgress
<1> QED BY <1>3, <1>4, <1>5, <1>6, <1>7 DEF Work

LEMMA IdleKey ==
  ASSUME NEW w \in Workers, TypeOK, NEW l \in Steps \ AtWork,
         Goto(w, l)
  PROVE  KeyAnswered(w)'
BY DEF KeyAnswered, Goto, AtWork, TypeOK

LEMMA EndKey ==
  ASSUME TypeOK, NEW w \in Workers, Return(w) \/ NextRun(w) \/ AbandonPage(w) \/ PageDone(w)
  PROVE  KeyAnswered(w)'
<1>1. {"idle", "loop", "progress", "select"} \subseteq Steps \ AtWork
  BY DEF Steps, AtWork
<1> QED BY <1>1, IdleKey DEF Return, NextRun, AbandonPage, PageDone

\* The answer a worker waits for is no older than its key.
LEMMA RequestKey ==
  ASSUME TypeOK, TagsAnswered, NEW w \in Workers, NEW r \in Runs,
         RequestJobs(w, r), run'[w] = r, key'[w] \in Nat, key'[w] <= version[r],
         UNCHANGED <<version, answered>>
  PROVE  KeyAnswered(w)'
<1>1. version[r] \in Nat /\ jobsTag[r] \in Nat /\ answered[r] \in Nat
  BY ListingValues DEF TypeOK
<1>2. answer'[w] = (IF jobsTag[r] = version[r] THEN 0 ELSE version[r])
  BY DEF RequestJobs, TypeOK
<1>3. pc'[w] = "jobs"
  BY DEF RequestJobs, Goto, TypeOK
<1> QED BY <1>1, <1>2, <1>3 DEF KeyAnswered, TagsAnswered

LEMMA ReceiveJobsKey ==
  ASSUME TypeOK, WorksOnRun, NEW w \in Workers, KeyAnswered(w), ReceiveJobs(w)
  PROVE  KeyAnswered(w)'
<1>1. CASE Return(w)
  BY <1>1, EndKey
<1>2. run[w] \in Runs /\ pc[w] = "jobs"
  BY DEF ReceiveJobs, WorksOnRun, AtWork
<1>3. /\ version[run[w]] \in Nat /\ answered[run[w]] \in Nat
      /\ key[w] \in Nat /\ answer[w] \in Nat
  BY <1>2, ListingValues, ConstantsAssumption DEF TypeOK, Versions
<1>4. CASE answer[w] # 0 /\ SeeAnswer(w) /\ Goto(w, "save") /\ UNCHANGED <<run, key, answer>>
  <2>1. answer[w] <= answered'[run[w]]
    BY <1>4, <1>2, <1>3 DEF SeeAnswer, TypeOK, Listing
  <2>2. answered'[run[w]] \in Nat
    BY <1>4, <1>2, <1>3 DEF SeeAnswer, TypeOK, Listing
  <2>3. pc'[w] = "save" /\ version' = version
    BY <1>4 DEF Goto, TypeOK, ReceiveJobs, github
  <2> QED BY <1>2, <1>3, <1>4, <2>1, <2>2, <2>3 DEF KeyAnswered, AtWork
<1>5. CASE answer[w] = 0 /\ Goto(w, "mark") /\ UNCHANGED <<answered, run, key, answer>>
  <2>1. pc'[w] = "mark" /\ version' = version
    BY <1>5 DEF Goto, TypeOK, ReceiveJobs, github
  <2> QED BY <1>2, <1>3, <1>5, <2>1 DEF KeyAnswered, AtWork
<1> QED BY <1>1, <1>4, <1>5 DEF ReceiveJobs

LEMMA WorkKey ==
  ASSUME TypeOK, WorksOnRun, NEW w \in Workers, KeyAnswered(w), Work(w)
  PROVE  KeyAnswered(w)'
<1>1. CASE ReceivePage(w)
  <2>1. "store" \in Steps \ AtWork
    BY DEF Steps, AtWork
  <2> QED BY <1>1, <2>1, EndKey, IdleKey DEF ReceivePage
<1>2. CASE UpsertWorkflowRuns(w)
  <2>1. CASE UNCHANGED <<pc, run, key, answer>>
    <3>1. pc[w] = "store"
      BY <1>2 DEF UpsertWorkflowRuns
    <3> QED BY <2>1, <3>1 DEF KeyAnswered, AtWork
  <2> QED BY <1>2, <2>1, EndKey DEF UpsertWorkflowRuns
<1>3. CASE ReceiveJobs(w)
  BY <1>3, ReceiveJobsKey
<1>4. CASE UpsertWorkflowJobs(w)
  <2>1. CASE Return(w)
    BY <2>1, EndKey
  <2>2. CASE (Goto(w, "mark") \/ pc' = pc) /\ UNCHANGED <<run, key, answer>>
    <3>1. pc[w] = "save" /\ pc'[w] \in {"save", "mark"} /\ UNCHANGED <<version, answered>>
      BY <1>4, <2>2 DEF UpsertWorkflowJobs, Goto, TypeOK, github
    <3> QED BY <2>2, <3>1 DEF KeyAnswered, AtWork
  <2> QED BY <1>4, <2>1, <2>2 DEF UpsertWorkflowJobs
<1>5. CASE MarkJobsSynced(w)
  BY <1>5, EndKey DEF MarkJobsSynced
<1> QED BY <1>1, <1>2, <1>3, <1>4, <1>5 DEF Work

LEMMA NextKeyAnswered ==
  ASSUME TypeOK, WorksOnRun, ListedExists, TagsAnswered,
         \A v \in Workers : KeyAnswered(v), [Next]_vars, NEW w \in Workers
  PROVE  KeyAnswered(w)'
<1>1. CASE Holds(w)
  BY <1>1, KeyFrame
<1>2. CASE NewDay \/ (\E r \in Runs : UpdateRun(r)) \/ UNCHANGED vars
  BY <1>2, <1>1 DEF NewDay, UpdateRun, vars, local, Holds
<1>3. CASE Crash
  <2>1. pc'[w] = "idle"
    BY <1>3 DEF Crash, RestartLocals
  <2> QED BY <2>1 DEF KeyAnswered, AtWork
<1>4. ASSUME NEW u \in Workers, Work(u) PROVE KeyAnswered(w)'
  BY <1>4, <1>1, OthersHold, WorkKey
<1>5. CASE Poll \/ SelectRunsForJobFetch \/ FetchNextRun
  <2> DEFINE p == "poller"
  <2>0. p \in Workers
    BY <1>5 DEF Poll, SelectRunsForJobFetch, FetchNextRun
  <2>1. {"page", "loop"} \subseteq Steps \ AtWork
    BY DEF Steps, AtWork
  <2>2. Poll \/ SelectRunsForJobFetch => KeyAnswered(p)'
    BY <2>0, <2>1, IdleKey, EndKey DEF Poll, RequestPage, SelectRunsForJobFetch
  <2>3. FetchNextRun => KeyAnswered(p)'
    <3>1. CASE Return(p)
      BY <2>0, <3>1, EndKey
    <3>2. ASSUME NEW r, r = Newest(todo), todo # {}, RequestJobs(p, r),
                 run' = [run EXCEPT ![p] = r],
                 key' = [key EXCEPT ![p] = page[p][r]], FetchNextRun
          PROVE  KeyAnswered(p)'
      <4>1. r \in Runs
        BY <3>2, NewestRun DEF TypeOK
      <4>2. page[p][r] \in Nat /\ page[p][r] <= version[r]
        BY <2>0, <4>1, ListingValues DEF TypeOK, ListedExists
      <4>3. run'[p] = r /\ key'[p] = page[p][r]
        BY <2>0, <3>2 DEF TypeOK
      <4>4. UNCHANGED <<version, answered>>
        BY <3>2 DEF FetchNextRun, github
      <4> QED BY <2>0, <3>2, <4>1, <4>2, <4>3, <4>4, RequestKey
    <3> QED BY <3>1, <3>2 DEF FetchNextRun
  <2> QED BY <1>5, <2>0, <2>2, <2>3, <1>1, OthersHold
<1>6. CASE PickRun \/ AskJobs \/ PickPage \/ AskPage \/ SaveBackfillProgress
  <2> DEFINE b == "backfiller"
  <2>0. b \in Workers
    BY <1>6 DEF PickRun, AskJobs, PickPage, AskPage, SaveBackfillProgress
  <2>1. {"turn", "page"} \subseteq Steps \ AtWork
    BY DEF Steps, AtWork
  <2>2. PickPage \/ AskPage \/ SaveBackfillProgress => KeyAnswered(b)'
    BY <2>0, <2>1, IdleKey, EndKey
       DEF PickPage, AskPage, RequestPage, SaveBackfillProgress
  <2>3. ASSUME PickRun PROVE KeyAnswered(b)'
    <3> DEFINE r == Newest(RunsMissingJobs)
    <3>1. r \in Runs
      BY <2>3, NewestRun DEF PickRun, RunsMissingJobs
    <3>2. row[r] <= version[r]
      BY <3>1 DEF ListedExists
    <3>3. pc'[b] = "ask" /\ run'[b] = r /\ key'[b] = row[r] /\ version' = version
      BY <2>0, <2>3 DEF PickRun, Goto, TypeOK, github
    <3> QED BY <3>2, <3>3 DEF KeyAnswered
  <2>4. ASSUME AskJobs PROVE KeyAnswered(b)'
    <3>1. run[b] \in Runs /\ key[b] <= version[run[b]]
      BY <2>0, <2>4 DEF AskJobs, WorksOnRun, KeyAnswered, AtWork
    <3>2. key[b] \in Nat
      BY <2>0, ConstantsAssumption DEF TypeOK, Versions
    <3>3. UNCHANGED <<version, answered, run, key>> /\ RequestJobs(b, run[b])
      BY <2>4 DEF AskJobs, github
    <3> QED BY <2>0, <3>1, <3>2, <3>3, RequestKey
  <2> QED BY <1>6, <2>0, <2>2, <2>3, <2>4, <1>1, OthersHold
<1> QED BY <1>2, <1>3, <1>4, <1>5, <1>6 DEF Next, PollerStep, CollectWorkflows, BackfillerStep

LEMMA NextMarkedWasAnswered ==
  ASSUME TypeOK, WorksOnRun, MarkedWasAnswered,
         \A v \in Workers : KeyAnswered(v), [Next]_vars
  PROVE  MarkedWasAnswered'
<1>1. \A r \in Runs : /\ synced[r] \in Nat /\ answered[r] \in Nat
                      /\ answered'[r] \in Nat /\ answered[r] <= answered'[r]
  <2>1. TypeOK'
    BY NextTypes
  <2> QED BY <2>1, Growing, ListingValues DEF TypeOK
<1>2. CASE UNCHANGED synced
  BY <1>1, <1>2 DEF MarkedWasAnswered
<1>3. ASSUME NEW w \in Workers, synced' = [synced EXCEPT ![run[w]] = key[w]],
             pc[w] = "mark"
      PROVE  MarkedWasAnswered'
  <2>1. key[w] <= answered[run[w]] /\ run[w] \in Runs
    BY <1>3 DEF KeyAnswered, WorksOnRun, AtWork
  <2>2. key[w] \in Nat
    BY ConstantsAssumption DEF TypeOK, Versions
  <2> QED BY <1>1, <1>3, <2>1, <2>2 DEF MarkedWasAnswered, TypeOK, Listing
<1>4. ASSUME NEW w \in Workers, Work(w) PROVE MarkedWasAnswered'
  BY <1>4, <1>2, <1>3 DEF Work, ReceivePage, UpsertWorkflowRuns, ReceiveJobs,
     UpsertRun, UpsertWorkflowJobs, MarkJobsSynced, MarkVersion, database
<1> QED BY <1>4, <1>2 DEF Next, PollerStep, CollectWorkflows, BackfillerStep, NewDay, UpdateRun,
     Poll, RequestPage, SelectRunsForJobFetch, FetchNextRun, PickRun, AskJobs,
     PickPage, AskPage, SaveBackfillProgress, Crash, vars, database

\* Whatever the two loops interleave, fail at or restart from, a run is marked
\* at a version only when GitHub has answered its jobs as of it, or later ones.
THEOREM MarksWereAnswered == Spec => []MarkedWasAnswered
<1> DEFINE IInv == TypeOK /\ WorksOnRun /\ AnsweredInv
<1>1. Init => IInv
  <2>1. Init => AnsweredInv
    BY DEF Init, AnsweredInv, ListedExists, TagsAnswered, KeyAnswered,
       MarkedWasAnswered, NoRuns, AtWork
  <2> QED BY <2>1, InitTypes
<1>2. IInv /\ [Next]_vars => IInv'
  BY NextTypes, NextWorksOnRun, NextListedExists, NextTagsAnswered,
     NextKeyAnswered, NextMarkedWasAnswered DEF AnsweredInv
<1>3. IInv => MarkedWasAnswered
  BY DEF AnsweredInv
<1> QED BY <1>1, <1>2, <1>3, PTL DEF Spec
-----------------------------------------------------------------------------
(***************************************************************************)
(* "Marked only after the jobs are stored, so a failure in between leaves  *)
(* the run selectable" (src/github/backfill.go:371).  Model checking shows *)
(* that the sentence fails when a write to the database fails, when the    *)
(* body of an answer breaks off, or when poller and backfiller interleave. *)
(* Here it is proved of one loop alone, for any other failure: lost        *)
(* answers, refused requests, crashes at any step and evicted ETags.       *)
(***************************************************************************)

\* The jobs stored for a run are of versions GitHub has had.
JobsExist == \A r \in Runs : \A j \in Jobs : jobs[r][j] <= version[r]

\* The jobs stored for run r are all as of version v or later, or as of it or earlier.
AllSince(v, r) == \A j \in Jobs : v <= jobs[r][j]
AllUntil(v, r) == \A j \in Jobs : jobs[r][j] <= v

\* An ETag stands for jobs that are stored, or are about to be.
TagsStored ==
  \A r \in Runs : \/ AllSince(jobsTag[r], r)
                  \/ \E w \in Workers : pc[w] = "save" /\ run[w] = r

\* What worker w holds while it works on a run.
KeyStored(w) ==
  /\ pc[w] \in AtWork => key[w] <= version[run[w]]
  /\ pc[w] \in {"jobs", "save"} /\ answer[w] # 0 =>
       /\ key[w] <= answer[w] /\ AllUntil(answer[w], run[w])
       /\ answer[w] <= version[run[w]]
  /\ pc[w] = "jobs" /\ answer[w] = 0 => AllSince(key[w], run[w])
  /\ pc[w] = "save" =>
       /\ answer[w] # 0 /\ jobsTag[run[w]] = answer[w]
       /\ \A j \in Jobs \ unsaved[w] : jobs[run[w]][j] = answer[w]
  /\ pc[w] = "mark" => AllSince(key[w], run[w])

StoredInv(w) == JobsExist /\ TagsStored /\ KeyStored(w) /\ MarkedJobsStored

\* Facts about the values of the variables that the steps below need.
LEMMA Values ==
  ASSUME TypeOK, NEW r \in Runs
  PROVE  /\ version[r] \in Nat /\ jobsTag[r] \in Nat /\ synced[r] \in Nat
         /\ \A j \in Jobs : jobs[r][j] \in Nat
<1>1. \A j \in Jobs : jobs[r][j] \in Nat
  BY ConstantsAssumption DEF TypeOK, Versions
<1> QED BY <1>1, ListingValues DEF TypeOK

LEMMA WorkerValues ==
  ASSUME TypeOK, NEW w \in Workers
  PROVE  key[w] \in Nat /\ answer[w] \in Nat
BY ConstantsAssumption DEF TypeOK, Versions

\* A step that changes neither jobs nor marks nor adds a tag, and after which
\* the worker works on no run, keeps the invariant.
LEMMA LeaveRun ==
  ASSUME TypeOK, NEW w, Workers = {w}, StoredInv(w), pc[w] # "save",
         NEW l \in Steps \ AtWork, Goto(w, l),
         jobsTag' = jobsTag \/ jobsTag' = NoRuns,
         UNCHANGED <<version, jobs, synced>>
  PROVE  StoredInv(w)'
<1>1. pc'[w] = l
  BY DEF Goto, TypeOK
<1>2. JobsExist' /\ MarkedJobsStored'
  BY DEF StoredInv, JobsExist, MarkedJobsStored
<1>3. \A r \in Runs : AllSince(jobsTag[r], r)
  BY DEF StoredInv, TagsStored
<1>4. TagsStored'
  BY <1>3, Values DEF TagsStored, AllSince, NoRuns
<1>5. KeyStored(w)'
  BY <1>1 DEF KeyStored, AtWork
<1> QED BY <1>2, <1>4, <1>5 DEF StoredInv

\* The steps at which the worker asks for the jobs of a run.
LEMMA AskRun ==
  ASSUME TypeOK, NEW w, Workers = {w}, StoredInv(w), pc[w] # "save",
         NEW r \in Runs, RequestJobs(w, r), run'[w] = r,
         key'[w] \in Nat, key'[w] <= version[r],
         UNCHANGED <<version, jobs, synced, jobsTag>>
  PROVE  StoredInv(w)'
<1>1. JobsExist' /\ MarkedJobsStored'
  BY DEF StoredInv, JobsExist, MarkedJobsStored
<1>2. \A s \in Runs : \A j \in Jobs : jobsTag[s] <= jobs[s][j]
  BY DEF StoredInv, TagsStored, AllSince
<1>3. /\ pc'[w] = "jobs"
      /\ answer'[w] = (IF jobsTag[r] = version[r] THEN 0 ELSE version[r])
  BY DEF RequestJobs, Goto, TypeOK
<1>4. KeyStored(w)'
  BY <1>2, <1>3, Values DEF KeyStored, StoredInv, JobsExist, AllSince, AllUntil
<1>5. TagsStored'
  BY <1>2 DEF TagsStored, AllSince
<1> QED BY <1>1, <1>4, <1>5 DEF StoredInv

\* GitHub's answer to the jobs request.
LEMMA ReceiveRun ==
  ASSUME TypeOK, WorksOnRun, NEW w, Workers = {w}, StoredInv(w),
         Faults \subseteq {"transport", "crash", "evict"}, ReceiveJobs(w)
  PROVE  StoredInv(w)'
<1>1. /\ pc[w] = "jobs" /\ run[w] \in Runs
      /\ UNCHANGED <<version, jobs, synced>>
  BY DEF ReceiveJobs, WorksOnRun, AtWork, github, database
<1>2. CASE Return(w) /\ UNCHANGED tags
  <2>1. "idle" \in Steps \ AtWork
    BY DEF Steps, AtWork
  <2> QED BY <1>1, <1>2, <2>1, LeaveRun DEF Return, tags
<1>3. CASE answer[w] # 0 /\ RecordJobsTag(w) /\ Goto(w, "save")
           /\ BeginBatch(w, Jobs) /\ UNCHANGED <<run, key, answer>>
  <2>1. pc'[w] = "save" /\ unsaved'[w] = Jobs
    BY <1>3 DEF Goto, BeginBatch, TypeOK
  <2>2. \A r \in Runs : \/ jobsTag'[r] = jobsTag[r] /\ r # run[w]
                        \/ jobsTag'[r] = 0 /\ r # run[w]
                        \/ r = run[w] /\ jobsTag'[r] = answer[w]
    BY <1>3 DEF RecordJobsTag, RecordTag, TypeOK, Listing
  <2>3. \A r \in Runs : \A j \in Jobs : jobsTag[r] <= jobs[r][j]
    BY <1>1 DEF StoredInv, TagsStored, AllSince
  <2>4. TagsStored'
    BY <1>1, <1>3, <2>1, <2>2, <2>3, Values DEF TagsStored, AllSince
  <2>5. KeyStored(w)'
    BY <1>1, <1>3, <2>1, <2>2 DEF StoredInv, KeyStored, AtWork, AllUntil
  <2> QED BY <1>1, <2>4, <2>5 DEF StoredInv, JobsExist, MarkedJobsStored
<1>4. CASE answer[w] = 0 /\ Goto(w, "mark")
           /\ UNCHANGED <<tags, run, key, answer>>
  <2>1. pc'[w] = "mark"
    BY <1>4 DEF Goto, TypeOK
  <2>2. KeyStored(w)'
    BY <1>1, <1>4, <2>1 DEF StoredInv, KeyStored, AtWork, AllSince
  <2>3. TagsStored'
    BY <1>1, <1>4 DEF StoredInv, TagsStored, AllSince, tags
  <2> QED BY <1>1, <2>2, <2>3 DEF StoredInv, JobsExist, MarkedJobsStored
<1> QED BY <1>2, <1>3, <1>4 DEF ReceiveJobs

\* Storing a job: what is written of the batch is of the version of the ETag and
\* of the answer; after the last job all of it is.
LEMMA StoreJob ==
  ASSUME TypeOK, WorksOnRun, NEW w, Workers = {w}, StoredInv(w),
         "storage" \notin Faults, UpsertWorkflowJobs(w)
  PROVE  StoredInv(w)'
<1> DEFINE i == Newest(unsaved[w])
<1>1. /\ pc[w] = "save" /\ run[w] \in Runs
      /\ jobs' = [jobs EXCEPT ![run[w]][i] = answer[w]] /\ Written(w, i)
      /\ IF unsaved[w] = {i} THEN Goto(w, "mark") ELSE pc' = pc
      /\ UNCHANGED <<version, synced, jobsTag, run, key, answer>>
  BY DEF UpsertWorkflowJobs, WorksOnRun, AtWork, github, tags, Fault
<1> HIDE DEF i
<1>2. \A r \in Runs : \A j \in Jobs :
        jobs'[r][j] = IF r = run[w] /\ j = i THEN answer[w] ELSE jobs[r][j]
  BY <1>1 DEF TypeOK
<1>3. unsaved'[w] = unsaved[w] \ {i}
  BY <1>1 DEF Written, TypeOK
<1>4. /\ key[w] <= answer[w] /\ answer[w] # 0
      /\ answer[w] <= version[run[w]] /\ jobsTag[run[w]] = answer[w]
      /\ key[w] <= version[run[w]]
      /\ \A j \in Jobs : jobs[run[w]][j] <= answer[w]
      /\ \A j \in Jobs \ unsaved[w] : jobs[run[w]][j] = answer[w]
  BY <1>1 DEF StoredInv, KeyStored, AtWork, AllUntil
<1>5. JobsExist'
  BY <1>1, <1>2, <1>4 DEF StoredInv, JobsExist
<1>6. \A j \in Jobs : jobs'[run[w]][j] <= answer[w]
  BY <1>1, <1>2, <1>4, WorkerValues
<1>7. \A j \in Jobs \ unsaved'[w] : jobs'[run[w]][j] = answer[w]
  BY <1>1, <1>2, <1>3, <1>4
<1>8. \A r \in Runs : r # run[w] => \A j \in Jobs : jobsTag'[r] <= jobs'[r][j]
  BY <1>1, <1>2 DEF StoredInv, TagsStored, AllSince
<1>9. MarkedJobsStored'
  <2>1. \A j \in Jobs : synced[run[w]] <= answer[w]
    BY <1>1, <1>4, Values, WorkerValues DEF StoredInv, MarkedJobsStored
  <2> QED BY <1>1, <1>2, <2>1 DEF StoredInv, MarkedJobsStored
<1>10. CASE unsaved[w] # {i}
  <2>1. pc'[w] = "save"
    BY <1>1, <1>10
  <2>2. KeyStored(w)'
    BY <1>1, <1>4, <1>6, <1>7, <2>1 DEF KeyStored, AtWork, AllUntil
  <2>3. TagsStored'
    BY <1>1, <1>8, <2>1 DEF TagsStored, AllSince
  <2> QED BY <1>5, <1>9, <2>2, <2>3 DEF StoredInv
<1>11. CASE unsaved[w] = {i}
  <2>1. pc'[w] = "mark" /\ unsaved'[w] = {}
    BY <1>1, <1>3, <1>11 DEF Goto, TypeOK
  <2>2. \A j \in Jobs : jobs'[run[w]][j] = answer[w]
    BY <1>7, <2>1
  <2>3. KeyStored(w)'
    BY <1>1, <1>4, <2>1, <2>2 DEF KeyStored, AtWork, AllSince
  <2>4. TagsStored'
    BY <1>1, <1>4, <1>8, <2>2, WorkerValues DEF TagsStored, AllSince
  <2> QED BY <1>5, <1>9, <2>3, <2>4 DEF StoredInv
<1> QED BY <1>10, <1>11

\* Marking the run: its key is no newer than the jobs stored.
LEMMA MarkRun ==
  ASSUME TypeOK, WorksOnRun, NEW w, Workers = {w}, StoredInv(w),
         "storage" \notin Faults, MarkJobsSynced(w)
  PROVE  StoredInv(w)'
<1>1. /\ pc[w] = "mark" /\ run[w] \in Runs
      /\ synced' = [synced EXCEPT ![run[w]] = key[w]]
      /\ NextRun(w)
      /\ UNCHANGED <<version, jobs, jobsTag>>
  BY DEF MarkJobsSynced, WorksOnRun, AtWork, github, tags, Fault, MarkVersion
<1>2. \A j \in Jobs : key[w] <= jobs[run[w]][j]
  BY <1>1 DEF StoredInv, KeyStored, AllSince
<1>3. MarkedJobsStored'
  BY <1>1, <1>2 DEF StoredInv, MarkedJobsStored, TypeOK, Listing
<1>4. pc'[w] \notin AtWork
  BY <1>1 DEF NextRun, Return, Goto, TypeOK, AtWork
<1>5. TagsStored'
  BY <1>1 DEF StoredInv, TagsStored, AllSince
<1>6. KeyStored(w)'
  BY <1>4 DEF KeyStored, AtWork
<1> QED BY <1>1, <1>3, <1>5, <1>6 DEF StoredInv, JobsExist

LEMMA WorkStored ==
  ASSUME TypeOK, WorksOnRun, NEW w, Workers = {w}, StoredInv(w),
         Faults \subseteq {"transport", "crash", "evict"}, Work(w)
  PROVE  StoredInv(w)'
<1>1. {"idle", "select", "progress", "store"} \subseteq Steps \ AtWork
  BY DEF Steps, AtWork
<1>2. AbandonPage(w) \/ PageDone(w) => \E l \in Steps \ AtWork : Goto(w, l)
  BY <1>1 DEF AbandonPage, PageDone, Return
<1>3. CASE ReceivePage(w)
  <2>1. /\ pc[w] # "save" /\ UNCHANGED <<version, jobs, synced>>
        /\ \E l \in Steps \ AtWork : Goto(w, l)
    BY <1>1, <1>2, <1>3 DEF ReceivePage, github, database
  <2>2. jobsTag' = jobsTag \/ jobsTag' = NoRuns
    BY <1>3 DEF ReceivePage, RecordPageTag, RecordTag, tags
  <2> QED BY <2>1, <2>2, LeaveRun
<1>4. CASE UpsertWorkflowRuns(w)
  <2>1. /\ pc[w] = "store" /\ UNCHANGED <<version, jobs, synced, jobsTag>>
        /\ pc' = pc \/ \E l \in Steps \ AtWork : Goto(w, l)
    BY <1>2, <1>4 DEF UpsertWorkflowRuns, UpsertRun, github, tags
  <2>2. CASE pc' = pc
    BY <2>1, <2>2 DEF StoredInv, JobsExist, MarkedJobsStored, TagsStored, AllSince,
       KeyStored, AtWork
  <2> QED BY <2>1, <2>2, LeaveRun
<1>5. CASE ReceiveJobs(w)
  BY <1>5, ReceiveRun
<1>6. CASE UpsertWorkflowJobs(w)
  BY <1>6, StoreJob
<1>7. CASE MarkJobsSynced(w)
  BY <1>7, MarkRun
<1> QED BY <1>3, <1>4, <1>5, <1>6, <1>7 DEF Work

\* The step is the poller's or the backfiller's own, or no worker's.
LEMMA NextStored ==
  ASSUME TypeOK, WorksOnRun, ListedExists, NEW w, Workers = {w}, StoredInv(w),
         Faults \subseteq {"transport", "crash", "evict"}, [Next]_vars
  PROVE  StoredInv(w)'
<1>1. {"idle", "loop", "page", "turn"} \subseteq Steps \ AtWork
  BY DEF Steps, AtWork
<1>2. ASSUME NEW v \in Workers, Work(v) PROVE StoredInv(w)'
  BY <1>2, WorkStored
<1>3. CASE Poll \/ SelectRunsForJobFetch \/ PickPage \/ AskPage
           \/ SaveBackfillProgress
  <2>1. /\ pc[w] # "save" /\ UNCHANGED <<version, jobs, synced, jobsTag>>
    BY <1>3 DEF Poll, RequestPage, SelectRunsForJobFetch, PickPage, AskPage,
       SaveBackfillProgress, github, database, tags
  <2>2. \E l \in Steps \ AtWork : Goto(w, l)
    BY <1>1, <1>3 DEF Poll, RequestPage, SelectRunsForJobFetch, PickPage,
       AskPage, SaveBackfillProgress, Return
  <2> QED BY <2>1, <2>2, LeaveRun
<1>4. CASE FetchNextRun
  <2>1. /\ w = "poller" /\ pc[w] # "save"
        /\ UNCHANGED <<version, jobs, synced, jobsTag>>
    BY <1>4 DEF FetchNextRun, github, database, tags
  <2>2. CASE Return(w)
    BY <1>1, <2>1, <2>2, LeaveRun DEF Return
  <2>3. ASSUME NEW r, r = Newest(todo), todo # {}, RequestJobs(w, r),
               run' = [run EXCEPT ![w] = r],
               key' = [key EXCEPT ![w] = page[w][r]]
        PROVE  StoredInv(w)'
    <3>1. r \in Runs
      BY <2>3, NewestRun DEF TypeOK
    <3>2. page[w][r] \in Nat /\ page[w][r] <= version[r]
      BY <3>1, ListingValues DEF TypeOK, ListedExists
    <3>3. run'[w] = r /\ key'[w] = page[w][r]
      BY <2>3 DEF TypeOK
    <3> QED BY <2>1, <2>3, <3>1, <3>2, <3>3, AskRun
  <2> QED BY <1>4, <2>1, <2>2, <2>3 DEF FetchNextRun
<1>5. CASE AskJobs
  <2>1. /\ w = "backfiller" /\ pc[w] = "ask" /\ run[w] \in Runs
        /\ RequestJobs(w, run[w])
        /\ UNCHANGED <<version, jobs, synced, jobsTag, run, key>>
    BY <1>5 DEF AskJobs, WorksOnRun, AtWork, github, database, tags
  <2>2. key[w] \in Nat /\ key[w] <= version[run[w]]
    BY <2>1, WorkerValues DEF StoredInv, KeyStored, AtWork
  <2> QED BY <2>1, <2>2, AskRun
<1>6. CASE PickRun
  <2> DEFINE r == Newest(RunsMissingJobs)
  <2>1. /\ pc[w] # "save" /\ pc'[w] = "ask" /\ run'[w] = r /\ key'[w] = row[r]
        /\ UNCHANGED <<version, jobs, synced, jobsTag>>
    BY <1>6 DEF PickRun, Goto, TypeOK, github, database, tags
  <2>2. r \in Runs /\ row[r] <= version[r]
    BY <1>6, NewestRun DEF PickRun, RunsMissingJobs, ListedExists
  <2>3. KeyStored(w)'
    BY <2>1, <2>2 DEF KeyStored
  <2>4. TagsStored'
    BY <2>1 DEF StoredInv, TagsStored, AllSince
  <2> QED BY <2>1, <2>3, <2>4 DEF StoredInv, JobsExist, MarkedJobsStored
<1>7. CASE \E r \in Runs : UpdateRun(r)
  <2>1. PICK r \in Runs : UpdateRun(r)
    BY <1>7
  <2>2. UNCHANGED <<pc, run, key, answer, unsaved, jobs, synced, jobsTag>>
    BY <2>1 DEF UpdateRun, local, database, tags
  <2>3. \A s \in Runs : version[s] <= version'[s] /\ version'[s] \in Nat
    BY <2>1, Values, Growing, NextTypes, ListingValues DEF TypeOK
  <2>4. JobsExist' /\ TagsStored' /\ MarkedJobsStored'
    BY <2>2, <2>3, Values
       DEF StoredInv, JobsExist, TagsStored, AllSince, MarkedJobsStored
  <2>5. KeyStored(w)'
    BY <2>2, <2>3, Values, WorkerValues
       DEF StoredInv, KeyStored, WorksOnRun, AtWork, AllSince, AllUntil
  <2> QED BY <2>4, <2>5 DEF StoredInv
<1>8. CASE NewDay \/ UNCHANGED vars
  BY <1>8 DEF NewDay, vars, github, local, database, tags, StoredInv, JobsExist,
     TagsStored, AllSince, AllUntil, KeyStored, MarkedJobsStored
<1>9. CASE Crash
  <2>1. /\ pc'[w] = "idle" /\ jobsTag' = NoRuns
        /\ UNCHANGED <<version, jobs, synced>>
    BY <1>9 DEF Crash, RestartLocals, github, database
  <2>2. TagsStored'
    BY <2>1, Values DEF TagsStored, AllSince, NoRuns
  <2>3. KeyStored(w)'
    BY <2>1 DEF KeyStored, AtWork
  <2> QED BY <2>1, <2>2, <2>3 DEF StoredInv, JobsExist, MarkedJobsStored
<1> QED BY <1>2, <1>3, <1>4, <1>5, <1>6, <1>7, <1>8, <1>9
        DEF Next, PollerStep, CollectWorkflows, BackfillerStep

\* A single loop, whichever of the two it is, never marks a run whose jobs are
\* not stored, unless a write fails or a body breaks off.
THEOREM LoneLoopLosesNoJobs ==
  ASSUME NEW w, Workers = {w}, Faults \subseteq {"transport", "crash", "evict"}
  PROVE  Spec => []MarkedJobsStored
<1> DEFINE IInv == TypeOK /\ WorksOnRun /\ ListedExists /\ StoredInv(w)
<1>1. Init => IInv
  <2>1. Init => ListedExists /\ StoredInv(w)
    BY DEF Init, ListedExists, StoredInv, JobsExist, TagsStored, KeyStored,
       MarkedJobsStored, AllSince, NoRuns, AtWork
  <2> QED BY <2>1, InitTypes
<1>2. IInv /\ [Next]_vars => IInv'
  BY NextTypes, NextWorksOnRun, NextListedExists, NextStored
<1>3. IInv => MarkedJobsStored
  BY DEF StoredInv
<1> QED BY <1>1, <1>2, <1>3, PTL DEF Spec

\* A single loop, whichever of the two it is, takes a run off the queue only
\* with its jobs stored (db/backfill.go:155): what two loops can lose, one
\* does not, unless a write fails or a body breaks off.
THEOREM LoneLoopQueuesTheRest ==
  ASSUME NEW w, Workers = {w}, Faults \subseteq {"transport", "crash", "evict"}
  PROVE  Spec => []UnqueuedHasJobs
<1>1. Spec => []TypeOK
  BY TypeCorrect
<1>2. Spec => []MarkedJobsStored
  BY LoneLoopLosesNoJobs
<1>3. TypeOK /\ MarkedJobsStored => UnqueuedHasJobs
  <2> SUFFICES ASSUME TypeOK, MarkedJobsStored, NEW r \in Runs,
                      synced[r] = row[r], NEW j \in Jobs
               PROVE  jobs[r][j] >= row[r]
    BY DEF UnqueuedHasJobs, RunsMissingJobs
  <2>1. jobs[r][j] \in Nat /\ synced[r] \in Nat
    BY Values
  <2> QED
    BY <2>1 DEF MarkedJobsStored
<1> QED
  BY <1>1, <1>2, <1>3, PTL
-----------------------------------------------------------------------------
(* The pages.  An ETag stands for a listing that is stored, or is about to  *)
(* be; and what a lone worker is about to store is no older than the rows.  *)

Within(listing) == \A r \in Runs : listing[r] <= row[r]

PageTagsStored ==
  \A p \in Pages : \A listing \in pageTag[p] :
    Within(listing) \/ \E w \in Workers : pc[w] = "store" /\ page[w] = listing

\* The rows still to be written are some of the page.
BatchHeld(w) ==
  pc[w] = "store" => unsaved[w] # {} /\ unsaved[w] \in SUBSET Listed(page[w])

LEMMA NextRow ==
  ASSUME TypeOK, NEW w \in Workers, BatchHeld(w), pc[w] = "store"
  PROVE  /\ Newest(unsaved[w]) \in unsaved[w]
         /\ Newest(unsaved[w]) \in Runs
         /\ page[w][Newest(unsaved[w])] > 0
BY NewestRun DEF BatchHeld, Listed

\* A step that begins or goes on with a batch keeps the rows of the page.
LEMMA NextBatch ==
  ASSUME TypeOK, NEW w \in Workers, BatchHeld(w),
         \/ pc'[w] # "store"
         \/ /\ UNCHANGED <<pc, page>>
            /\ \/ unsaved' = unsaved
               \/ \E r : Written(w, r) /\ unsaved[w] # {r}
         \/ /\ BeginBatch(w, Listed(page[w])) /\ Listed(page[w]) # {} /\ UNCHANGED page
  PROVE  BatchHeld(w)'
BY DEF BatchHeld, Written, BeginBatch, Listed, TypeOK

PageHeld(w) ==
  /\ pc[w] = "store" => \A r \in Listed(page[w]) \ unsaved[w] : page[w][r] <= row[r]
  /\ pc[w] \in {"page", "store"} =>
       \A r \in Runs : page[w][r] > 0 => row[r] <= page[w][r]
  /\ pc[w] = "page" /\ ~fresh[w] => Within(page[w])

PagesInv(w) == PageTagsStored /\ PageHeld(w) /\ BatchHeld(w)

\* A step after which no page is held, and that stores none.
LEMMA LeavePage ==
  ASSUME TypeOK, NEW w, Workers = {w}, PagesInv(w), pc[w] # "store",
         NEW l \in Steps \ {"page", "store"}, Goto(w, l), row' = row,
         pageTag' = pageTag \/ \A p \in Pages : pageTag'[p] = {}
  PROVE  PagesInv(w)'
<1>1. pc'[w] = l
  BY DEF Goto, TypeOK
<1>2. \A p \in Pages : \A listing \in pageTag[p] : Within(listing)
  BY DEF PagesInv, PageTagsStored
<1> QED
  BY <1>1, <1>2 DEF PagesInv, PageTagsStored, PageHeld, BatchHeld, Within

\* A 304 is given for a listing that is stored; a 200 is the newest there is.
LEMMA AskForPage ==
  ASSUME TypeOK, ListedExists, NEW w, Workers = {w}, PagesInv(w),
         pc[w] # "store", NEW p \in Pages, RequestPage(w, p)
  PROVE  PagesInv(w)'
<1>1. /\ pc'[w] = "page" /\ page'[w] = RunsPage(p)
      /\ fresh'[w] = (RunsPage(p) \notin pageTag[p])
      /\ UNCHANGED <<row, pageTag>>
  BY DEF RequestPage, Goto, TypeOK, database, tags
<1>2. \A q \in Pages : \A listing \in pageTag[q] : Within(listing)
  BY DEF PagesInv, PageTagsStored
<1>3. \A r \in Runs : RunsPage(p)[r] > 0 => row[r] <= RunsPage(p)[r]
  BY DEF RunsPage, ListedExists
<1> QED
  BY <1>1, <1>2, <1>3 DEF PagesInv, PageTagsStored, PageHeld, BatchHeld, Within

LEMMA AnsweredPage ==
  ASSUME TypeOK, NEW w, Workers = {w}, PagesInv(w),
         Faults \subseteq {"transport", "crash", "evict"}, ReceivePage(w)
  PROVE  PagesInv(w)'
<1>0. pc[w] = "page" /\ row' = row
  BY DEF ReceivePage, database
<1>1. {"idle", "select", "progress"} \subseteq Steps \ {"page", "store"}
  BY DEF Steps
<1>2. CASE (AbandonPage(w) \/ PageDone(w)) /\ UNCHANGED tags
  <2>1. \E l \in Steps \ {"page", "store"} : Goto(w, l)
    BY <1>1, <1>2 DEF AbandonPage, PageDone, Return
  <2> QED
    BY <1>0, <1>2, <2>1, LeavePage DEF tags
<1>3. CASE fresh[w] /\ RecordPageTag(w)
           /\ \/ /\ Listed(page[w]) # {} /\ Goto(w, "store") /\ UNCHANGED page
                 /\ BeginBatch(w, Listed(page[w]))
              \/ Listed(page[w]) = {} /\ PageDone(w)
  <2>1. \A p \in Pages : \A listing \in pageTag'[p] :
          listing \in pageTag[p] \/ listing = page[w]
    BY <1>3 DEF RecordPageTag, RecordTag, TypeOK
  <2>2. \A p \in Pages : \A listing \in pageTag[p] : Within(listing)
    BY <1>0 DEF PagesInv, PageTagsStored
  <2>3. CASE Listed(page[w]) # {} /\ Goto(w, "store") /\ UNCHANGED page
             /\ BeginBatch(w, Listed(page[w]))
    <3>1. pc'[w] = "store" /\ unsaved'[w] = Listed(page[w])
      BY <2>3 DEF Goto, BeginBatch, TypeOK
    <3>2. BatchHeld(w)'
      BY <2>3, <3>1 DEF BatchHeld, Listed
    <3> QED
      BY <1>0, <2>1, <2>2, <2>3, <3>1, <3>2
         DEF PagesInv, PageTagsStored, PageHeld, Within, Listed
  <2>4. CASE Listed(page[w]) = {} /\ PageDone(w)
    <3>1. Within(page[w])
      <4>1. \A r \in Runs : page[w][r] \in Nat /\ row[r] \in Nat
        BY ListingValues DEF TypeOK
      <4> QED
        BY <2>4, <4>1 DEF Within, Listed
    <3>2. pc'[w] \in {"select", "idle", "progress"}
      BY <2>4 DEF PageDone, Return, Goto, TypeOK
    <3> QED
      BY <1>0, <2>1, <2>2, <3>1, <3>2
         DEF PagesInv, PageTagsStored, PageHeld, BatchHeld, Within
  <2> QED
    BY <1>3, <2>3, <2>4
<1> QED
  BY <1>2, <1>3 DEF ReceivePage

\* The upserts make rows newer, and end with what the ETag stands for.
LEMMA StoreRow ==
  ASSUME TypeOK, NEW w, Workers = {w}, PagesInv(w), "storage" \notin Faults,
         UpsertWorkflowRuns(w)
  PROVE  PagesInv(w)'
<1> DEFINE i == Newest(unsaved[w])
<1>1. /\ pc[w] = "store" /\ UNCHANGED pageTag /\ Written(w, i)
      /\ row' = [row EXCEPT ![i] = page[w][i]]
      /\ IF unsaved[w] = {i} THEN PageDone(w) ELSE UNCHANGED <<pc, page, fresh>>
  BY DEF UpsertWorkflowRuns, UpsertRun, Fault, tags
<1>2. i \in unsaved[w] /\ i \in Runs /\ page[w][i] > 0
  BY <1>1, NextRow DEF PagesInv
<1> HIDE DEF i
<1>3. \A r \in Runs : page[w][r] \in Nat /\ row[r] \in Nat
  BY ListingValues DEF TypeOK
<1>4. \A r \in Runs : row'[r] = IF r = i THEN page[w][r] ELSE row[r]
  BY <1>1 DEF TypeOK, Listing
<1>5. \A r \in Runs : row[r] <= row'[r]
  BY <1>1, <1>2, <1>3, <1>4 DEF PagesInv, PageHeld
<1>6. unsaved'[w] = unsaved[w] \ {i}
  BY <1>1 DEF Written, TypeOK
<1>7. \A r \in Listed(page[w]) \ unsaved'[w] : page[w][r] <= row'[r]
  BY <1>1, <1>3, <1>4, <1>6 DEF PagesInv, PageHeld, Listed
<1>8. \A listing \in Listing : Within(listing) => \A r \in Runs : listing[r] <= row'[r]
  BY <1>3, <1>4, <1>5, ListingValues DEF Within
<1>9. \A p \in Pages : pageTag[p] \subseteq Listing
  BY DEF TypeOK
<1>10. CASE unsaved[w] # {i}
  <2>1. UNCHANGED <<pc, page, fresh>>
    BY <1>1, <1>10
  <2>2. BatchHeld(w)'
    BY <1>1, <1>10, <2>1, NextBatch DEF PagesInv
  <2>3. PageTagsStored'
    BY <1>1, <1>8, <1>9, <2>1 DEF PagesInv, PageTagsStored, Within
  <2>4. \A r \in Runs : page'[w][r] > 0 => row'[r] <= page'[w][r]
    BY <1>1, <1>3, <1>4, <2>1 DEF PagesInv, PageHeld
  <2> QED
    BY <1>1, <1>7, <2>1, <2>2, <2>3, <2>4 DEF PagesInv, PageHeld, Listed
<1>11. CASE unsaved[w] = {i}
  <2>1. pc'[w] \in {"select", "idle", "progress"}
    BY <1>1, <1>11 DEF PageDone, Return, Goto, TypeOK
  <2>2. \A r \in Runs : page[w][r] <= row'[r]
    BY <1>3, <1>4, <1>6, <1>7, <1>11 DEF Listed
  <2>3. \A p \in Pages : \A listing \in pageTag[p] : \A r \in Runs :
          listing[r] <= row'[r]
    BY <1>1, <1>8, <1>9, <2>2 DEF PagesInv, PageTagsStored
  <2> QED
    BY <1>1, <2>1, <2>3 DEF PagesInv, PageTagsStored, PageHeld, BatchHeld, Within
<1> QED
  BY <1>10, <1>11

LEMMA NextPages ==
  ASSUME TypeOK, ListedExists, NEW w, Workers = {w}, PagesInv(w),
         Faults \subseteq {"transport", "crash", "evict"}, [Next]_vars
  PROVE  PagesInv(w)'
<1>1. {"idle", "loop", "jobs", "save", "mark", "ask", "turn"}
        \subseteq Steps \ {"page", "store"}
  BY DEF Steps
<1>2. CASE ReceivePage(w) \/ UpsertWorkflowRuns(w)
  BY <1>2, AnsweredPage, StoreRow
<1>3. CASE ReceiveJobs(w) \/ UpsertWorkflowJobs(w) \/ MarkJobsSynced(w)
  <2>1. pc[w] # "store" /\ row' = row
    BY <1>3 DEF ReceiveJobs, UpsertWorkflowJobs, MarkJobsSynced, database
  <2>2. pageTag' = pageTag \/ \A p \in Pages : pageTag'[p] = {}
    BY <1>3 DEF ReceiveJobs, UpsertWorkflowJobs, MarkJobsSynced, RecordJobsTag,
       RecordTag, tags
  <2>3. \E l \in Steps \ {"page", "store"} : Goto(w, l)
    <3>1. pc[w] = "save" /\ pc' = pc => Goto(w, "save")
      BY DEF Goto, TypeOK
    <3> QED
      BY <1>1, <1>3, <3>1 DEF ReceiveJobs, UpsertWorkflowJobs, MarkJobsSynced,
         NextRun, Return
  <2> QED
    BY <2>1, <2>2, <2>3, LeavePage
<1>4. CASE SelectRunsForJobFetch \/ FetchNextRun \/ PickRun \/ AskJobs
           \/ PickPage \/ SaveBackfillProgress
  <2>1. pc[w] # "store" /\ UNCHANGED <<row, pageTag>>
    BY <1>4 DEF SelectRunsForJobFetch, FetchNextRun, PickRun, AskJobs, PickPage,
       SaveBackfillProgress, database, tags
  <2>2. \E l \in Steps \ {"page", "store"} : Goto(w, l)
    BY <1>1, <1>4 DEF SelectRunsForJobFetch, FetchNextRun, PickRun, AskJobs,
       PickPage, SaveBackfillProgress, RequestJobs, Return
  <2> QED
    BY <2>1, <2>2, LeavePage
<1>5. CASE Poll
  <2>1. 1 \in Pages
    BY ConstantsAssumption DEF Pages
  <2> QED
    BY <1>5, <2>1, AskForPage DEF Poll
<1>6. CASE AskPage
  <2>1. saving.next \in Pages
    BY DEF TypeOK, Progress
  <2> QED
    BY <1>6, <2>1, AskForPage DEF AskPage
<1>7. CASE (\E r \in Runs : UpdateRun(r)) \/ UNCHANGED vars
  <2>1. UNCHANGED <<row, pageTag, pc, page, fresh, unsaved>>
    BY <1>7 DEF UpdateRun, database, tags, local, vars
  <2> QED
    BY <2>1 DEF PagesInv, PageTagsStored, PageHeld, BatchHeld, Within, Listed
<1>8. CASE NewDay
  <2>1. pageTag' = [p \in Pages |-> {}] /\ UNCHANGED <<row, pc, page, fresh, unsaved>>
    BY <1>8 DEF NewDay, local
  <2> QED
    BY <2>1 DEF PagesInv, PageTagsStored, PageHeld, BatchHeld, Within, Listed
<1>9. CASE Crash
  <2>1. pageTag' = [p \in Pages |-> {}] /\ pc'[w] = "idle"
    BY <1>9 DEF Crash, RestartLocals
  <2> QED
    BY <2>1 DEF PagesInv, PageTagsStored, PageHeld, BatchHeld
<1> QED
  BY <1>2, <1>3, <1>4, <1>5, <1>6, <1>7, <1>8, <1>9
     DEF Next, PollerStep, CollectWorkflows, BackfillerStep, Work

\* A single loop is told that a page has not changed only when its runs are
\* stored (backfill.go:442), unless a write fails or a body breaks off.
THEOREM LoneLoopStoresUnchanged ==
  ASSUME NEW w, Workers = {w}, Faults \subseteq {"transport", "crash", "evict"}
  PROVE  Spec => []UnchangedPageIsStored
<1> DEFINE IInv == TypeOK /\ WorksOnRun /\ ListedExists /\ PagesInv(w)
<1>1. Init => IInv
  <2>1. Init => ListedExists /\ PagesInv(w)
    BY DEF Init, ListedExists, PagesInv, PageTagsStored, PageHeld, BatchHeld, NoRuns
  <2> QED
    BY <2>1, InitTypes
<1>2. IInv /\ [Next]_vars => IInv'
  BY NextTypes, NextWorksOnRun, NextListedExists, NextPages
<1>3. IInv => UnchangedPageIsStored
  <2> SUFFICES ASSUME IInv, pc[w] = "page", ~fresh[w], NEW r \in Listed(page[w])
               PROVE  row[r] >= page[w][r]
    BY DEF UnchangedPageIsStored
  <2>1. r \in Runs /\ page[w][r] \in Nat /\ row[r] \in Nat
    BY ListingValues DEF Listed, TypeOK
  <2> QED
    BY <2>1 DEF PagesInv, PageHeld, Within
<1> QED
  BY <1>1, <1>2, <1>3, PTL DEF Spec
-----------------------------------------------------------------------------
(* Nothing goes back.  What a lone worker holds is no older than the rows,  *)
(* the key it works with is that of the row, and the answer it is about to  *)
(* store is no older than the jobs.                                         *)

Selecting == {"select", "loop", "jobs", "save", "mark"}

RowsHeld(w) ==
  /\ BatchHeld(w)
  /\ pc[w] = "store" => \A r \in Listed(page[w]) \ unsaved[w] : page[w][r] = row[r]
  /\ \A r \in Runs : page[w][r] > 0 =>
       /\ pc[w] \in {"page", "store"} => row[r] <= page[w][r]
       /\ w = "poller" /\ pc[w] \in Selecting => row[r] = page[w][r]
  /\ w = "poller" /\ pc[w] \in Selecting \ {"select"} => todo \subseteq Listed(page[w])

KeyHeld(w) ==
  /\ pc[w] \in AtWork => key[w] = row[run[w]]
  /\ \A r \in Runs : synced[r] <= row[r]

AnswerHeld(w) ==
  /\ JobsExist
  /\ pc[w] \in {"jobs", "save"} /\ answer[w] # 0 =>
       AllUntil(answer[w], run[w]) /\ answer[w] <= version[run[w]]
  /\ pc[w] = "save" => answer[w] # 0

ForwardInv(w) == RowsHeld(w) /\ KeyHeld(w) /\ AnswerHeld(w)

LEMMA TableValues ==
  ASSUME TypeOK, NEW r \in Runs
  PROVE  row[r] \in Nat /\ \A w \in Workers : page[w][r] \in Nat
BY ListingValues DEF TypeOK

\* A step that leaves the tables alone takes nothing back.
LEMMA NothingStored ==
  ASSUME TypeOK, UNCHANGED <<row, jobs, synced>>
  PROVE  Forward
BY Values, TableValues DEF Forward

\* A step after which the worker holds nothing.
LEMMA HoldNothing ==
  ASSUME TypeOK, NEW w, ForwardInv(w), pc'[w] \in {"idle", "turn", "progress"},
         UNCHANGED <<version, row, jobs, synced>>
  PROVE  ForwardInv(w)'
BY DEF ForwardInv, RowsHeld, BatchHeld, KeyHeld, AnswerHeld, AllUntil, JobsExist,
       AtWork, Selecting

\* A step within the page or within the work on a run.
LEMMA HoldOn ==
  ASSUME TypeOK, NEW w, ForwardInv(w),
         UNCHANGED <<version, row, jobs, synced, page, key, answer, run>>,
         \/ pc' = pc /\ UNCHANGED <<todo, unsaved>>
         \/ /\ pc[w] = "page" /\ pc'[w] = "store"
            /\ unsaved'[w] = Listed(page[w]) /\ Listed(page[w]) # {}
         \/ pc[w] = "page" /\ pc'[w] = "select" /\ Listed(page[w]) = {}
         \/ pc[w] = "jobs" /\ pc'[w] = "save" /\ answer[w] # 0 /\ todo' = todo
         \/ pc[w] \in {"jobs", "save"} /\ pc'[w] = "mark" /\ todo' = todo
  PROVE  ForwardInv(w)'
BY DEF ForwardInv, RowsHeld, BatchHeld, KeyHeld, AnswerHeld, AllUntil, JobsExist,
       AtWork, Selecting, Listed

\* The page that is asked for is GitHub's newest.
LEMMA ForwardPage ==
  ASSUME TypeOK, ListedExists, NEW w, Workers = {w}, ForwardInv(w), NEW p,
         RequestPage(w, p)
  PROVE  ForwardInv(w)' /\ Forward
<1>1. /\ pc'[w] = "page" /\ page'[w] = RunsPage(p)
      /\ UNCHANGED <<version, row, jobs, synced>>
  BY DEF RequestPage, Goto, TypeOK, database, github
<1>2. \A r \in Runs : RunsPage(p)[r] > 0 => row[r] <= RunsPage(p)[r]
  BY DEF RunsPage, ListedExists
<1> QED
  BY <1>1, <1>2, NothingStored
     DEF ForwardInv, RowsHeld, BatchHeld, KeyHeld, AnswerHeld, AllUntil, JobsExist,
       AtWork, Selecting

LEMMA ForwardReceivePage ==
  ASSUME TypeOK, NEW w, Workers = {w}, ForwardInv(w), ReceivePage(w)
  PROVE  ForwardInv(w)' /\ Forward
<1>1. pc[w] = "page" /\ UNCHANGED <<version, row, jobs, synced>>
  BY DEF ReceivePage, database, github
<1>2. CASE AbandonPage(w)
  <2>1. pc'[w] \in {"idle", "progress"}
    BY <1>2 DEF AbandonPage, Return, Goto, TypeOK
  <2> QED
    BY <1>1, <2>1, HoldNothing, NothingStored
<1>3. CASE /\ Goto(w, "store") /\ BeginBatch(w, Listed(page[w])) /\ Listed(page[w]) # {}
           /\ UNCHANGED <<page, fresh, run, key, answer, todo, budget, saving>>
  BY <1>1, <1>3, HoldOn, NothingStored DEF Goto, BeginBatch, TypeOK
<1>4. CASE PageDone(w) /\ (Listed(page[w]) = {} \/ ~fresh[w])
  <2>1. \/ pc'[w] \in {"idle", "progress"}
        \/ /\ pc'[w] = "select" /\ Listed(page[w]) = {}
           /\ UNCHANGED <<page, key, answer, run>>
    BY <1>4 DEF PageDone, Return, Goto, TypeOK
  <2> QED
    BY <1>1, <2>1, HoldNothing, HoldOn, NothingStored
<1> QED
  BY <1>2, <1>3, <1>4 DEF ReceivePage

\* An upsert brings a row forward to the page.
LEMMA ForwardRows ==
  ASSUME TypeOK, NEW w, Workers = {w}, ForwardInv(w), UpsertWorkflowRuns(w)
  PROVE  ForwardInv(w)' /\ Forward
<1> DEFINE i == Newest(unsaved[w])
<1>1. pc[w] = "store" /\ UNCHANGED <<version, jobs, synced>>
  BY DEF UpsertWorkflowRuns, UpsertRun, github
<1>2. \A r \in Runs : /\ row[r] \in Nat /\ page[w][r] \in Nat /\ synced[r] \in Nat
                      /\ \A j \in Jobs : jobs[r][j] \in Nat
  BY TableValues, Values
<1>3. i \in unsaved[w] /\ i \in Runs /\ page[w][i] > 0
  BY <1>1, NextRow DEF ForwardInv, RowsHeld
<1>4. \/ /\ row' = [row EXCEPT ![i] = page[w][i]] /\ Written(w, i)
         /\ IF unsaved[w] = {i} THEN PageDone(w)
            ELSE UNCHANGED <<pc, page, fresh, run, key, answer, todo>>
      \/ row' = row /\ AbandonPage(w)
  BY DEF UpsertWorkflowRuns, UpsertRun
<1> HIDE DEF i
<1>5. \A r \in Runs : row'[r] = row[r] \/ (r = i /\ row'[r] = page[w][r])
  BY <1>4 DEF TypeOK, Listing
<1>6. \A r \in Runs : row[r] <= row'[r]
  BY <1>1, <1>2, <1>3, <1>5 DEF ForwardInv, RowsHeld
<1>7. Forward
  BY <1>1, <1>2, <1>6 DEF Forward
<1>8. /\ \A r \in Runs : synced'[r] <= row'[r]
      /\ JobsExist'
  BY <1>1, <1>2, <1>5, <1>6 DEF ForwardInv, KeyHeld, AnswerHeld, JobsExist
<1>9. CASE pc'[w] \in {"idle", "progress"}
  BY <1>7, <1>8, <1>9
     DEF ForwardInv, RowsHeld, BatchHeld, KeyHeld, AnswerHeld, AtWork, Selecting
<1>10. CASE /\ row' = [row EXCEPT ![i] = page[w][i]] /\ Written(w, i)
            /\ UNCHANGED page /\ pc'[w] \in {"store", "select"}
            /\ pc'[w] = "select" => unsaved[w] = {i}
            /\ pc'[w] = "store" => unsaved[w] # {i} /\ UNCHANGED pc
  <2>1. unsaved'[w] = unsaved[w] \ {i}
    BY <1>10 DEF Written, TypeOK
  <2>2. \A r \in Runs : row'[r] = IF r = i THEN page[w][r] ELSE row[r]
    BY <1>10 DEF TypeOK, Listing
  <2>3. \A r \in Listed(page[w]) \ unsaved'[w] : page[w][r] = row'[r]
    BY <1>1, <2>1, <2>2 DEF ForwardInv, RowsHeld, Listed
  <2>4. \A r \in Runs : page[w][r] > 0 => row'[r] <= page[w][r]
    BY <1>1, <1>2, <2>2 DEF ForwardInv, RowsHeld
  <2>5. pc'[w] = "select" => \A r \in Runs : page[w][r] > 0 => row'[r] = page[w][r]
    BY <1>10, <2>1, <2>3 DEF Listed
  <2>6. BatchHeld(w)'
    BY <1>10, NextBatch DEF ForwardInv, RowsHeld
  <2>7. RowsHeld(w)'
    BY <1>10, <2>3, <2>4, <2>5, <2>6 DEF RowsHeld, Selecting, Listed
  <2> QED
    BY <1>7, <1>8, <1>10, <2>7 DEF ForwardInv, KeyHeld, AnswerHeld, AtWork
<1>11. \/ pc'[w] \in {"idle", "progress"}
       \/ /\ row' = [row EXCEPT ![i] = page[w][i]] /\ Written(w, i)
          /\ UNCHANGED page /\ pc'[w] \in {"store", "select"}
          /\ pc'[w] = "select" => unsaved[w] = {i}
          /\ pc'[w] = "store" => unsaved[w] # {i} /\ UNCHANGED pc
  BY <1>1, <1>4 DEF PageDone, AbandonPage, Return, Goto, TypeOK
<1> QED
  BY <1>7, <1>9, <1>10, <1>11

LEMMA ForwardReceiveJobs ==
  ASSUME TypeOK, NEW w, Workers = {w}, ForwardInv(w), ReceiveJobs(w)
  PROVE  ForwardInv(w)' /\ Forward
<1>1. pc[w] = "jobs" /\ UNCHANGED <<version, row, jobs, synced>>
  BY DEF ReceiveJobs, database, github
<1>2. CASE Return(w)
  <2>1. pc'[w] = "idle"
    BY <1>2 DEF Return, Goto, TypeOK
  <2> QED
    BY <1>1, <2>1, HoldNothing, NothingStored
<1>3. CASE /\ (Goto(w, "save") /\ answer[w] # 0) \/ Goto(w, "mark")
           /\ UNCHANGED <<page, fresh, run, key, answer, todo, budget>>
  BY <1>1, <1>3, HoldOn, NothingStored DEF Goto, TypeOK
<1> QED
  BY <1>2, <1>3 DEF ReceiveJobs

\* An upsert brings a job forward to the answer.
LEMMA ForwardJobs ==
  ASSUME TypeOK, WorksOnRun, NEW w, Workers = {w}, ForwardInv(w), UpsertWorkflowJobs(w)
  PROVE  ForwardInv(w)' /\ Forward
<1>1. /\ pc[w] = "save" /\ run[w] \in Runs /\ UNCHANGED <<version, row, synced>>
      /\ answer[w] # 0 /\ answer[w] <= version[run[w]]
      /\ \A j \in Jobs : jobs[run[w]][j] <= answer[w]
  BY DEF UpsertWorkflowJobs, WorksOnRun, AtWork, github, ForwardInv, AnswerHeld, AllUntil
<1>2. \A r \in Runs : /\ row[r] \in Nat /\ synced[r] \in Nat /\ version[r] \in Nat
                      /\ \A j \in Jobs : jobs[r][j] \in Nat
  BY TableValues, Values
<1>3. \A r \in Runs : \A j \in Jobs :
        jobs'[r][j] = jobs[r][j] \/ (r = run[w] /\ jobs'[r][j] = answer[w])
  <2>1. PICK i : jobs' = jobs \/ jobs' = [jobs EXCEPT ![run[w]][i] = answer[w]]
    BY DEF UpsertWorkflowJobs
  <2> QED
    BY <1>1, <2>1 DEF TypeOK
<1>4. /\ \A r \in Runs : \A j \in Jobs : jobs[r][j] <= jobs'[r][j]
      /\ JobsExist' /\ \A j \in Jobs : jobs'[run[w]][j] <= answer[w]
  <2>1. answer[w] \in Nat
    BY WorkerValues
  <2>2. \A r \in Runs : \A j \in Jobs : jobs[r][j] <= version[r]
    BY DEF ForwardInv, AnswerHeld, JobsExist
  <2> QED
    BY <1>1, <1>2, <1>3, <2>1, <2>2 DEF JobsExist
<1>5. Forward
  BY <1>1, <1>2, <1>4 DEF Forward
<1>6. \/ pc'[w] = "idle"
      \/ pc'[w] \in {"save", "mark"} /\ UNCHANGED <<page, run, key, answer, todo>>
  BY <1>1 DEF UpsertWorkflowJobs, Return, Goto, TypeOK
<1>7. CASE pc'[w] = "idle"
  BY <1>1, <1>4, <1>5, <1>7
     DEF ForwardInv, RowsHeld, BatchHeld, KeyHeld, AnswerHeld, AtWork, Selecting
<1>8. CASE pc'[w] \in {"save", "mark"} /\ UNCHANGED <<page, run, key, answer, todo>>
  BY <1>1, <1>4, <1>5, <1>8
     DEF ForwardInv, RowsHeld, BatchHeld, KeyHeld, AnswerHeld, AllUntil, AtWork, Selecting
<1> QED
  BY <1>6, <1>7, <1>8

\* The mark is the key of the row.
LEMMA ForwardMark ==
  ASSUME TypeOK, WorksOnRun, NEW w, Workers = {w}, ForwardInv(w), MarkJobsSynced(w)
  PROVE  ForwardInv(w)' /\ Forward
<1>1. /\ pc[w] = "mark" /\ run[w] \in Runs /\ UNCHANGED <<version, row, jobs>>
      /\ key[w] = row[run[w]]
  BY DEF MarkJobsSynced, WorksOnRun, AtWork, github, ForwardInv, KeyHeld
<1>2. \A r \in Runs : /\ row[r] \in Nat /\ synced[r] \in Nat
                      /\ \A j \in Jobs : jobs[r][j] \in Nat
  BY TableValues, Values
<1>3. \A r \in Runs : synced'[r] = synced[r] \/ synced'[r] = row[r]
  BY <1>1 DEF MarkJobsSynced, MarkVersion, TypeOK, Listing
<1>4. /\ \A r \in Runs : synced[r] <= synced'[r] /\ synced'[r] <= row'[r]
      /\ JobsExist'
  BY <1>1, <1>2, <1>3 DEF ForwardInv, KeyHeld, AnswerHeld, JobsExist
<1>5. Forward
  BY <1>1, <1>2, <1>4 DEF Forward
<1>6. \/ pc'[w] = "idle"
      \/ w = "poller" /\ pc'[w] = "loop" /\ UNCHANGED <<page, todo>>
  BY DEF MarkJobsSynced, NextRun, Return, Goto, TypeOK
<1> QED
  BY <1>1, <1>4, <1>5, <1>6
     DEF ForwardInv, RowsHeld, BatchHeld, KeyHeld, AnswerHeld, AllUntil,
       AtWork, Selecting

\* The poller's next run is one of its page, the backfiller's one of the rows.
LEMMA ForwardPick ==
  ASSUME TypeOK, NEW w, Workers = {w}, ForwardInv(w), FetchNextRun \/ PickRun \/ AskJobs,
         WorksOnRun
  PROVE  ForwardInv(w)' /\ Forward
<1>1. UNCHANGED <<version, row, jobs, synced>>
  BY DEF FetchNextRun, PickRun, AskJobs, database, github
<1>2. Forward
  BY <1>1, NothingStored
<1>3. \A r \in Runs : \A j \in Jobs : jobs[r][j] <= version[r]
  BY DEF ForwardInv, AnswerHeld, JobsExist
<1>4. ASSUME NEW r \in Runs, RequestJobs(w, r), run'[w] = r
      PROVE  AnswerHeld(w)'
  <2>1. /\ pc'[w] = "jobs"
        /\ answer'[w] = (IF jobsTag[r] = version[r] THEN 0 ELSE version[r])
    BY <1>4 DEF RequestJobs, Goto, TypeOK
  <2> QED
    BY <1>1, <1>3, <1>4, <2>1, Values DEF AnswerHeld, AllUntil, JobsExist
<1>5. CASE FetchNextRun
  <2>1. w = "poller" /\ pc[w] = "loop"
    BY <1>5 DEF FetchNextRun
  <2>2. CASE Return(w)
    <3>1. pc'[w] = "idle"
      BY <2>2 DEF Return, Goto, TypeOK
    <3> QED
      BY <1>1, <1>2, <3>1, HoldNothing
  <2>3. ASSUME NEW r, r = Newest(todo), todo # {}, RequestJobs(w, r),
               todo' = todo \ {r}, UNCHANGED page,
               run' = [run EXCEPT ![w] = r],
               key' = [key EXCEPT ![w] = page[w][r]]
        PROVE  ForwardInv(w)'
    <3>1. r \in Runs /\ r \in todo
      BY <2>3, NewestRun DEF TypeOK
    <3>2. pc'[w] = "jobs" /\ run'[w] = r /\ key'[w] = page[w][r]
      BY <2>3 DEF TypeOK, RequestJobs, Goto
    <3>3. page[w][r] = row[r]
      BY <2>1, <3>1 DEF ForwardInv, RowsHeld, Selecting, Listed
    <3>4. RowsHeld(w)'
      BY <1>1, <2>1, <2>3, <3>2 DEF ForwardInv, RowsHeld, BatchHeld, Selecting
    <3>5. KeyHeld(w)'
      BY <1>1, <3>2, <3>3 DEF ForwardInv, KeyHeld
    <3> QED
      BY <1>4, <2>3, <3>1, <3>2, <3>4, <3>5 DEF ForwardInv
  <2> QED
    BY <1>2, <1>5, <2>1, <2>2, <2>3 DEF FetchNextRun
<1>6. CASE PickRun
  <2>1. /\ w = "backfiller" /\ pc'[w] = "ask" /\ run'[w] = Newest(RunsMissingJobs)
        /\ key'[w] = row[Newest(RunsMissingJobs)]
    BY <1>6 DEF PickRun, Goto, TypeOK
  <2> QED
    BY <1>1, <1>2, <2>1
       DEF ForwardInv, RowsHeld, BatchHeld, KeyHeld, AnswerHeld, JobsExist
<1>7. CASE AskJobs
  <2>1. /\ w = "backfiller" /\ pc[w] = "ask" /\ run[w] \in Runs
        /\ RequestJobs(w, run[w]) /\ pc'[w] = "jobs" /\ UNCHANGED <<run, key>>
    BY <1>7 DEF AskJobs, RequestJobs, Goto, WorksOnRun, AtWork, TypeOK
  <2>2. RowsHeld(w)'
    BY <2>1 DEF RowsHeld, BatchHeld
  <2>3. KeyHeld(w)'
    BY <1>1, <2>1 DEF ForwardInv, KeyHeld, AtWork
  <2> QED
    BY <1>2, <1>4, <2>1, <2>2, <2>3 DEF ForwardInv
<1> QED
  BY <1>2, <1>5, <1>6, <1>7

LEMMA NextForward ==
  ASSUME TypeOK, WorksOnRun, ListedExists, NEW w, Workers = {w}, ForwardInv(w), [Next]_vars
  PROVE  ForwardInv(w)' /\ Forward
<1>1. CASE ReceivePage(w) \/ UpsertWorkflowRuns(w) \/ ReceiveJobs(w)
           \/ UpsertWorkflowJobs(w) \/ MarkJobsSynced(w)
  BY <1>1, ForwardReceivePage, ForwardRows, ForwardReceiveJobs, ForwardJobs, ForwardMark
<1>2. CASE FetchNextRun \/ PickRun \/ AskJobs
  BY <1>2, ForwardPick
<1>3. CASE Poll \/ AskPage
  BY <1>3, ForwardPage DEF Poll, AskPage
<1>4. CASE PickPage \/ SaveBackfillProgress
  <2>1. pc'[w] \in {"turn", "idle"} /\ UNCHANGED <<version, row, jobs, synced>>
    BY <1>4 DEF PickPage, SaveBackfillProgress, Return, Goto, TypeOK, github, database
  <2> QED
    BY <2>1, HoldNothing, NothingStored
<1>5. CASE SelectRunsForJobFetch
  <2>1. w = "poller" /\ pc[w] = "select" /\ UNCHANGED <<version, row, jobs, synced>>
    BY <1>5 DEF SelectRunsForJobFetch, github, database
  <2>2. CASE Return(w)
    <3>1. pc'[w] = "idle"
      BY <2>2 DEF Return, Goto, TypeOK
    <3> QED
      BY <2>1, <3>1, HoldNothing, NothingStored
  <2>3. CASE Goto(w, "loop") /\ todo' \subseteq Listed(page[w]) /\ UNCHANGED page
    <3>1. pc'[w] = "loop"
      BY <2>3 DEF Goto, TypeOK
    <3> QED
      BY <2>1, <2>3, <3>1, NothingStored
         DEF ForwardInv, RowsHeld, BatchHeld, KeyHeld, AnswerHeld, AllUntil, JobsExist,
       AtWork, Selecting
  <2>4. Return(w) \/ (Goto(w, "loop") /\ todo' \subseteq Listed(page[w]) /\ UNCHANGED page)
    BY <1>5, <2>1 DEF SelectRunsForJobFetch
  <2> QED
    BY <2>2, <2>3, <2>4
<1>6. CASE \E r \in Runs : UpdateRun(r)
  <2>1. UNCHANGED <<row, jobs, synced, pc, page, run, key, answer, unsaved, todo>>
    BY <1>6 DEF UpdateRun, database, local
  <2>2. \A r \in Runs : /\ version[r] <= version'[r] /\ version[r] \in Nat
                        /\ version'[r] \in Nat
                        /\ \A j \in Jobs : jobs[r][j] \in Nat
    BY Growing, NextTypes, Values, ListingValues DEF TypeOK
  <2>3. AnswerHeld(w)'
    BY <2>1, <2>2, WorkerValues
       DEF ForwardInv, AnswerHeld, AllUntil, JobsExist, WorksOnRun, AtWork
  <2> QED
    BY <2>1, <2>3, NothingStored DEF ForwardInv, RowsHeld, BatchHeld, KeyHeld, Listed
<1>7. CASE NewDay \/ UNCHANGED vars
  <2>1. UNCHANGED <<version, row, jobs, synced, pc, page, run, key, answer,
                    unsaved, todo>>
    BY <1>7 DEF NewDay, vars, github, database, local
  <2> QED
    BY <2>1, HoldOn, NothingStored
<1>8. CASE Crash
  <2>1. pc'[w] = "idle" /\ UNCHANGED <<version, row, jobs, synced>>
    BY <1>8 DEF Crash, RestartLocals, github, database
  <2> QED
    BY <2>1, HoldNothing, NothingStored
<1> QED
  BY <1>1, <1>2, <1>3, <1>4, <1>5, <1>6, <1>7, <1>8
     DEF Next, PollerStep, CollectWorkflows, BackfillerStep, Work

\* A single loop, whichever of the two it is, takes nothing back, whatever fails
\* and wherever a batch breaks off: no row, no job and no mark of a run becomes
\* older.  Neither the upserts nor the mark compare with what is stored
\* (db/store.go:171, db/backfill.go:258).
THEOREM LoneLoopNeverGoesBack ==
  ASSUME NEW w, Workers = {w}
  PROVE  Spec => NeverGoesBack
<1> DEFINE IInv == TypeOK /\ WorksOnRun /\ ListedExists /\ ForwardInv(w)
<1>1. Init => IInv
  <2>1. Init => ListedExists /\ ForwardInv(w)
    BY DEF Init, ListedExists, ForwardInv, RowsHeld, BatchHeld, KeyHeld, AnswerHeld,
       JobsExist, NoRuns, AtWork, Selecting
  <2> QED
    BY <2>1, InitTypes
<1>2. IInv /\ [Next]_vars => IInv' /\ Forward
  BY NextTypes, NextWorksOnRun, NextListedExists, NextForward
<1>3. Spec => [][Forward]_vars
  BY <1>1, <1>2, PTL DEF Spec
<1> QED
  BY <1>3 DEF NeverGoesBack
=============================================================================
