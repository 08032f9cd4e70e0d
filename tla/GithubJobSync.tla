--------------------------- MODULE GithubJobSync ---------------------------
(***************************************************************************)
(* How the workflow runs of one repository, and the jobs of each run, get  *)
(* from GitHub into PostgreSQL.  Two goroutines of github_exporter do it,  *)
(* sharing one HTTP client (its ETag map) and one database and no lock:    *)
(*                                                                         *)
(*   poller      every interval: page 1 of the runs, then the jobs of the  *)
(*               runs that changed, up to a budget (src/github/poller.go); *)
(*   backfiller  every tick one request: the jobs of the newest run that   *)
(*               misses them, else the next page of history                *)
(*               (src/github/backfill.go).                                 *)
(*                                                                         *)
(* A run is abstracted to its number (a larger one was created later) and  *)
(* the version of its last update (its updated_at, the SyncKey); version 0 *)
(* means "does not exist".  A job of a run is the version of the answer it *)
(* was last written from.  Every HTTP request is two steps, GitHub's       *)
(* answer and the client's receipt of it; every SQL statement is one step, *)
(* also the upserts of a batch, which are one autocommitted statement for  *)
(* each row (src/github/db/bulk.go).                                       *)
(***************************************************************************)
EXTENDS Integers, FiniteSets, Functions

CONSTANTS NumRuns,      \* runs of the repository inside the horizon
          MaxVersion,   \* bound on the updates of one run
          MaxUpdates,   \* bound on the updates of all runs
          RunsPerPage,  \* runs on a page of the listing
          MaxPages,     \* maxBackfillPages
          PageBound,    \* bound on the page numbers the model tells apart
          JobsPerRun,   \* jobs of a run
          JobBudget,    \* jobs requests one poll may issue
          Workers,      \* the goroutines that run
          Poison,       \* runs whose jobs request GitHub always refuses
          Faults,       \* the kinds of failure that may happen
          MaxFaults     \* bound on how many of them happen

FaultKinds == {"transport", "body", "storage", "crash", "evict"}

ASSUME ConstantsAssumption ==
  /\ NumRuns \in Nat /\ MaxVersion \in Nat /\ MaxUpdates \in Nat
  /\ RunsPerPage \in Nat \ {0} /\ MaxPages \in Nat \ {0}
  /\ PageBound \in Nat /\ PageBound >= MaxPages
  /\ JobsPerRun \in Nat \ {0} /\ JobBudget \in Nat
  /\ Workers \subseteq {"poller", "backfiller"}
  /\ Poison \subseteq 1..NumRuns
  /\ Faults \subseteq FaultKinds
  /\ MaxFaults \in Nat

Runs == 1..NumRuns
Jobs == 1..JobsPerRun
Versions == 0..MaxVersion
Pages == 1..PageBound
Listing == [Runs -> Versions]   \* a page: the version of each run on it
Progress == [next : Pages, complete : BOOLEAN]

VARIABLES
  version,   \* GitHub: the current version of each run
  row,       \* workflow_runs: the stored version of each run
  jobs,      \* workflow_jobs: the stored version of each job, 0 for no row
  synced,    \* workflow_runs.jobs_synced_at, 0 for NULL
  progress,  \* backfill_progress: the next page, the walk is complete
  aged,      \* backfill_progress.completed_at is refreshAfter (a day) ago
  pageTag,   \* Client.etags for the page URLs: what was last answered, if any
  jobsTag,   \* Client.etags for the jobs URLs, 0 for no entry
  pc,        \* where each worker is
  page,      \* the page each worker was answered
  fresh,     \* whether that answer is a 200 rather than a 304
  run,       \* the run each worker fetches the jobs of, 0 for none
  key,       \* the SyncKey it will record for it
  answer,    \* the jobs it was answered, 0 for a 304
  unsaved,   \* the rows of the batch of upserts each worker has still to write
  todo,      \* poller: the selected runs it has not fetched yet
  budget,    \* poller: jobBudget.remaining
  saving,    \* backfiller: the progress it is about to save
  answered,  \* history: the newest jobs GitHub ever sent for each run
  faults     \* how many failures have happened

github == <<version>>
database == <<row, jobs, synced, progress, aged>>
tags == <<pageTag, jobsTag>>
local == <<pc, page, fresh, run, key, answer, unsaved, todo, budget, saving>>
vars == <<github, database, tags, local, answered, faults>>

NoRuns == [r \in Runs |-> 0]
Newest(S) == CHOOSE r \in S : \A s \in S : s <= r
Listed(p) == {r \in Runs : p[r] > 0}

\* Page p of the runs endpoint, newest run first.
RunsPage(p) ==
  [r \in Runs |->
     IF /\ version[r] > 0
        /\ Cardinality({s \in Listed(version) : s > r}) \div RunsPerPage = p - 1
     THEN version[r] ELSE 0]

\* RunsMissingJobs: the work queue derived from the runs table.
RunsMissingJobs == {r \in Runs : row[r] > 0 /\ synced[r] # row[r]}

Init ==
  /\ version = NoRuns
  /\ row = NoRuns /\ synced = NoRuns
  /\ jobs = [r \in Runs |-> [j \in Jobs |-> 0]]
  /\ progress = [next |-> 1, complete |-> FALSE] /\ aged = FALSE
  /\ pageTag = [p \in Pages |-> {}] /\ jobsTag = NoRuns
  /\ pc = [w \in Workers |-> "idle"]
  /\ page = [w \in Workers |-> NoRuns] /\ fresh = [w \in Workers |-> FALSE]
  /\ run = [w \in Workers |-> 0] /\ key = [w \in Workers |-> 0]
  /\ answer = [w \in Workers |-> 0] /\ unsaved = [w \in Workers |-> {}]
  /\ todo = {} /\ budget = JobBudget
  /\ saving = [next |-> 1, complete |-> FALSE]
  /\ answered = NoRuns
  /\ faults = 0

Fault(kind) == /\ kind \in Faults /\ faults < MaxFaults
               /\ faults' = faults + 1

Goto(w, l) == pc' = [pc EXCEPT ![w] = l]

\* A worker returns to its ticker, its local variables are garbage.
Return(w) ==
  /\ Goto(w, "idle")
  /\ page' = [page EXCEPT ![w] = NoRuns] /\ fresh' = [fresh EXCEPT ![w] = FALSE]
  /\ run' = [run EXCEPT ![w] = 0] /\ key' = [key EXCEPT ![w] = 0]
  /\ answer' = [answer EXCEPT ![w] = 0]
  /\ todo' = IF w = "poller" THEN {} ELSE todo
  /\ budget' = IF w = "poller" THEN JobBudget ELSE budget

\* One worker ends its work on a run: the poller turns to its next one.
NextRun(w) ==
  IF w = "poller"
  THEN /\ Goto(w, "loop")
       /\ run' = [run EXCEPT ![w] = 0] /\ key' = [key EXCEPT ![w] = 0]
       /\ answer' = [answer EXCEPT ![w] = 0]
       /\ UNCHANGED <<page, fresh, todo, budget>>
  ELSE Return(w)

-----------------------------------------------------------------------------
Updates == FoldFunction(+, 0, version)

\* GitHub: a run is created, after its predecessors, or updated.
UpdateRun(r) ==
  /\ version[r] < MaxVersion /\ Updates < MaxUpdates
  /\ r > 1 => version[r - 1] > 0
  /\ version' = [version EXCEPT ![r] = @ + 1]
  /\ UNCHANGED <<database, tags, local, answered, faults>>

\* Mutated form: the URL has no date in it.
NewDayKeepingTags ==
  /\ progress.complete /\ ~aged
  /\ aged' = TRUE
  /\ UNCHANGED <<github, row, jobs, synced, progress, tags, local, answered,
                 faults>>

\* The created>= parameter of the page URLs moves on at midnight: the ETags
\* recorded so far are never looked up again.  A walk that completed before is
\* a day old (refreshAfter is 24h, and nothing in the program changes it).
NewDay ==
  /\ pageTag # [p \in Pages |-> {}] \/ (progress.complete /\ ~aged)
  /\ pageTag' = [p \in Pages |-> {}]
  /\ aged' = progress.complete
  /\ UNCHANGED <<github, row, jobs, synced, progress, jobsTag, local, answered,
                 faults>>

\* Client.Get records the ETag of a 200, emptying a full map first.
RecordTag(pt, jt, evictedPt, evictedJt) ==
  \/ /\ pageTag' = pt /\ jobsTag' = jt /\ faults' = faults
  \/ /\ Fault("evict")
     /\ pageTag' = evictedPt /\ jobsTag' = evictedJt

\* The URL of the page a worker has asked for.
PageNumber(w) == IF w = "poller" THEN 1 ELSE saving.next

RecordPageTag(w) ==
  LET p == PageNumber(w) IN
  RecordTag([pageTag EXCEPT ![p] = {page[w]}], jobsTag,
            [q \in Pages |-> IF q = p THEN {page[w]} ELSE {}], NoRuns)

RecordJobsTag(w) ==
  RecordTag(pageTag, [jobsTag EXCEPT ![run[w]] = answer[w]],
            [q \in Pages |-> {}],
            [r \in Runs |-> IF r = run[w] THEN answer[w] ELSE 0])

-----------------------------------------------------------------------------
\* The runs page: CollectRunsPage, UpsertWorkflowRuns.

\* The request for a page reaches GitHub, which compares the ETag.
RequestPage(w, p) ==
  /\ page' = [page EXCEPT ![w] = RunsPage(p)]
  /\ fresh' = [fresh EXCEPT ![w] = RunsPage(p) \notin pageTag[p]]
  /\ Goto(w, "page")
  /\ UNCHANGED <<github, database, tags, run, key, answer, unsaved, todo, budget,
                 answered, faults>>

\* The page answered is not looked at again.
ForgetPage(w) ==
  /\ page' = [page EXCEPT ![w] = NoRuns] /\ fresh' = [fresh EXCEPT ![w] = FALSE]
  /\ UNCHANGED <<run, key, answer, todo, budget>>

\* What a worker does when a page request or a page upsert failed: the poller
\* gives the repository up, the backfiller saves its progress unchanged.
AbandonPage(w) ==
  IF w = "poller" THEN Return(w) /\ saving' = saving
  ELSE /\ Goto(w, "progress") /\ ForgetPage(w) /\ saving' = saving

\* The progress after a page was answered: one page further after a full page
\* or a 304, otherwise the walk is complete and starts again at page 1.  The
\* bound PageBound saturates the page number.
Further(n) == [next |-> IF n < PageBound THEN n + 1 ELSE n, complete |-> FALSE]

\* Mutated form: an unchanged page is asked for again instead of passed.
AdvanceStuckOnUnchanged(w) ==
  LET more == fresh[w] /\ Cardinality(Listed(page[w])) >= RunsPerPage IN
  IF more /\ saving.next < MaxPages THEN Further(saving.next)
  ELSE IF ~fresh[w] THEN saving
  ELSE [next |-> 1, complete |-> TRUE]

Advance(w) ==
  LET more == fresh[w] /\ Cardinality(Listed(page[w])) >= RunsPerPage IN
  IF (more /\ saving.next < MaxPages) \/ ~fresh[w]
  THEN Further(saving.next)
  ELSE [next |-> 1, complete |-> TRUE]

\* A batch of upserts begins; one of its rows is written, or the write fails and
\* the rest of the batch is left out.
BeginBatch(w, rows) == unsaved' = [unsaved EXCEPT ![w] = rows]
Written(w, i) == unsaved' = [unsaved EXCEPT ![w] = @ \ {i}]
LeaveBatch(w) == unsaved' = [unsaved EXCEPT ![w] = {}]

\* A page is stored, or there is nothing to store.
PageDone(w) ==
  IF w = "poller"
  THEN (IF fresh[w] THEN /\ Goto(w, "select")
                         /\ UNCHANGED <<page, fresh, run, key, answer, todo, budget>>
        ELSE Return(w))
       /\ saving' = saving
  ELSE /\ Goto(w, "progress") /\ ForgetPage(w) /\ saving' = Advance(w)

ReceivePage(w) ==
  /\ pc[w] = "page"
  /\ \/ /\ Fault("transport")
        /\ AbandonPage(w)
        /\ UNCHANGED <<tags, unsaved>>
     \/ /\ fresh[w] /\ "body" \in Faults /\ faults < MaxFaults
        /\ pageTag' = [pageTag EXCEPT ![PageNumber(w)] = {page[w]}]
        /\ faults' = faults + 1
        /\ AbandonPage(w)
        /\ UNCHANGED <<jobsTag, unsaved>>
     \/ /\ fresh[w] /\ RecordPageTag(w)
        /\ IF Listed(page[w]) # {}
           THEN /\ Goto(w, "store") /\ BeginBatch(w, Listed(page[w]))
                /\ UNCHANGED <<page, fresh, run, key, answer, todo, budget, saving>>
           ELSE PageDone(w) /\ unsaved' = unsaved
     \/ /\ ~fresh[w] /\ PageDone(w)
        /\ UNCHANGED <<tags, unsaved, faults>>
  /\ UNCHANGED <<github, database, answered>>

\* The write of a row of the runs table, after its mutated form: the upsert
\* overwrites the mark too.
UpsertRunUnmarking(w, r) ==
  row' = [row EXCEPT ![r] = page[w][r]] /\ synced' = [synced EXCEPT ![r] = 0]
UpsertRun(w, r) == row' = [row EXCEPT ![r] = page[w][r]] /\ synced' = synced

\* One statement per run, newest first; after the last one the page is stored.
UpsertWorkflowRuns(w) ==
  LET r == Newest(unsaved[w]) IN
  /\ pc[w] = "store"
  /\ \/ /\ UpsertRun(w, r) /\ Written(w, r)
        /\ IF unsaved[w] = {r} THEN PageDone(w)
           ELSE UNCHANGED <<pc, page, fresh, run, key, answer, todo, budget, saving>>
        /\ faults' = faults
     \/ /\ Fault("storage") /\ LeaveBatch(w)
        /\ AbandonPage(w)
        /\ UNCHANGED <<row, synced>>
  /\ UNCHANGED <<github, jobs, progress, aged, tags, answered>>

-----------------------------------------------------------------------------
\* The jobs of one run: CollectJobs, UpsertWorkflowJobs, MarkJobsSynced.

\* The request for the jobs of run[w] reaches GitHub.
RequestJobs(w, r) ==
  /\ answer' = [answer EXCEPT ![w] = IF jobsTag[r] = version[r] THEN 0 ELSE version[r]]
  /\ Goto(w, "jobs")

SeeAnswer(w) ==
  answered' = [answered EXCEPT ![run[w]] = IF answer[w] > @ THEN answer[w] ELSE @]

\* A failed request or statement ends the work: the poller gives the repository
\* up, the backfiller ends its tick.  A 304 leaves no jobs to store.
ReceiveJobs(w) ==
  /\ pc[w] = "jobs"
  /\ \/ /\ \/ Fault("transport")
           \/ run[w] \in Poison /\ faults' = faults
        /\ Return(w)
        /\ UNCHANGED <<tags, unsaved, answered>>
     \/ /\ run[w] \notin Poison /\ answer[w] # 0
        /\ "body" \in Faults /\ faults < MaxFaults
        /\ jobsTag' = [jobsTag EXCEPT ![run[w]] = answer[w]]
        /\ faults' = faults + 1
        /\ SeeAnswer(w)
        /\ Return(w)
        /\ UNCHANGED <<pageTag, unsaved>>
     \/ /\ run[w] \notin Poison /\ answer[w] # 0
        /\ RecordJobsTag(w)
        /\ SeeAnswer(w)
        /\ Goto(w, "save") /\ BeginBatch(w, Jobs)
        /\ UNCHANGED <<page, fresh, run, key, answer, todo, budget>>
     \/ /\ run[w] \notin Poison /\ answer[w] = 0
        /\ Goto(w, "mark")
        /\ UNCHANGED <<tags, answered, faults, page, fresh, run, key, answer,
                       unsaved, todo, budget>>
  /\ UNCHANGED <<github, database, saving>>

\* One statement per job; after the last one the run is to be marked.  A failure
\* or a crash leaves the jobs of two versions side by side.
UpsertWorkflowJobs(w) ==
  LET j == Newest(unsaved[w]) IN
  /\ pc[w] = "save"
  /\ \/ /\ jobs' = [jobs EXCEPT ![run[w]][j] = answer[w]] /\ Written(w, j)
        /\ IF unsaved[w] = {j} THEN Goto(w, "mark") ELSE pc' = pc
        /\ UNCHANGED <<faults, page, fresh, run, key, answer, todo, budget>>
     \/ /\ Fault("storage") /\ LeaveBatch(w)
        /\ Return(w)
        /\ jobs' = jobs
  /\ UNCHANGED <<github, row, synced, progress, aged, tags, saving, answered>>

\* The version a run is marked at, read before its jobs were asked for; the
\* mutated form reads it again after they were stored.
VersionNow(w) == row[run[w]]
MarkVersion(w) == key[w]

MarkJobsSynced(w) ==
  /\ pc[w] = "mark"
  /\ \/ /\ synced' = [synced EXCEPT ![run[w]] = MarkVersion(w)]
        /\ NextRun(w)
        /\ faults' = faults
     \/ /\ Fault("storage")
        /\ Return(w)
        /\ synced' = synced
  /\ UNCHANGED <<github, row, jobs, progress, aged, tags, unsaved, saving, answered>>

-----------------------------------------------------------------------------
\* Poller: poll and collectWorkflows.

\* A poll whose list of repositories holds this one reaches it.
Poll ==
  /\ "poller" \in Workers /\ pc["poller"] = "idle"
  /\ RequestPage("poller", 1)
  /\ saving' = saving

\* SelectRunsForJobFetch: the runs of the page whose mark is not their key.  The
\* budget is what the repositories before this one have left of it.
SelectRunsForJobFetch ==
  /\ "poller" \in Workers /\ pc["poller"] = "select"
  /\ \/ /\ todo' = {r \in Listed(page["poller"]) :
                      row[r] > 0 /\ synced[r] # page["poller"][r]}
        /\ budget' \in 0..JobBudget
        /\ Goto("poller", "loop")
        /\ UNCHANGED <<page, fresh, run, key, answer, faults>>
     \/ /\ Fault("storage") /\ Return("poller")
  /\ UNCHANGED <<github, database, tags, unsaved, saving, answered>>

\* jobBudget.take, and its mutated form: a counter that only counts.
CountOnly == TRUE
BudgetLeft == budget > 0

\* The loop over the selected runs, newest first: jobBudget.take, then the
\* request; without a run or without budget the poll of the repository ends.
FetchNextRun ==
  /\ "poller" \in Workers /\ pc["poller"] = "loop"
  /\ \/ /\ todo = {} \/ ~BudgetLeft
        /\ Return("poller")
     \/ /\ todo # {} /\ BudgetLeft
        /\ LET r == Newest(todo) IN
           /\ todo' = todo \ {r}
           /\ budget' = budget - 1
           /\ run' = [run EXCEPT !["poller"] = r]
           /\ key' = [key EXCEPT !["poller"] = page["poller"][r]]
           /\ RequestJobs("poller", r)
        /\ UNCHANGED <<page, fresh>>
  /\ UNCHANGED <<github, database, tags, unsaved, saving, answered, faults>>

-----------------------------------------------------------------------------
\* Backfiller: stepJobs and stepRunsPage.

\* stepJobs reads the newest run that misses its jobs, and its key.
PickRun ==
  /\ "backfiller" \in Workers /\ pc["backfiller"] = "idle"
  /\ RunsMissingJobs # {}
  /\ run' = [run EXCEPT !["backfiller"] = Newest(RunsMissingJobs)]
  /\ key' = [key EXCEPT !["backfiller"] = row[Newest(RunsMissingJobs)]]
  /\ Goto("backfiller", "ask")
  /\ UNCHANGED <<github, database, tags, page, fresh, answer, unsaved, todo, budget,
                 saving, answered, faults>>

AskJobs ==
  /\ "backfiller" \in Workers /\ pc["backfiller"] = "ask"
  /\ RequestJobs("backfiller", run["backfiller"])
  /\ UNCHANGED <<github, database, tags, page, fresh, run, key, unsaved, todo,
                 budget, saving, answered, faults>>

\* stepRunsPage, when no run misses its jobs, or reading them failed: the
\* stored progress says which page is next; a complete walk is left alone
\* until it is refreshAfter old and then re-opened at page 1.
PickPage ==
  /\ "backfiller" \in Workers /\ pc["backfiller"] = "idle"
  /\ \/ RunsMissingJobs = {} /\ faults' = faults
     \/ RunsMissingJobs # {} /\ Fault("storage")
  /\ progress.complete => aged
  /\ saving' = [next |-> IF progress.complete THEN 1 ELSE progress.next,
                complete |-> FALSE]
  /\ Goto("backfiller", "turn")
  /\ UNCHANGED <<github, database, tags, page, fresh, run, key, answer, unsaved,
                 todo, budget, answered>>

AskPage ==
  /\ "backfiller" \in Workers /\ pc["backfiller"] = "turn"
  /\ RequestPage("backfiller", saving.next)
  /\ saving' = saving

SaveBackfillProgress ==
  /\ "backfiller" \in Workers /\ pc["backfiller"] = "progress"
  /\ \/ progress' = saving /\ aged' = FALSE /\ faults' = faults
     \/ Fault("storage") /\ UNCHANGED <<progress, aged>>
  /\ Return("backfiller")
  /\ UNCHANGED <<github, row, jobs, synced, tags, unsaved, saving, answered>>

-----------------------------------------------------------------------------
RestartLocals ==
  /\ pc' = [w \in Workers |-> "idle"]
  /\ page' = [w \in Workers |-> NoRuns] /\ fresh' = [w \in Workers |-> FALSE]
  /\ run' = [w \in Workers |-> 0] /\ key' = [w \in Workers |-> 0]
  /\ answer' = [w \in Workers |-> 0] /\ unsaved' = [w \in Workers |-> {}]
  /\ todo' = {} /\ budget' = JobBudget
  /\ saving' = [next |-> 1, complete |-> FALSE]

\* Mutated forms: some of the ETags survive the restart.
CrashKeepingJobsTags ==
  /\ Fault("crash") /\ RestartLocals
  /\ pageTag' = [p \in Pages |-> {}]
  /\ UNCHANGED <<github, database, jobsTag, answered>>
CrashKeepingPageTags ==
  /\ Fault("crash") /\ RestartLocals
  /\ jobsTag' = NoRuns
  /\ UNCHANGED <<github, database, pageTag, answered>>

\* The process dies and is started again: only the database survives.
Crash ==
  /\ Fault("crash") /\ RestartLocals
  /\ pageTag' = [p \in Pages |-> {}] /\ jobsTag' = NoRuns
  /\ UNCHANGED <<github, database, answered>>

Work(w) ==
  \/ ReceivePage(w) \/ UpsertWorkflowRuns(w)
  \/ ReceiveJobs(w) \/ UpsertWorkflowJobs(w) \/ MarkJobsSynced(w)

\* collectWorkflows, once it has begun.
CollectWorkflows ==
  \/ "poller" \in Workers /\ Work("poller")
  \/ SelectRunsForJobFetch \/ FetchNextRun

PollerStep == Poll \/ CollectWorkflows

BackfillerStep ==
  \/ "backfiller" \in Workers /\ Work("backfiller")
  \/ PickRun \/ AskJobs \/ PickPage \/ AskPage \/ SaveBackfillProgress

Next ==
  \/ \E r \in Runs : UpdateRun(r)
  \/ NewDay
  \/ PollerStep
  \/ BackfillerStep
  \/ Crash

Spec == Init /\ [][Next]_vars

\* The backfiller ticks for ever, a poll that has begun goes on, and days pass;
\* failures are finitely many.  A poll need not begin: the list of repositories
\* has an ETag too, and a 304 for it leaves poll nothing to do
\* (collectors/repos.go:37).
FairSpec ==
  /\ Spec
  /\ WF_vars(CollectWorkflows)
  /\ WF_vars(BackfillerStep)
  /\ WF_vars(NewDay)

\* Polls keep reaching the repository too, as they do while its organisation
\* changes now and then.
PollingSpec == FairSpec /\ WF_vars(Poll)
-----------------------------------------------------------------------------
(***************************************************************************)
(* Properties.                                                             *)
(***************************************************************************)
Steps == {"idle", "page", "store", "select", "loop", "jobs", "save", "mark",
          "ask", "turn", "progress"}

\* The variables have the types the Go code and the schema give them.
TypeOK ==
  /\ version \in Listing /\ row \in Listing
  /\ jobs \in [Runs -> [Jobs -> Versions]]
  /\ synced \in Listing /\ progress \in Progress /\ aged \in BOOLEAN
  /\ pageTag \in [Pages -> SUBSET Listing] /\ jobsTag \in Listing
  /\ pc \in [Workers -> Steps]
  /\ page \in [Workers -> Listing] /\ fresh \in [Workers -> BOOLEAN]
  /\ run \in [Workers -> 0..NumRuns] /\ key \in [Workers -> Versions]
  /\ answer \in [Workers -> Versions]
  /\ unsaved \in [Workers -> SUBSET (Runs \cup Jobs)]
  /\ todo \in SUBSET Runs /\ budget \in 0..JobBudget
  /\ saving \in Progress
  /\ answered \in Listing
  /\ faults \in 0..MaxFaults

\* A run is marked at a version only after GitHub answered its jobs as of that
\* version or a later one: the key is read before the jobs are asked for, and
\* a 304 vouches for an answer no older than the key.
MarkedWasAnswered == \A r \in Runs : synced[r] <= answered[r]

\* Every job stored for a run is at least as new as its mark, also after a crash
\* in the middle of a batch: "Marked only after the jobs are stored"
\* (backfill.go:371).
MarkedJobsStored == \A r \in Runs : \A j \in Jobs : synced[r] <= jobs[r][j]

\* A page GitHub calls unchanged is stored: "The page has not changed since it
\* was last fetched, so its runs are already stored" (backfill.go:442).
UnchangedPageIsStored ==
  \A w \in Workers : pc[w] = "page" /\ ~fresh[w] =>
    \A r \in Listed(page[w]) : row[r] >= page[w][r]

\* No jobs are lost for good: while neither loop is at work, a run that is not
\* in the work queue has the jobs of its stored version (db/backfill.go:155).
UnqueuedHasJobs ==
  (\A w \in Workers : pc[w] = "idle") =>
     \A r \in Runs : row[r] > 0 /\ r \notin RunsMissingJobs =>
       \A j \in Jobs : jobs[r][j] >= row[r]

\* A loop that runs alone takes nothing back: no row, job or mark of a run becomes
\* older, although no statement compares with what is stored (db/store.go:171,
\* db/backfill.go:258).
Forward ==
  \A r \in Runs : /\ row[r] <= row'[r] /\ synced[r] <= synced'[r]
                  /\ \A j \in Jobs : jobs[r][j] <= jobs'[r][j]
NeverGoesBack == [][Forward]_vars

\* Deferred work is never lost: once GitHub is quiet every run whose jobs it
\* does not refuse is stored at its last version and marked at it, whatever
\* finitely many failures happened (db/backfill.go:102).
EventuallyAllMarked ==
  <>[](\A r \in Runs \ Poison : row[r] = version[r] /\ synced[r] = version[r])

\* The walk through history reaches its end, or its cap, again and again.
WalkCompletes == []<>progress.complete
=============================================================================
