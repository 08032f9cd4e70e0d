-------------------------- MODULE GithubRetention --------------------------
(***************************************************************************)
(* How workflow runs and their jobs leave the raw tables for the daily     *)
(* rollups.  Every INSERT fires a trigger in its own transaction that sums *)
(* what is older than the retention window into the rollups and deletes it *)
(* (db/migrations/003_retention_correctness.sql); what is fetched is kept  *)
(* inside that window by a horizon (horizon.go).  Poller and backfiller    *)
(* insert over two connections of one pool, READ COMMITTED: a statement    *)
(* sees what had been committed when it began, NOW() is the time its       *)
(* transaction began, and a daily row that was added to stays locked until *)
(* the commit.  The clock ticks in half days.  A run has one job, started  *)
(* when the run was created or stored with no start: started_at may be     *)
(* NULL, and what GitHub sends as null is left so (workflows.go:196).  All *)
(* runs are of one workflow and one day, so each rollup is one row.        *)
(***************************************************************************)
EXTENDS Integers, FiniteSets

CONSTANTS DatedRuns,   \* the workflow runs
          Sessions,    \* the loops that insert, one connection each
          Retention,   \* RetentionWindow, NOW() - INTERVAL '90 days'
          Margin,      \* HorizonMargin
          Lags,        \* by how much the exporter's clock may be behind
          Delay,       \* bound on the time from a fetch to its last commit
          LastTick     \* bound on the clock

ASSUME RetentionAssumption ==
  /\ Margin \in Nat /\ Delay \in Nat /\ LastTick \in Nat
  /\ Retention \in Nat /\ Margin <= Retention
  /\ \A k \in Lags : k \in Nat /\ Delay + k <= Margin

VARIABLES
  tick,        \* PostgreSQL's clock
  lag,         \* the exporter's clock is tick - lag
  created,     \* created_at of each run, -1 before GitHub has it
  runRows,     \* workflow_runs, committed
  jobRows,     \* workflow_jobs, committed: the runs whose job is there
  timed,       \* the ones of them whose job has a started_at
  runsDaily,   \* how often each run was added to workflow_runs_daily
  jobsDaily,   \* how often each run's job was added to workflow_jobs_daily
  at,          \* where each session is
  fetched,     \* the runs of its page it has not inserted yet
  fetchedAt,   \* when it asked for that page
  putting,     \* the run it inserts, or inserts the job of, in a set
  timedPut,    \* the same run, when the job it inserts has a started_at
  txNow,       \* NOW() of its transaction
  addRuns, addJobs,    \* what its trigger has summed
  stored,      \* history: the runs ever committed
  jobStored,   \* history: the runs whose job was last stored with a start
  overlapped   \* history: two transactions were open at once

retentionVars == <<tick, lag, created, runRows, jobRows, timed, runsDaily,
                   jobsDaily, at, fetched, fetchedAt, putting, timedPut, txNow,
                   addRuns, addJobs, stored, jobStored, overlapped>>
tables == <<runRows, jobRows, timed, runsDaily, jobsDaily, stored, jobStored>>

RetentionInit ==
  /\ tick = 0 /\ lag \in Lags
  /\ created = [r \in DatedRuns |-> -1]
  /\ runRows = {} /\ jobRows = {} /\ timed = {}
  /\ stored = {} /\ jobStored = {}
  /\ runsDaily = [r \in DatedRuns |-> 0] /\ jobsDaily = [r \in DatedRuns |-> 0]
  /\ at = [s \in Sessions |-> "idle"]
  /\ fetched = [s \in Sessions |-> {}] /\ fetchedAt = [s \in Sessions |-> 0]
  /\ putting = [s \in Sessions |-> {}] /\ timedPut = [s \in Sessions |-> {}]
  /\ txNow = [s \in Sessions |-> 0]
  /\ addRuns = [s \in Sessions |-> {}] /\ addJobs = [s \in Sessions |-> {}]
  /\ overlapped = FALSE

Others(s) == Sessions \ {s}
Open(s) == at[s] \notin {"idle", "page"}

\* What the transaction of session s has written and not committed.
RunPut(s) == IF at[s] \in {"run jobs", "jobs wait", "run runs", "runs wait",
                           "run prune"} THEN putting[s] ELSE {}
JobPut(s) == IF at[s] \in {"job jobs", "job wait", "job prune"}
             THEN putting[s] ELSE {}

CreateRun(r) ==
  /\ created[r] = -1
  /\ created' = [created EXCEPT ![r] = tick]
  /\ UNCHANGED <<tick, lag, tables, at, fetched, fetchedAt, putting, timedPut,
                 txNow, addRuns, addJobs, overlapped>>

\* Time passes, but never by more than Delay under a session at work.
HalfDay ==
  /\ tick < LastTick
  /\ \A s \in Sessions : at[s] # "idle" => tick - fetchedAt[s] < Delay
  /\ tick' = tick + 1
  /\ UNCHANGED <<lag, created, tables, at, fetched, fetchedAt, putting,
                 timedPut, txNow, addRuns, addJobs, overlapped>>

\* CollectRunsPage: some of the runs newer than the horizon, which is taken
\* from the exporter's clock.  Mutated form: the horizon is the window itself.
HorizonAtWindow == Retention
CollectionHorizon == Retention - Margin

FetchRuns(s) ==
  /\ at[s] = "idle"
  /\ \E page \in SUBSET {r \in DatedRuns :
        created[r] >= 0 /\ created[r] >= tick - lag - CollectionHorizon} :
       /\ page # {}
       /\ fetched' = [fetched EXCEPT ![s] = page]
  /\ fetchedAt' = [fetchedAt EXCEPT ![s] = tick]
  /\ at' = [at EXCEPT ![s] = "page"]
  /\ UNCHANGED <<tick, lag, created, tables, putting, timedPut, txNow, addRuns,
                 addJobs, overlapped>>

\* A statement begins its transaction.
Begin(s, r, label) ==
  /\ putting' = [putting EXCEPT ![s] = {r}]
  /\ txNow' = [txNow EXCEPT ![s] = tick]
  /\ at' = [at EXCEPT ![s] = label]
  /\ overlapped' = (overlapped \/ \E t \in Others(s) : Open(t))
  /\ UNCHANGED <<tick, lag, created, tables, addRuns, addJobs>>

\* UpsertWorkflowRun, one statement for each run of the page; it waits while
\* another open transaction has written the row.
PutRun(s) ==
  /\ at[s] = "page"
  /\ \E r \in fetched[s] :
       /\ \A t \in Others(s) : r \notin RunPut(t)
       /\ Begin(s, r, "run jobs")
       /\ fetched' = [fetched EXCEPT ![s] = @ \ {r}]
  /\ UNCHANGED <<fetchedAt, timedPut>>

\* UpsertWorkflowJob of a run that is there: RunsMissingJobs knows no horizon.
\* It waits for another write of the job; the check of the foreign key locks
\* the run against its deletion, not against its update.
PutJob(s) ==
  /\ at[s] = "idle"
  /\ \E r \in runRows :
       /\ \A t \in Others(s) : r \notin JobPut(t)
       /\ Begin(s, r, "job jobs")
       /\ \E start \in {{}, {r}} : timedPut' = [timedPut EXCEPT ![s] = start]
  /\ fetchedAt' = [fetchedAt EXCEPT ![s] = tick]
  /\ UNCHANGED fetched

\* What a statement of session s sees, and what of it has expired.
SeenRuns(s) == runRows \cup RunPut(s)
SeenJobs(s) == jobRows \cup JobPut(s)
SeenTimed(s) == (timed \ JobPut(s)) \cup timedPut[s]

\* Mutated form: the statement that deletes reads the clock anew.
CutoffNow(s) == (IF at[s] = "run prune" THEN tick ELSE txNow[s]) - Retention
Cutoff(s) == txNow[s] - Retention
Expired(s, rows) == {r \in rows : created[r] < Cutoff(s)}

\* A summing statement: its snapshot is taken now, and if another transaction
\* holds the daily row it waits for that one to end before it adds.
Locked(adds, s) ==
  \E t \in Others(s) : /\ adds[t] # {}
                        /\ at[t] \notin {"jobs wait", "runs wait", "job wait"}

\* fn_retain_workflow_runs sums the jobs of expired runs first, before the
\* cascade deletes them, but only those with a start.  Mutated form: it leaves
\* them out, as 002 did.
NoRunsJobs(s) == {}
RunsJobs(s) == Expired(s, SeenRuns(s)) \cap SeenTimed(s)

SumJobs(s) ==
  /\ at[s] \in {"run jobs", "job jobs"}
  /\ LET sum == IF at[s] = "run jobs" THEN RunsJobs(s)
                ELSE Expired(s, SeenTimed(s) \cap SeenRuns(s))
         wait == sum # {} /\ Locked(addJobs, s)
     IN /\ addJobs' = [addJobs EXCEPT ![s] = sum]
        /\ at' = [at EXCEPT ![s] =
             IF at[s] = "run jobs" THEN IF wait THEN "jobs wait" ELSE "run runs"
             ELSE IF wait THEN "job wait" ELSE "job prune"]
  /\ UNCHANGED <<tick, lag, created, tables, fetched, fetchedAt, putting,
                 timedPut, txNow, addRuns, overlapped>>

SumRuns(s) ==
  /\ at[s] = "run runs"
  /\ LET sum == Expired(s, SeenRuns(s)) IN
     /\ addRuns' = [addRuns EXCEPT ![s] = sum]
     /\ at' = [at EXCEPT ![s] =
          IF sum # {} /\ Locked(addRuns, s) THEN "runs wait" ELSE "run prune"]
  /\ UNCHANGED <<tick, lag, created, tables, fetched, fetchedAt, putting,
                 timedPut, txNow, addJobs, overlapped>>

\* The other transaction has ended: the sum of the old snapshot is added.
AddAfterWait(s) ==
  /\ \/ /\ at[s] = "jobs wait" /\ ~Locked(addJobs, s)
        /\ at' = [at EXCEPT ![s] = "run runs"]
     \/ /\ at[s] = "job wait" /\ ~Locked(addJobs, s)
        /\ at' = [at EXCEPT ![s] = "job prune"]
     \/ /\ at[s] = "runs wait" /\ ~Locked(addRuns, s)
        /\ at' = [at EXCEPT ![s] = "run prune"]
  /\ UNCHANGED <<tick, lag, created, tables, fetched, fetchedAt, putting,
                 timedPut, txNow, addRuns, addJobs, overlapped>>

Close(s) ==
  /\ at' = [at EXCEPT ![s] = IF fetched'[s] # {} THEN "page" ELSE "idle"]
  /\ putting' = [putting EXCEPT ![s] = {}]
  /\ timedPut' = [timedPut EXCEPT ![s] = {}] /\ txNow' = [txNow EXCEPT ![s] = 0]
  /\ addRuns' = [addRuns EXCEPT ![s] = {}] /\ addJobs' = [addJobs EXCEPT ![s] = {}]
  /\ fetchedAt' = [fetchedAt EXCEPT ![s] = IF fetched'[s] # {} THEN @ ELSE 0]
  /\ UNCHANGED <<tick, lag, created, overlapped>>

AddTo(daily, S) == [r \in DatedRuns |-> IF r \in S /\ daily[r] < 2
                                        THEN daily[r] + 1 ELSE daily[r]]

\* ON DELETE CASCADE.  Mutated form: without it.
NoCascade(jobs, runs) == jobs
Cascade(jobs, runs) == jobs \cap runs

\* The trigger deletes what has expired, jobs in the cascade, and the statement
\* commits.  What another transaction has written is locked, and so is the run
\* of a job it has written.
Prune(s) ==
  /\ at[s] \in {"run prune", "job prune"}
  /\ LET runs == IF at[s] = "run prune" THEN Expired(s, SeenRuns(s)) ELSE {}
         jobs == IF at[s] = "run prune" THEN {} ELSE Expired(s, SeenTimed(s))
     IN /\ \A t \in Others(s) :
             putting[t] \cap runs = {} /\ JobPut(t) \cap jobs = {}
        /\ runRows' = SeenRuns(s) \ runs
        /\ jobRows' = Cascade(SeenJobs(s), runRows') \ jobs
        /\ timed' = SeenTimed(s) \cap jobRows'
        /\ stored' = stored \cup SeenRuns(s)
        /\ jobStored' = (jobStored \ JobPut(s)) \cup (SeenTimed(s) \cap SeenRuns(s))
  /\ runsDaily' = AddTo(runsDaily, addRuns[s])
  /\ jobsDaily' = AddTo(jobsDaily, addJobs[s])
  /\ UNCHANGED fetched
  /\ Close(s)

\* The statement or the process fails, or two transactions wait for each other:
\* the transaction is rolled back and the rest of the page given up.
Abort(s) ==
  /\ at[s] # "idle"
  /\ fetched' = [fetched EXCEPT ![s] = {}]
  /\ Close(s)
  /\ UNCHANGED tables

SessionStep(s) ==
  \/ FetchRuns(s) \/ PutRun(s) \/ PutJob(s) \/ SumJobs(s) \/ SumRuns(s)
  \/ AddAfterWait(s) \/ Prune(s) \/ Abort(s)

RetentionNext ==
  \/ \E r \in DatedRuns : CreateRun(r)
  \/ HalfDay
  \/ \E s \in Sessions : SessionStep(s)

RetentionSpec == RetentionInit /\ [][RetentionNext]_retentionVars

\* Where a reader of both tables finds each run, as RunLedger has it.
Place == [r \in DatedRuns |-> IF r \in runRows THEN "raw"
                              ELSE IF runsDaily[r] > 0 THEN "daily" ELSE "github"]
Ledger == INSTANCE RunLedger WITH place <- Place

-----------------------------------------------------------------------------
(***************************************************************************)
(* Properties.                                                             *)
(***************************************************************************)
RetentionTypeOK ==
  /\ tick \in 0..LastTick /\ lag \in Lags
  /\ created \in [DatedRuns -> -1..LastTick]
  /\ runRows \subseteq DatedRuns /\ jobRows \subseteq runRows
  /\ timed \subseteq jobRows
  /\ runsDaily \in [DatedRuns -> 0..2] /\ jobsDaily \in [DatedRuns -> 0..2]
  /\ at \in [Sessions -> {"idle", "page", "run jobs", "jobs wait", "run runs",
                          "runs wait", "run prune", "job jobs", "job wait",
                          "job prune"}]
  /\ fetched \in [Sessions -> SUBSET DatedRuns]
  /\ fetchedAt \in [Sessions -> 0..LastTick]
  /\ putting \in [Sessions -> SUBSET DatedRuns]
  /\ timedPut \in [Sessions -> SUBSET DatedRuns]
  /\ txNow \in [Sessions -> 0..LastTick]
  /\ addRuns \in [Sessions -> SUBSET DatedRuns]
  /\ addJobs \in [Sessions -> SUBSET DatedRuns]

\* A run reaches its daily row at most once (003:31): what the exporter can
\* fetch is newer than anything a prune can have consumed, whatever the clocks
\* say and however long an insert takes inside the margin (horizon.go:28).  The
\* one exception is two transactions open at once, each with its own snapshot.
RunsCountedOnce == ~overlapped => \A r \in DatedRuns : runsDaily[r] <= 1

\* Nothing is deleted uncounted: a run that was stored and is gone is in its
\* daily row, even when prunes overlap or are rolled back.
PrunedRunsCounted == \A r \in stored \ runRows : runsDaily[r] > 0

\* "A raw row passes through the rollup exactly once: in the statement that
\* deletes it" (003:31).
EachRunCounted == RunsCountedOnce /\ PrunedRunsCounted

\* A job that was last stored with a start and is gone, with its run or before
\* it, was counted before the cascade reached it (003:14), unless transactions
\* overlapped.
PrunedJobsCounted ==
  ~overlapped => \A r \in jobStored \ jobRows : jobsDaily[r] > 0

\* The same of every job, as 003:14-17 and 003:31 promise it: "a raw row passes
\* through the rollup exactly once: in the statement that deletes it".  The code
\* does not: a job without a started_at is summed by neither trigger (003:122,
\* 003:211) and goes with the cascade.
EveryPrunedJobCounted ==
  [][~overlapped' => \A r \in jobRows \ jobRows' : jobsDaily'[r] > 0]_retentionVars

\* The retention of runs implements RunLedger, overlapping transactions and
\* failures included: a commit stores new runs and settles old ones, and none
\* that was settled is ever stored again.
FollowsLedger == Ledger!LedgerSpec
=============================================================================
