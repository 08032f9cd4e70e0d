----------------------- MODULE GithubRetentionProofs -----------------------
(***************************************************************************)
(* Proofs about GithubRetention for any number of runs and sessions and any*)
(* window, margin, clock skew and delay with Delay + lag <= Margin: what a *)
(* session inserts is newer than any cutoff (horizon.go:28), so no run that*)
(* was rolled up comes back.                                               *)
(***************************************************************************)
EXTENDS GithubRetention, TLAPS

-----------------------------------------------------------------------------
(* Types, in four parts *)

TypeClock == tick \in 0..LastTick /\ lag \in Lags /\ created \in [DatedRuns -> -1..LastTick]
TypeRows == /\ runRows \subseteq DatedRuns /\ jobRows \subseteq runRows
            /\ timed \subseteq jobRows
            /\ runsDaily \in [DatedRuns -> 0..2] /\ jobsDaily \in [DatedRuns -> 0..2]
TypeAt == at \in [Sessions -> {"idle", "page", "run jobs", "jobs wait", "run runs",
                              "runs wait", "run prune", "job jobs", "job wait",
                              "job prune"}]
TypeTimes == fetchedAt \in [Sessions -> 0..LastTick] /\ txNow \in [Sessions -> 0..LastTick]
TypeSets == /\ fetched \in [Sessions -> SUBSET DatedRuns]
            /\ putting \in [Sessions -> SUBSET DatedRuns]
            /\ timedPut \in [Sessions -> SUBSET DatedRuns]
            /\ addRuns \in [Sessions -> SUBSET DatedRuns]
            /\ addJobs \in [Sessions -> SUBSET DatedRuns]
Types == TypeClock /\ TypeRows /\ TypeAt /\ TypeTimes /\ TypeSets

LEMMA TypeParts == RetentionTypeOK <=> Types
BY DEF RetentionTypeOK, Types, TypeClock, TypeRows, TypeAt, TypeTimes, TypeSets

LEMMA TypeInit == RetentionInit => Types
BY RetentionAssumption
   DEF RetentionInit, Types, TypeClock, TypeRows, TypeAt, TypeTimes, TypeSets

LEMMA AddToType ==
  ASSUME NEW S, NEW daily \in [DatedRuns -> 0..2]
  PROVE  /\ AddTo(daily, S) \in [DatedRuns -> 0..2]
         /\ \A r \in DatedRuns :
              /\ AddTo(daily, S)[r] >= daily[r]
              /\ r \notin S => AddTo(daily, S)[r] = daily[r]
              /\ r \in S => AddTo(daily, S)[r] > 0
              /\ (r \in S /\ daily[r] = 0) => AddTo(daily, S)[r] = 1
BY DEF AddTo

LEMMA TypeCreateRun == ASSUME NEW r0 \in DatedRuns, Types, CreateRun(r0) PROVE Types'
<1> USE RetentionAssumption DEF Types, tables
<1>1. TypeClock'
  BY DEF TypeClock, CreateRun
<1>2. TypeRows'
  BY DEF TypeRows, CreateRun
<1>3. TypeAt'
  BY DEF TypeAt, CreateRun
<1>4. TypeTimes'
  BY DEF TypeClock, TypeTimes, CreateRun
<1>5. TypeSets'
  BY DEF TypeSets, CreateRun
<1> QED
  BY <1>1, <1>2, <1>3, <1>4, <1>5

LEMMA TypeHalfDay == ASSUME Types, HalfDay PROVE Types'
<1> USE RetentionAssumption DEF Types, tables
<1>1. TypeClock'
  BY DEF TypeClock, HalfDay
<1>2. TypeRows'
  BY DEF TypeRows, HalfDay
<1>3. TypeAt'
  BY DEF TypeAt, HalfDay
<1>4. TypeTimes'
  BY DEF TypeClock, TypeTimes, HalfDay
<1>5. TypeSets'
  BY DEF TypeSets, HalfDay
<1> QED
  BY <1>1, <1>2, <1>3, <1>4, <1>5

LEMMA TypeFetchRuns == ASSUME NEW s0 \in Sessions, Types, FetchRuns(s0) PROVE Types'
<1> USE RetentionAssumption DEF Types, tables
<1>1. TypeClock'
  BY DEF TypeClock, FetchRuns
<1>2. TypeRows'
  BY DEF TypeRows, FetchRuns
<1>3. TypeAt'
  BY DEF TypeAt, FetchRuns
<1>4. TypeTimes'
  BY DEF TypeClock, TypeTimes, FetchRuns
<1>5. TypeSets'
  BY DEF TypeSets, FetchRuns
<1> QED
  BY <1>1, <1>2, <1>3, <1>4, <1>5

LEMMA TypePutRun == ASSUME NEW s0 \in Sessions, Types, PutRun(s0) PROVE Types'
<1> USE RetentionAssumption DEF Types, tables
<1>1. TypeClock'
  BY DEF TypeClock, PutRun, Begin
<1>2. TypeRows'
  BY DEF TypeRows, PutRun, Begin
<1>3. TypeAt'
  BY DEF TypeAt, PutRun, Begin
<1>4. TypeTimes'
  BY DEF TypeClock, TypeTimes, PutRun, Begin
<1>5. TypeSets'
  <2> PICK r \in fetched[s0] : fetched' = [fetched EXCEPT ![s0] = @ \ {r}] /\ Begin(s0, r, "run jobs")
    BY DEF PutRun
  <2>1. r \in DatedRuns /\ fetched[s0] \in SUBSET DatedRuns
    BY DEF TypeSets
  <2>2. fetched' \in [Sessions -> SUBSET DatedRuns]
    BY <2>1 DEF TypeSets
  <2>3. putting' \in [Sessions -> SUBSET DatedRuns]
    BY <2>1 DEF TypeSets, Begin
  <2>4. UNCHANGED <<timedPut, addRuns, addJobs>>
    BY DEF PutRun, Begin
  <2> QED
    BY <2>2, <2>3, <2>4 DEF TypeSets
<1> QED
  BY <1>1, <1>2, <1>3, <1>4, <1>5

\* The job of run r is put, with a start or without.
PutsJob(s, r) == /\ Begin(s, r, "job jobs")
                 /\ \E start \in {{}, {r}} : timedPut' = [timedPut EXCEPT ![s] = start]

LEMMA PutJobOf ==
  ASSUME NEW s \in Sessions, PutJob(s) PROVE \E r \in runRows : PutsJob(s, r)
BY DEF PutJob, PutsJob

LEMMA TypePutJob == ASSUME NEW s0 \in Sessions, Types, PutJob(s0) PROVE Types'
<1> USE RetentionAssumption DEF Types, tables
<1>1. TypeClock'
  BY DEF TypeClock, PutJob, Begin
<1>2. TypeRows'
  BY DEF TypeRows, PutJob, Begin
<1>3. TypeAt'
  BY DEF TypeAt, PutJob, Begin
<1>4. TypeTimes'
  BY DEF TypeClock, TypeTimes, PutJob, Begin
<1>5. TypeSets'
  <2> PICK r \in runRows : PutsJob(s0, r)
    BY PutJobOf
  <2>1. r \in DatedRuns
    BY DEF TypeRows
  <2>2. putting' \in [Sessions -> SUBSET DatedRuns]
    BY <2>1 DEF TypeSets, PutsJob, Begin
  <2>3. timedPut' \in [Sessions -> SUBSET DatedRuns]
    BY <2>1 DEF TypeSets, PutsJob
  <2> QED
    BY <2>2, <2>3 DEF TypeSets, PutJob, PutsJob, Begin
<1> QED
  BY <1>1, <1>2, <1>3, <1>4, <1>5

LEMMA TypeSumJobs == ASSUME NEW s0 \in Sessions, Types, SumJobs(s0) PROVE Types'
<1> USE RetentionAssumption DEF Types, tables
<1>1. TypeClock'
  BY DEF TypeClock, SumJobs
<1>2. TypeRows'
  BY DEF TypeRows, SumJobs
<1>3. TypeAt'
  BY DEF TypeAt, SumJobs
<1>4. TypeTimes'
  BY DEF TypeClock, TypeTimes, SumJobs
<1>5. TypeSets'
  BY DEF TypeRows, RunsJobs, Expired, SeenRuns, RunPut, SeenTimed, JobPut, TypeSets, SumJobs
<1> QED
  BY <1>1, <1>2, <1>3, <1>4, <1>5

LEMMA TypeSumRuns == ASSUME NEW s0 \in Sessions, Types, SumRuns(s0) PROVE Types'
<1> USE RetentionAssumption DEF Types, tables
<1>1. TypeClock'
  BY DEF TypeClock, SumRuns
<1>2. TypeRows'
  BY DEF TypeRows, SumRuns
<1>3. TypeAt'
  BY DEF TypeAt, SumRuns
<1>4. TypeTimes'
  BY DEF TypeClock, TypeTimes, SumRuns
<1>5. TypeSets'
  BY DEF TypeRows, Expired, SeenRuns, RunPut, TypeSets, SumRuns
<1> QED
  BY <1>1, <1>2, <1>3, <1>4, <1>5

LEMMA TypeAddAfterWait == ASSUME NEW s0 \in Sessions, Types, AddAfterWait(s0) PROVE Types'
<1> USE RetentionAssumption DEF Types, tables
<1>1. TypeClock'
  BY DEF TypeClock, AddAfterWait
<1>2. TypeRows'
  BY DEF TypeRows, AddAfterWait
<1>3. TypeAt'
  BY DEF TypeAt, AddAfterWait
<1>4. TypeTimes'
  BY DEF TypeClock, TypeTimes, AddAfterWait
<1>5. TypeSets'
  BY DEF TypeSets, AddAfterWait
<1> QED
  BY <1>1, <1>2, <1>3, <1>4, <1>5

LEMMA TypePrune == ASSUME NEW s0 \in Sessions, Types, Prune(s0) PROVE Types'
<1> USE RetentionAssumption DEF Types, tables
<1>1. TypeClock'
  BY DEF TypeClock, Prune, Close
<1>2. TypeRows'
  <2>1. runRows' \subseteq DatedRuns /\ jobRows' \subseteq runRows' /\ timed' \subseteq jobRows'
    BY DEF TypeSets, TypeRows, SeenRuns, RunPut, SeenJobs, Cascade, Prune
  <2>2. runsDaily' \in [DatedRuns -> 0..2] /\ jobsDaily' \in [DatedRuns -> 0..2]
    BY AddToType DEF TypeRows, Prune
  <2> QED
    BY <2>1, <2>2 DEF TypeRows
<1>3. TypeAt'
  BY DEF TypeAt, Prune, Close
<1>4. TypeTimes'
  <2>1. fetchedAt' \in [Sessions -> 0..LastTick]
    <3>1. fetchedAt' = [fetchedAt EXCEPT ![s0] = IF fetched'[s0] # {} THEN @ ELSE 0]
      BY DEF Prune, Close
    <3> QED
      BY <3>1 DEF TypeTimes
  <2>2. txNow' \in [Sessions -> 0..LastTick]
    <3>1. txNow' = [txNow EXCEPT ![s0] = 0]
      BY DEF Prune, Close
    <3> QED
      BY <3>1 DEF TypeTimes
  <2> QED
    BY <2>1, <2>2 DEF TypeTimes
<1>5. TypeSets'
  BY DEF TypeSets, Prune, Close
<1> QED
  BY <1>1, <1>2, <1>3, <1>4, <1>5

LEMMA TypeAbort == ASSUME NEW s0 \in Sessions, Types, Abort(s0) PROVE Types'
<1> USE RetentionAssumption DEF Types, tables
<1>1. TypeClock'
  BY DEF TypeClock, Abort, Close
<1>2. TypeRows'
  BY DEF TypeRows, Abort, Close
<1>3. TypeAt'
  BY DEF TypeAt, Abort, Close
<1>4. TypeTimes'
  BY DEF TypeClock, TypeTimes, Abort, Close
<1>5. TypeSets'
  BY DEF TypeSets, Abort, Close
<1> QED
  BY <1>1, <1>2, <1>3, <1>4, <1>5

LEMMA TypeStep == Types /\ [RetentionNext]_retentionVars => Types'
<1> SUFFICES ASSUME Types, [RetentionNext]_retentionVars PROVE Types'
  OBVIOUS
<1>1. CASE \E r \in DatedRuns : CreateRun(r)
  BY <1>1, TypeCreateRun
<1>2. CASE HalfDay
  BY <1>2, TypeHalfDay
<1>3. CASE \E s \in Sessions : SessionStep(s)
  BY <1>3, TypeFetchRuns, TypePutRun, TypePutJob, TypeSumJobs, TypeSumRuns,
     TypeAddAfterWait, TypePrune, TypeAbort DEF SessionStep
<1>4. CASE UNCHANGED retentionVars
  BY <1>4 DEF retentionVars, tables, Types, TypeClock, TypeRows, TypeAt, TypeTimes, TypeSets
<1> QED
  BY <1>1, <1>2, <1>3, <1>4 DEF RetentionNext

\* The clock, the tables and the sessions keep their types.
THEOREM RetentionTypeCorrect == RetentionSpec => []RetentionTypeOK
<1>1. Types => RetentionTypeOK
  BY TypeParts
<1> QED
  BY <1>1, TypeInit, TypeStep, PTL DEF RetentionSpec

-----------------------------------------------------------------------------
(* The inductive invariant *)

RunTx == {"run jobs", "jobs wait", "run runs", "runs wait", "run prune"}
JobTx == {"job jobs", "job wait", "job prune"}
Summing == {"runs wait", "run prune"}

\* Asked for at t: no newer cutoff than Delay later can reach it.
FreshFrom(r, t) ==
  created[r] >= 0 /\ created[r] >= t - lag - (Retention - Margin)

InTime == \A s \in Sessions : at[s] # "idle" =>
            fetchedAt[s] <= tick /\ tick - fetchedAt[s] <= Delay
FetchedFresh == \A s \in Sessions : \A r \in fetched[s] :
                  at[s] # "idle" /\ FreshFrom(r, fetchedAt[s])
PuttingFresh == \A s \in Sessions : at[s] \in RunTx =>
                  \A r \in putting[s] : FreshFrom(r, fetchedAt[s])
JobRunThere == \A s \in Sessions : at[s] \in JobTx => putting[s] \subseteq runRows
PuttingOpen == \A s \in Sessions : at[s] \notin RunTx \cup JobTx => putting[s] = {}
TxPast == \A s \in Sessions : txNow[s] <= tick
RowsCreated == \A r \in runRows : created[r] >= 0
DailyGone == \A r \in DatedRuns : runsDaily[r] > 0 =>
               r \notin runRows /\ created[r] >= 0 /\ created[r] < tick - Retention
AddsSumming == \A s \in Sessions : at[s] \notin Summing => addRuns[s] = {}
AddsExpired == \A s \in Sessions : \A r \in addRuns[s] :
                 /\ created[r] >= 0 /\ created[r] < txNow[s] - Retention
                 /\ r \in runRows \/ runsDaily[r] > 0
SumsAll == \A s \in Sessions : at[s] \in Summing =>
             \A r \in runRows : created[r] < txNow[s] - Retention => r \in addRuns[s]
StoredThere == \A r \in stored : r \in DatedRuns /\ (r \in runRows \/ runsDaily[r] > 0)

Inv == /\ Types /\ InTime /\ FetchedFresh /\ PuttingFresh
       /\ JobRunThere /\ PuttingOpen /\ TxPast /\ RowsCreated /\ DailyGone
       /\ AddsSumming /\ AddsExpired /\ SumsAll /\ StoredThere

Alone == ~overlapped =>
  /\ \A s, t \in Sessions : Open(s) /\ Open(t) => s = t
  /\ \A s \in Sessions : addRuns[s] \subseteq runRows
  /\ \A r \in DatedRuns : runsDaily[r] <= 1

-----------------------------------------------------------------------------
(* What is fetched stays newer than every cutoff *)

Numbers == /\ tick \in Nat /\ lag \in Nat /\ Delay + lag <= Margin
           /\ Retention \in Nat /\ Margin \in Nat /\ Delay \in Nat
           /\ \A r \in DatedRuns : created[r] \in Int
           /\ \A s \in Sessions : fetchedAt[s] \in Nat /\ txNow[s] \in Nat

LEMMA NumbersOK == Types => Numbers
BY RetentionAssumption DEF Types, TypeClock, TypeTimes, Numbers

\* A run fetched within Delay is no older than the window, so nothing rolls it
\* up and nothing has.
LEMMA StillFresh ==
  ASSUME Types, InTime, TxPast, DailyGone,
         NEW s \in Sessions, at[s] # "idle", NEW r \in DatedRuns,
         FreshFrom(r, fetchedAt[s])
  PROVE  /\ created[r] >= 0 /\ created[r] >= tick - Retention
         /\ ~(runsDaily[r] > 0)
         /\ \A t \in Sessions : ~(created[r] < txNow[t] - Retention)
<1>1. Numbers
  BY NumbersOK
<1>2. created[r] >= 0 /\ created[r] >= tick - Retention
  BY <1>1 DEF Numbers, FreshFrom, InTime
<1>3. ~(runsDaily[r] > 0)
  BY <1>1, <1>2 DEF Numbers, DailyGone
<1>4. \A t \in Sessions : ~(created[r] < txNow[t] - Retention)
  BY <1>1, <1>2 DEF Numbers, TxPast
<1> QED
  BY <1>2, <1>3, <1>4

LEMMA InvCreateRun ==
  ASSUME NEW r0 \in DatedRuns, Inv, CreateRun(r0)
  PROVE  Inv'
<1> USE DEF Inv
<1>1. Types /\ Types' /\ Numbers
  BY TypeCreateRun, NumbersOK
<1>2. UNCHANGED <<tables, tick, lag, at, fetched, fetchedAt, putting, txNow, addRuns, addJobs, overlapped>>
  BY DEF CreateRun
<1>3. /\ created[r0] = -1 /\ created'[r0] = tick
      /\ \A r \in DatedRuns : r # r0 => created'[r] = created[r]
  BY <1>1 DEF Types, TypeClock, TypeRows, TypeAt, TypeTimes, TypeSets, CreateRun
<1>4. InTime' /\ JobRunThere' /\ PuttingOpen' /\ TxPast' /\ AddsSumming' /\ StoredThere'
  BY <1>2 DEF tables, InTime, JobRunThere, JobTx, PuttingOpen, RunTx, TxPast,
       AddsSumming, Summing, StoredThere
<1>5. FetchedFresh'
  BY <1>1, <1>2, <1>3 DEF tables, Numbers, Types, TypeSets, FetchedFresh, FreshFrom
<1>6. PuttingFresh'
  <2> SUFFICES ASSUME NEW s \in Sessions, at[s] \in RunTx, NEW r \in putting[s]
           PROVE  created'[r] >= 0 /\ created'[r] >= fetchedAt[s] - lag - (Retention - Margin)
    BY <1>2 DEF PuttingFresh, FreshFrom
  <2>1. r \in DatedRuns /\ FreshFrom(r, fetchedAt[s])
    BY DEF Types, TypeSets, PuttingFresh
  <2>2. r # r0
    BY <2>1, <1>3 DEF FreshFrom
  <2> QED
    BY <2>1, <2>2, <1>3 DEF FreshFrom
<1>7. RowsCreated'
  BY <1>1, <1>2, <1>3 DEF tables, Numbers, Types, TypeRows, RowsCreated
<1>8. DailyGone'
  BY <1>1, <1>2, <1>3 DEF tables, Numbers, Types, TypeRows, DailyGone
<1>9. AddsExpired'
  BY <1>1, <1>2, <1>3 DEF tables, Numbers, Types, TypeSets, AddsExpired
<1>10. SumsAll'
  <2>1. \A r \in runRows : created'[r] = created[r]
    BY <1>1, <1>3 DEF Types, TypeRows, RowsCreated
  <2> QED
    BY <1>2, <2>1 DEF SumsAll, tables
<1> QED
  BY <1>1, <1>4, <1>5, <1>6, <1>7, <1>8, <1>9, <1>10

LEMMA InvHalfDay ==
  ASSUME Inv, HalfDay
  PROVE  Inv'
<1> USE DEF Inv
<1>1. Types /\ Types' /\ Numbers
  BY TypeHalfDay, NumbersOK
<1>2. UNCHANGED <<tables, lag, created, at, fetched, fetchedAt, putting, txNow, addRuns, addJobs, overlapped>>
  BY DEF HalfDay
<1>3. /\ tick' = tick + 1
      /\ \A s \in Sessions : at[s] # "idle" => tick - fetchedAt[s] < Delay
  BY <1>1 DEF Types, TypeClock, TypeRows, TypeAt, TypeTimes, TypeSets, HalfDay
<1>4. FetchedFresh' /\ PuttingFresh' /\ JobRunThere' /\ PuttingOpen' /\ RowsCreated'
     /\ AddsSumming' /\ AddsExpired' /\ SumsAll' /\ StoredThere'
  BY <1>2 DEF tables, FetchedFresh, FreshFrom, PuttingFresh, RunTx, JobRunThere, JobTx,
       PuttingOpen, RowsCreated, AddsSumming, Summing, AddsExpired, SumsAll,
       StoredThere
<1>5. InTime'
  BY <1>1, <1>2, <1>3 DEF tables, Numbers, InTime
<1>6. TxPast'
  BY <1>1, <1>2, <1>3 DEF tables, Numbers, TxPast
<1>7. DailyGone'
  BY <1>1, <1>2, <1>3 DEF tables, Numbers, Types, TypeRows, DailyGone
<1> QED
  BY <1>1, <1>4, <1>5, <1>6, <1>7

LEMMA InvFetchRuns ==
  ASSUME NEW s0 \in Sessions, Inv, FetchRuns(s0)
  PROVE  Inv'
<1> USE DEF Inv
<1>1. Types /\ Types' /\ Numbers
  BY TypeFetchRuns, NumbersOK
<1>2. UNCHANGED <<tables, tick, lag, created, putting, txNow, addRuns, addJobs, overlapped>>
  BY DEF FetchRuns
<1>3. /\ at[s0] = "idle" /\ at'[s0] = "page" /\ fetchedAt'[s0] = tick
      /\ \A r \in fetched'[s0] : created[r] >= 0 /\ created[r] >= tick - lag - (Retention - Margin)
      /\ \A s \in Sessions : s # s0 => at'[s] = at[s] /\ fetchedAt'[s] = fetchedAt[s]
             /\ fetched'[s] = fetched[s]
  BY <1>1 DEF Types, TypeClock, TypeRows, TypeAt, TypeTimes, TypeSets, FetchRuns, CollectionHorizon
<1>4. TxPast' /\ RowsCreated' /\ DailyGone' /\ AddsExpired' /\ StoredThere'
  BY <1>2 DEF tables, TxPast, RowsCreated, DailyGone, AddsExpired, StoredThere
<1>5. InTime'
  BY <1>1, <1>2, <1>3 DEF tables, Numbers, InTime
<1>6. FetchedFresh'
  BY <1>1, <1>2, <1>3 DEF tables, Numbers, FetchedFresh, FreshFrom
<1>7. PuttingFresh'
  BY <1>1, <1>2, <1>3 DEF tables, Numbers, PuttingFresh, FreshFrom, RunTx
<1>8. JobRunThere'
  BY <1>1, <1>2, <1>3 DEF tables, JobRunThere, JobTx
<1>9. PuttingOpen'
  BY <1>1, <1>2, <1>3 DEF tables, PuttingOpen, RunTx, JobTx
<1>10. AddsSumming'
  BY <1>1, <1>2, <1>3 DEF tables, AddsSumming, Summing
<1>11. SumsAll'
  BY <1>1, <1>2, <1>3 DEF tables, Numbers, Types, TypeRows, SumsAll, Summing
<1> QED
  BY <1>1, <1>4, <1>5, <1>6, <1>7, <1>8, <1>9, <1>10, <1>11

LEMMA InvPutRun ==
  ASSUME NEW s0 \in Sessions, Inv, PutRun(s0)
  PROVE  Inv'
<1> USE DEF Inv
<1>1. Types /\ Types' /\ Numbers
  BY TypePutRun, NumbersOK
<1>2. UNCHANGED <<tables, tick, lag, created, fetchedAt, addRuns, addJobs>>
  BY DEF PutRun, Begin
<1>3. /\ at[s0] = "page" /\ at'[s0] = "run jobs" /\ txNow'[s0] = tick
      /\ fetched'[s0] \subseteq fetched[s0] /\ putting'[s0] \subseteq fetched[s0]
      /\ \A s \in Sessions : s # s0 => at'[s] = at[s] /\ txNow'[s] = txNow[s]
             /\ fetched'[s] = fetched[s] /\ putting'[s] = putting[s]
  <2> PICK r \in fetched[s0] : fetched' = [fetched EXCEPT ![s0] = @ \ {r}] /\ Begin(s0, r, "run jobs")
    BY DEF PutRun
  <2>1. at[s0] = "page"
    BY DEF PutRun
  <2>2. at' = [at EXCEPT ![s0] = "run jobs"] /\ txNow' = [txNow EXCEPT ![s0] = tick]
        /\ putting' = [putting EXCEPT ![s0] = {r}]
    BY DEF Begin
  <2> QED
    BY <1>1, <2>1, <2>2 DEF Types, TypeAt, TypeTimes, TypeSets
<1>4. RowsCreated' /\ DailyGone' /\ StoredThere'
  BY <1>2 DEF tables, RowsCreated, DailyGone, StoredThere
<1>5. InTime'
  BY <1>1, <1>2, <1>3 DEF tables, Numbers, InTime
<1>6. FetchedFresh'
  BY <1>1, <1>2, <1>3 DEF tables, Numbers, FetchedFresh, FreshFrom
<1>7. PuttingFresh'
  BY <1>1, <1>2, <1>3 DEF tables, Numbers, PuttingFresh, FreshFrom, RunTx, FetchedFresh
<1>8. JobRunThere'
  BY <1>1, <1>2, <1>3 DEF tables, JobRunThere, JobTx
<1>9. PuttingOpen'
  BY <1>1, <1>2, <1>3 DEF tables, PuttingOpen, RunTx, JobTx
<1>10. TxPast'
  <2>1. txNow'[s0] <= tick'
    <3>1. txNow'[s0] = tick /\ tick' = tick
      BY <1>2, <1>3
    <3>2. tick \in Nat
      BY <1>1 DEF Numbers
    <3> QED
      BY <3>1, <3>2
  <2>2. \A s \in Sessions : s # s0 => txNow'[s] <= tick'
    BY <1>2, <1>3 DEF TxPast
  <2> QED
    BY <2>1, <2>2 DEF TxPast
<1>11. AddsSumming'
  BY <1>1, <1>2, <1>3 DEF tables, AddsSumming, Summing
<1>12. AddsExpired'
  BY <1>1, <1>2, <1>3 DEF tables, Numbers, AddsExpired, AddsSumming, Summing
<1>13. SumsAll'
  BY <1>1, <1>2, <1>3 DEF tables, Numbers, Types, TypeRows, SumsAll, Summing
<1> QED
  BY <1>1, <1>4, <1>5, <1>6, <1>7, <1>8, <1>9, <1>10, <1>11, <1>12, <1>13

LEMMA InvPutJob ==
  ASSUME NEW s0 \in Sessions, Inv, PutJob(s0)
  PROVE  Inv'
<1> USE DEF Inv
<1>1. Types /\ Types' /\ Numbers
  BY TypePutJob, NumbersOK
<1>2. UNCHANGED <<tables, tick, lag, created, fetched, addRuns, addJobs>>
  BY DEF PutJob, Begin
<1>3. /\ at[s0] = "idle" /\ at'[s0] = "job jobs" /\ txNow'[s0] = tick /\ fetchedAt'[s0] = tick
      /\ putting'[s0] \subseteq runRows
      /\ \A s \in Sessions : s # s0 => at'[s] = at[s] /\ txNow'[s] = txNow[s]
             /\ fetchedAt'[s] = fetchedAt[s] /\ putting'[s] = putting[s]
  <2> PICK r \in runRows : Begin(s0, r, "job jobs")
    BY DEF PutJob
  <2>1. at[s0] = "idle" /\ fetchedAt' = [fetchedAt EXCEPT ![s0] = tick]
    BY DEF PutJob
  <2>2. at' = [at EXCEPT ![s0] = "job jobs"] /\ txNow' = [txNow EXCEPT ![s0] = tick]
        /\ putting' = [putting EXCEPT ![s0] = {r}]
    BY DEF Begin
  <2> QED
    BY <1>1, <2>1, <2>2 DEF Types, TypeAt, TypeTimes, TypeSets
<1>4. RowsCreated' /\ DailyGone' /\ StoredThere'
  BY <1>2 DEF tables, RowsCreated, DailyGone, StoredThere
<1>5. InTime'
  <2>1. fetchedAt'[s0] <= tick' /\ tick' - fetchedAt'[s0] <= Delay
    <3>1. fetchedAt'[s0] = tick /\ tick' = tick
      BY <1>2, <1>3
    <3>2. tick \in Nat /\ Delay \in Nat
      BY <1>1 DEF Numbers
    <3> QED
      BY <3>1, <3>2
  <2>2. \A s \in Sessions : s # s0 /\ at'[s] # "idle" =>
          fetchedAt'[s] <= tick' /\ tick' - fetchedAt'[s] <= Delay
    BY <1>2, <1>3 DEF InTime
  <2> QED
    BY <2>1, <2>2 DEF InTime
<1>6. FetchedFresh'
  BY <1>1, <1>2, <1>3 DEF tables, Numbers, FetchedFresh, FreshFrom
<1>7. PuttingFresh'
  BY <1>1, <1>2, <1>3 DEF tables, Numbers, PuttingFresh, FreshFrom, RunTx
<1>8. JobRunThere'
  BY <1>1, <1>2, <1>3 DEF tables, JobRunThere, JobTx
<1>9. PuttingOpen'
  BY <1>1, <1>2, <1>3 DEF tables, PuttingOpen, RunTx, JobTx
<1>10. TxPast'
  <2>1. txNow'[s0] <= tick'
    <3>1. txNow'[s0] = tick /\ tick' = tick
      BY <1>2, <1>3
    <3>2. tick \in Nat
      BY <1>1 DEF Numbers
    <3> QED
      BY <3>1, <3>2
  <2>2. \A s \in Sessions : s # s0 => txNow'[s] <= tick'
    BY <1>2, <1>3 DEF TxPast
  <2> QED
    BY <2>1, <2>2 DEF TxPast
<1>11. AddsSumming'
  BY <1>1, <1>2, <1>3 DEF tables, AddsSumming, Summing
<1>12. AddsExpired'
  BY <1>1, <1>2, <1>3 DEF tables, Numbers, AddsExpired, AddsSumming, Summing
<1>13. SumsAll'
  BY <1>1, <1>2, <1>3 DEF tables, Numbers, Types, TypeRows, SumsAll, Summing
<1> QED
  BY <1>1, <1>4, <1>5, <1>6, <1>7, <1>8, <1>9, <1>10, <1>11, <1>12, <1>13

LEMMA InvSumJobs ==
  ASSUME NEW s0 \in Sessions, Inv, SumJobs(s0)
  PROVE  Inv'
<1> USE DEF Inv
<1>1. Types /\ Types' /\ Numbers
  BY TypeSumJobs, NumbersOK
<1>2. UNCHANGED <<tables, tick, lag, created, fetched, fetchedAt, putting, txNow, addRuns, overlapped>>
  BY DEF SumJobs
<1>3. /\ \/ at[s0] = "run jobs" /\ at'[s0] \in {"jobs wait", "run runs"}
         \/ at[s0] = "job jobs" /\ at'[s0] \in {"job wait", "job prune"}
      /\ \A s \in Sessions : s # s0 => at'[s] = at[s]
  <2>1. at[s0] = "run jobs" =>
          \/ at' = [at EXCEPT ![s0] = "jobs wait"] \/ at' = [at EXCEPT ![s0] = "run runs"]
    BY DEF SumJobs
  <2>2. at[s0] = "job jobs" =>
          \/ at' = [at EXCEPT ![s0] = "job wait"] \/ at' = [at EXCEPT ![s0] = "job prune"]
    BY DEF SumJobs
  <2>3. at[s0] \in {"run jobs", "job jobs"}
    BY DEF SumJobs
  <2>4. \A e : at' = [at EXCEPT ![s0] = e] =>
          at'[s0] = e /\ \A s \in Sessions : s # s0 => at'[s] = at[s]
    BY <1>1 DEF Types, TypeAt
  <2> QED
    BY <2>1, <2>2, <2>3, <2>4
<1>4. TxPast' /\ RowsCreated' /\ DailyGone' /\ AddsExpired' /\ StoredThere'
  BY <1>2 DEF tables, TxPast, RowsCreated, DailyGone, AddsExpired, StoredThere
<1>5. InTime'
  BY <1>1, <1>2, <1>3 DEF tables, Numbers, InTime
<1>6. FetchedFresh'
  BY <1>1, <1>2, <1>3 DEF tables, Numbers, FetchedFresh, FreshFrom
<1>7. PuttingFresh'
  BY <1>1, <1>2, <1>3 DEF tables, Numbers, PuttingFresh, FreshFrom, RunTx
<1>8. JobRunThere'
  BY <1>1, <1>2, <1>3 DEF tables, JobRunThere, JobTx
<1>9. PuttingOpen'
  BY <1>1, <1>2, <1>3 DEF tables, PuttingOpen, RunTx, JobTx
<1>10. AddsSumming'
  BY <1>1, <1>2, <1>3 DEF tables, AddsSumming, Summing
<1>11. SumsAll'
  BY <1>1, <1>2, <1>3 DEF tables, Numbers, Types, TypeRows, SumsAll, Summing
<1> QED
  BY <1>1, <1>4, <1>5, <1>6, <1>7, <1>8, <1>9, <1>10, <1>11

LEMMA InvSumRuns ==
  ASSUME NEW s0 \in Sessions, Inv, SumRuns(s0)
  PROVE  Inv'
<1> USE DEF Inv
<1>1. Types /\ Types' /\ Numbers
  BY TypeSumRuns, NumbersOK
<1>2. UNCHANGED <<tables, tick, lag, created, fetched, fetchedAt, putting, txNow, addJobs, overlapped>>
  BY DEF SumRuns
<1>3. /\ at[s0] = "run runs" /\ at'[s0] \in Summing
      /\ addRuns'[s0] = {r \in runRows \cup putting[s0] : created[r] < txNow[s0] - Retention}
      /\ \A s \in Sessions : s # s0 => at'[s] = at[s] /\ addRuns'[s] = addRuns[s]
  BY <1>1 DEF Types, TypeClock, TypeRows, TypeAt, TypeTimes, TypeSets, SumRuns,
       Expired, SeenRuns, RunPut, Cutoff, Summing
<1>4. TxPast' /\ RowsCreated' /\ DailyGone' /\ StoredThere'
  BY <1>2 DEF tables, TxPast, RowsCreated, DailyGone, StoredThere
<1>5. InTime'
  BY <1>1, <1>2, <1>3 DEF tables, Numbers, InTime
<1>6. FetchedFresh'
  BY <1>1, <1>2, <1>3 DEF tables, Summing, FetchedFresh, FreshFrom
<1>7. PuttingFresh'
  BY <1>1, <1>2, <1>3 DEF tables, Numbers, PuttingFresh, FreshFrom, RunTx
<1>8. JobRunThere'
  BY <1>1, <1>2, <1>3 DEF tables, Summing, JobRunThere, JobTx
<1>9. PuttingOpen'
  BY <1>1, <1>2, <1>3 DEF tables, Summing, PuttingOpen, RunTx, JobTx
<1>10. AddsSumming'
  BY <1>1, <1>2, <1>3 DEF tables, AddsSumming, Summing
<1>11. AddsExpired'
  <2>1. \A r \in putting[s0] : FreshFrom(r, fetchedAt[s0]) /\ r \in DatedRuns
    BY <1>1, <1>3 DEF PuttingFresh, RunTx, Types, TypeSets
  <2>2. \A r \in addRuns'[s0] : r \in runRows /\ created[r] < txNow[s0] - Retention
    BY <1>1, <1>3, <2>1, StillFresh
  <2>3. \A r \in addRuns'[s0] : created[r] >= 0
    BY <2>2 DEF RowsCreated
  <2> QED
    BY <1>2, <1>3, <2>2, <2>3 DEF tables, AddsExpired
<1>12. SumsAll'
  BY <1>1, <1>2, <1>3 DEF tables, Numbers, Types, TypeRows, SumsAll, Summing
<1> QED
  BY <1>1, <1>4, <1>5, <1>6, <1>7, <1>8, <1>9, <1>10, <1>11, <1>12

LEMMA InvAddAfterWait ==
  ASSUME NEW s0 \in Sessions, Inv, AddAfterWait(s0)
  PROVE  Inv'
<1> USE DEF Inv
<1>1. Types /\ Types' /\ Numbers
  BY TypeAddAfterWait, NumbersOK
<1>2. UNCHANGED <<tables, tick, lag, created, fetched, fetchedAt, putting, txNow, addRuns, addJobs, overlapped>>
  BY DEF AddAfterWait
<1>3. /\ \/ at[s0] = "jobs wait" /\ at'[s0] = "run runs"
         \/ at[s0] = "job wait" /\ at'[s0] = "job prune"
         \/ at[s0] = "runs wait" /\ at'[s0] = "run prune"
      /\ \A s \in Sessions : s # s0 => at'[s] = at[s]
  <2>1. \/ at[s0] = "jobs wait" /\ at' = [at EXCEPT ![s0] = "run runs"]
        \/ at[s0] = "job wait" /\ at' = [at EXCEPT ![s0] = "job prune"]
        \/ at[s0] = "runs wait" /\ at' = [at EXCEPT ![s0] = "run prune"]
    BY DEF AddAfterWait
  <2>4. \A e : at' = [at EXCEPT ![s0] = e] =>
          at'[s0] = e /\ \A s \in Sessions : s # s0 => at'[s] = at[s]
    BY <1>1 DEF Types, TypeAt
  <2> QED
    BY <2>1, <2>4
<1>4. TxPast' /\ RowsCreated' /\ DailyGone' /\ AddsExpired' /\ StoredThere'
  BY <1>2 DEF tables, TxPast, RowsCreated, DailyGone, AddsExpired, StoredThere
<1>5. InTime'
  BY <1>1, <1>2, <1>3 DEF tables, Numbers, InTime
<1>6. FetchedFresh'
  BY <1>1, <1>2, <1>3 DEF tables, Numbers, FetchedFresh, FreshFrom
<1>7. PuttingFresh'
  BY <1>1, <1>2, <1>3 DEF tables, Numbers, PuttingFresh, FreshFrom, RunTx
<1>8. JobRunThere'
  BY <1>1, <1>2, <1>3 DEF tables, JobRunThere, JobTx
<1>9. PuttingOpen'
  BY <1>1, <1>2, <1>3 DEF tables, PuttingOpen, RunTx, JobTx
<1>10. AddsSumming'
  BY <1>1, <1>2, <1>3 DEF tables, AddsSumming, Summing
<1>11. SumsAll'
  BY <1>1, <1>2, <1>3 DEF tables, Numbers, Types, TypeRows, SumsAll, Summing
<1> QED
  BY <1>1, <1>4, <1>5, <1>6, <1>7, <1>8, <1>9, <1>10, <1>11

\* What a commit does to the rows and to the daily row.
PruneEffect(s0) ==
  /\ \A r \in runRows' : r \in runRows \/ (at[s0] = "run prune" /\ r \in putting[s0])
  /\ \A r \in runRows : r \in runRows' \/ (at[s0] = "run prune" /\ r \in addRuns[s0])
  /\ at[s0] = "run prune" => \A r \in runRows' : ~(created[r] < txNow[s0] - Retention)
  /\ \A t \in Sessions : t # s0 => \A r \in putting[t] : r \in runRows => r \in runRows'
  /\ \A r \in stored' : r \in stored \/ r \in runRows \/ (at[s0] = "run prune" /\ r \in putting[s0])
  /\ at[s0] = "run prune" =>
       \A r \in putting[s0] : r \in runRows' \/ created[r] < txNow[s0] - Retention
AddEffect(s0) ==
  /\ \A r \in DatedRuns : runsDaily'[r] >= runsDaily[r] /\ runsDaily'[r] \in Int /\ runsDaily[r] \in Int
  /\ \A r \in addRuns[s0] : r \in DatedRuns /\ runsDaily'[r] > 0
  /\ \A r \in DatedRuns \ addRuns[s0] : runsDaily'[r] = runsDaily[r]
  /\ \A r \in addRuns[s0] : runsDaily[r] = 0 => runsDaily'[r] = 1
PutsFresh(s0) == at[s0] = "run prune" => \A r \in putting[s0] :
  /\ r \in DatedRuns /\ created[r] >= 0 /\ ~(runsDaily[r] > 0)
  /\ \A u \in Sessions : ~(created[r] < txNow[u] - Retention)

LEMMA PruneEffects ==
  ASSUME Inv, NEW s0 \in Sessions, Prune(s0)
  PROVE  PruneEffect(s0)
<1> USE DEF Inv
<1>a. at[s0] \in {"run prune", "job prune"}
  BY DEF Prune
<1>s. /\ at[s0] = "run prune" => SeenRuns(s0) = runRows \cup putting[s0]
      /\ at[s0] = "job prune" => SeenRuns(s0) = runRows
  BY DEF SeenRuns, RunPut
<1>p. /\ at[s0] = "run prune" => runRows' = SeenRuns(s0) \ Expired(s0, SeenRuns(s0))
      /\ at[s0] = "job prune" => runRows' = SeenRuns(s0)
      /\ stored' = stored \cup SeenRuns(s0)
      /\ at[s0] = "run prune" =>
           \A t \in Sessions : t # s0 => putting[t] \cap Expired(s0, SeenRuns(s0)) = {}
  <2>1. CASE at[s0] = "run prune"
    BY <2>1 DEF Prune, Others
  <2>2. CASE at[s0] = "job prune"
    BY <2>2 DEF Prune
  <2> QED
    BY <1>a, <2>1, <2>2
<1>e. \A r : r \in Expired(s0, SeenRuns(s0)) <=>
             r \in SeenRuns(s0) /\ created[r] < txNow[s0] - Retention
  BY DEF Expired, Cutoff
<1>r1. \A r \in runRows' : r \in runRows \/ (at[s0] = "run prune" /\ r \in putting[s0])
  BY <1>a, <1>s, <1>p
<1>r2. \A r \in runRows : r \in runRows' \/ (at[s0] = "run prune" /\ r \in addRuns[s0])
  <2>1. CASE at[s0] = "run prune"
    <3>1. \A r \in runRows : created[r] < txNow[s0] - Retention => r \in addRuns[s0]
      BY <2>1 DEF SumsAll, Summing
    <3> QED
      BY <2>1, <1>s, <1>p, <1>e, <3>1
  <2>2. CASE at[s0] = "job prune"
    BY <2>2, <1>s, <1>p
  <2> QED
    BY <1>a, <2>1, <2>2
<1>r3. at[s0] = "run prune" => \A r \in runRows' : ~(created[r] < txNow[s0] - Retention)
  BY <1>p, <1>e
<1>r4. \A t \in Sessions : t # s0 => \A r \in putting[t] : r \in runRows => r \in runRows'
  BY <1>a, <1>s, <1>p
<1>r5. \A r \in stored' : r \in stored \/ r \in runRows \/ (at[s0] = "run prune" /\ r \in putting[s0])
  BY <1>a, <1>s, <1>p
<1>r6. at[s0] = "run prune" =>
         \A r \in putting[s0] : r \in runRows' \/ created[r] < txNow[s0] - Retention
  BY <1>a, <1>s, <1>p, <1>e
<1> QED
  BY <1>r1, <1>r2, <1>r3, <1>r4, <1>r5, <1>r6 DEF PruneEffect

LEMMA AddEffects ==
  ASSUME Types, NEW s0 \in Sessions, Prune(s0)
  PROVE  AddEffect(s0)
<1>1. runsDaily' = AddTo(runsDaily, addRuns[s0])
  BY DEF Prune
<1>2. addRuns[s0] \subseteq DatedRuns /\ runsDaily \in [DatedRuns -> 0..2]
  BY DEF Types, TypeSets, TypeRows
<1>3. runsDaily' \in [DatedRuns -> 0..2]
  BY <1>1, <1>2, AddToType
<1>a. \A r \in DatedRuns :
        /\ AddTo(runsDaily, addRuns[s0])[r] >= runsDaily[r]
        /\ r \notin addRuns[s0] => AddTo(runsDaily, addRuns[s0])[r] = runsDaily[r]
        /\ r \in addRuns[s0] => AddTo(runsDaily, addRuns[s0])[r] > 0
        /\ r \in addRuns[s0] /\ runsDaily[r] = 0 => AddTo(runsDaily, addRuns[s0])[r] = 1
  BY <1>2 DEF AddTo
<1>4. \A r \in DatedRuns : runsDaily'[r] >= runsDaily[r] /\ (r \in addRuns[s0] => runsDaily'[r] > 0)
  BY <1>1, <1>a
<1>5. \A r \in DatedRuns : r \notin addRuns[s0] => runsDaily'[r] = runsDaily[r]
  BY <1>1, <1>a
<1>6. \A r \in DatedRuns : runsDaily'[r] \in Int /\ runsDaily[r] \in Int
  BY <1>2, <1>3
<1>7. \A r \in DatedRuns : r \in addRuns[s0] /\ runsDaily[r] = 0 => runsDaily'[r] = 1
  BY <1>1, <1>a
<1> QED
  BY <1>2, <1>4, <1>5, <1>6, <1>7 DEF AddEffect

LEMMA FreshPuts ==
  ASSUME Inv, NEW s0 \in Sessions
  PROVE  PutsFresh(s0)
<1> SUFFICES ASSUME at[s0] = "run prune", NEW r \in putting[s0]
             PROVE  /\ r \in DatedRuns /\ created[r] >= 0 /\ ~(runsDaily[r] > 0)
                    /\ \A u \in Sessions : ~(created[r] < txNow[u] - Retention)
  BY DEF PutsFresh
<1>1. r \in DatedRuns /\ FreshFrom(r, fetchedAt[s0])
  BY DEF Inv, Types, TypeSets, PuttingFresh, RunTx
<1> QED
  BY <1>1, StillFresh DEF Inv

LEMMA InvPrune ==
  ASSUME NEW s0 \in Sessions, Inv, Prune(s0)
  PROVE  Inv'
<1> USE DEF Inv
<1>1. Types /\ Types' /\ Numbers
  BY TypePrune, NumbersOK
<1>2. UNCHANGED <<tick, lag, created, fetched, overlapped>>
  BY DEF Prune, Close
<1>3. /\ at'[s0] \in {"idle", "page"} /\ at[s0] \in {"run prune", "job prune"}
      /\ putting'[s0] = {} /\ addRuns'[s0] = {} /\ txNow'[s0] = 0
      /\ fetched[s0] # {} => at'[s0] = "page" /\ fetchedAt'[s0] = fetchedAt[s0]
      /\ fetched[s0] = {} => at'[s0] = "idle"
      /\ \A s \in Sessions : s # s0 => at'[s] = at[s] /\ txNow'[s] = txNow[s]
             /\ fetchedAt'[s] = fetchedAt[s] /\ putting'[s] = putting[s]
             /\ addRuns'[s] = addRuns[s]
  <2>1. at[s0] \in {"run prune", "job prune"} /\ fetched' = fetched
    BY DEF Prune
  <2>2. /\ at' = [at EXCEPT ![s0] = IF fetched'[s0] # {} THEN "page" ELSE "idle"]
        /\ fetchedAt' = [fetchedAt EXCEPT ![s0] = IF fetched'[s0] # {} THEN @ ELSE 0]
        /\ putting' = [putting EXCEPT ![s0] = {}]
        /\ addRuns' = [addRuns EXCEPT ![s0] = {}]
        /\ txNow' = [txNow EXCEPT ![s0] = 0]
    BY DEF Prune, Close
  <2> QED
    BY <1>1, <2>1, <2>2 DEF Types, TypeAt, TypeTimes, TypeSets
<1>r. PruneEffect(s0)
  BY PruneEffects
<1>d. AddEffect(s0)
  BY <1>1, AddEffects
<1>f. PutsFresh(s0)
  BY FreshPuts
<1>4. InTime'
  BY <1>1, <1>2, <1>3 DEF tables, Numbers, InTime
<1>5. FetchedFresh'
  BY <1>1, <1>2, <1>3 DEF tables, Numbers, FetchedFresh, FreshFrom
<1>6. PuttingFresh'
  BY <1>1, <1>2, <1>3 DEF tables, Numbers, PuttingFresh, FreshFrom, RunTx
<1>7. JobRunThere'
  BY <1>2, <1>3, <1>r DEF JobRunThere, JobTx, PruneEffect
<1>8. PuttingOpen'
  BY <1>1, <1>2, <1>3 DEF tables, PuttingOpen, RunTx, JobTx
<1>9. TxPast'
  <2>1. txNow'[s0] <= tick'
    <3>1. txNow'[s0] = 0 /\ tick' = tick
      BY <1>2, <1>3
    <3>2. tick \in Nat
      BY <1>1 DEF Numbers
    <3> QED
      BY <3>1, <3>2
  <2>2. \A s \in Sessions : s # s0 => txNow'[s] <= tick'
    BY <1>2, <1>3 DEF TxPast
  <2> QED
    BY <2>1, <2>2 DEF TxPast
<1>10. RowsCreated'
  BY <1>2, <1>r, <1>f DEF RowsCreated, Types, TypeSets, PruneEffect, PutsFresh
<1>11. DailyGone'
  <2> SUFFICES ASSUME NEW r \in DatedRuns, runsDaily'[r] > 0
           PROVE  r \notin runRows' /\ created[r] >= 0 /\ created[r] < tick - Retention
    BY <1>2 DEF DailyGone
  <2>1. CASE r \in addRuns[s0]
    <3>1. created[r] >= 0 /\ created[r] < txNow[s0] - Retention
      BY <2>1 DEF AddsExpired
    <3>2. created[r] < tick - Retention
      BY <3>1, <1>1 DEF TxPast, Numbers
    <3>3. at[s0] = "run prune"
      BY <2>1, <1>3 DEF AddsSumming, Summing
    <3> QED
      BY <3>1, <3>2, <3>3, <1>r DEF PruneEffect
  <2>2. CASE r \notin addRuns[s0]
    <3>1. runsDaily[r] > 0
      BY <2>2, <1>d DEF AddEffect
    <3>2. r \notin runRows /\ created[r] >= 0 /\ created[r] < tick - Retention
      BY <3>1 DEF DailyGone
    <3>3. ~(at[s0] = "run prune" /\ r \in putting[s0])
      BY <3>1, <1>f DEF PutsFresh
    <3> QED
      BY <3>2, <3>3, <1>r DEF PruneEffect
  <2> QED
    BY <2>1, <2>2
<1>12. AddsSumming'
  BY <1>1, <1>2, <1>3 DEF tables, AddsSumming, Summing
<1>13. AddsExpired'
  <2> SUFFICES ASSUME NEW s \in Sessions, s # s0, NEW r \in addRuns[s]
           PROVE  /\ created[r] >= 0 /\ created[r] < txNow[s] - Retention
                  /\ r \in runRows' \/ runsDaily'[r] > 0
    BY <1>2, <1>3 DEF AddsExpired
  <2>1. created[r] >= 0 /\ created[r] < txNow[s] - Retention /\ (r \in runRows \/ runsDaily[r] > 0)
    BY DEF AddsExpired
  <2>2. r \in DatedRuns
    BY DEF Types, TypeSets
  <2>3. runsDaily[r] > 0 => runsDaily'[r] > 0
    BY <1>d, <2>2 DEF AddEffect
  <2> QED
    BY <1>r, <1>d, <2>1, <2>3 DEF PruneEffect, AddEffect
<1>14. SumsAll'
  <2> SUFFICES ASSUME NEW s \in Sessions, s # s0, at[s] \in Summing, NEW r \in runRows',
                         created[r] < txNow[s] - Retention
           PROVE  r \in addRuns[s]
    BY <1>2, <1>3 DEF SumsAll, Summing
  <2>1. r \in runRows
    BY <1>r, <1>f DEF Types, TypeSets, PruneEffect, PutsFresh
  <2> QED
    BY <2>1 DEF SumsAll
<1>15. StoredThere'
  <2> SUFFICES ASSUME NEW r \in stored' PROVE r \in DatedRuns /\ (r \in runRows' \/ runsDaily'[r] > 0)
    BY DEF StoredThere
  <2>1. CASE r \in runRows
    BY <2>1, <1>r, <1>d DEF Types, TypeRows, PruneEffect, AddEffect
  <2>2. CASE r \in stored \ runRows
    <3>1. runsDaily[r] > 0 /\ r \in DatedRuns
      BY <2>2 DEF StoredThere
    <3> QED
      BY <3>1, <1>d DEF AddEffect
  <2>3. CASE r \notin runRows /\ r \notin stored
    <3>1. at[s0] = "run prune" /\ r \in putting[s0] /\ r \in DatedRuns
      BY <2>3, <1>r DEF Types, TypeSets, PruneEffect
    <3> QED
      BY <3>1, <1>r, <1>f DEF PruneEffect, PutsFresh
  <2> QED
    BY <2>1, <2>2, <2>3
<1> QED
  BY <1>1, <1>4, <1>5, <1>6, <1>7, <1>8, <1>9, <1>10, <1>11, <1>12, <1>13, <1>14, <1>15

LEMMA InvAbort ==
  ASSUME NEW s0 \in Sessions, Inv, Abort(s0)
  PROVE  Inv'
<1> USE DEF Inv
<1>1. Types /\ Types' /\ Numbers
  BY TypeAbort, NumbersOK
<1>2. UNCHANGED <<tables, tick, lag, created, overlapped>>
  BY DEF Abort, Close
<1>3. /\ at'[s0] = "idle" /\ at[s0] # "idle"
      /\ fetched'[s0] = {} /\ putting'[s0] = {} /\ addRuns'[s0] = {} /\ txNow'[s0] = 0
      /\ \A s \in Sessions : s # s0 => at'[s] = at[s] /\ txNow'[s] = txNow[s]
             /\ fetchedAt'[s] = fetchedAt[s] /\ fetched'[s] = fetched[s]
             /\ putting'[s] = putting[s] /\ addRuns'[s] = addRuns[s]
  <2>1. /\ at[s0] # "idle" /\ fetched' = [fetched EXCEPT ![s0] = {}]
        /\ at' = [at EXCEPT ![s0] = IF fetched'[s0] # {} THEN "page" ELSE "idle"]
        /\ putting' = [putting EXCEPT ![s0] = {}] /\ txNow' = [txNow EXCEPT ![s0] = 0]
        /\ addRuns' = [addRuns EXCEPT ![s0] = {}]
        /\ fetchedAt' = [fetchedAt EXCEPT ![s0] = IF fetched'[s0] # {} THEN @ ELSE 0]
    BY DEF Abort, Close
  <2> QED
    BY <1>1, <2>1 DEF Types, TypeAt, TypeTimes, TypeSets
<1>4. RowsCreated' /\ DailyGone' /\ StoredThere'
  BY <1>2 DEF tables, RowsCreated, DailyGone, StoredThere
<1>5. InTime'
  BY <1>1, <1>2, <1>3 DEF tables, Numbers, InTime
<1>6. FetchedFresh'
  BY <1>1, <1>2, <1>3 DEF tables, Numbers, FetchedFresh, FreshFrom
<1>7. PuttingFresh'
  BY <1>1, <1>2, <1>3 DEF tables, Numbers, PuttingFresh, FreshFrom, RunTx
<1>8. JobRunThere'
  BY <1>1, <1>2, <1>3 DEF tables, JobRunThere, JobTx
<1>9. PuttingOpen'
  BY <1>1, <1>2, <1>3 DEF tables, PuttingOpen, RunTx, JobTx
<1>10. TxPast'
  BY <1>1, <1>2, <1>3 DEF tables, Numbers, TxPast
<1>11. AddsSumming'
  BY <1>1, <1>2, <1>3 DEF tables, AddsSumming, Summing
<1>12. AddsExpired'
  BY <1>1, <1>2, <1>3 DEF tables, Numbers, AddsExpired
<1>13. SumsAll'
  BY <1>1, <1>2, <1>3 DEF tables, Numbers, Types, TypeRows, SumsAll, Summing
<1> QED
  BY <1>1, <1>4, <1>5, <1>6, <1>7, <1>8, <1>9, <1>10, <1>11, <1>12, <1>13

LEMMA InvInit == RetentionInit => Inv
<1> SUFFICES ASSUME RetentionInit PROVE Inv
  OBVIOUS
<1>1. Types
  BY TypeInit
<1>2. InTime /\ FetchedFresh /\ PuttingFresh /\ JobRunThere /\ PuttingOpen
  BY DEF RetentionInit, InTime, FetchedFresh, PuttingFresh, JobRunThere, PuttingOpen, RunTx, JobTx
<1>3. TxPast /\ RowsCreated /\ DailyGone
  BY DEF RetentionInit, TxPast, RowsCreated, DailyGone
<1>4. AddsSumming /\ AddsExpired /\ SumsAll /\ StoredThere
  BY DEF RetentionInit, AddsSumming, AddsExpired, SumsAll, StoredThere
<1> QED
  BY <1>1, <1>2, <1>3, <1>4 DEF Inv

LEMMA InvStep == Inv /\ [RetentionNext]_retentionVars => Inv'
<1> SUFFICES ASSUME Inv, [RetentionNext]_retentionVars PROVE Inv'
  OBVIOUS
<1>1. CASE \E r \in DatedRuns : CreateRun(r)
  BY <1>1, InvCreateRun
<1>2. CASE HalfDay
  BY <1>2, InvHalfDay
<1>3. CASE \E s \in Sessions : SessionStep(s)
  BY <1>3, InvFetchRuns, InvPutRun, InvPutJob, InvSumJobs, InvSumRuns,
     InvAddAfterWait, InvPrune, InvAbort DEF SessionStep
<1>4. CASE UNCHANGED retentionVars
  <2>1. Types'
    BY <1>4, TypeStep DEF Inv
  <2>2. InTime' /\ FetchedFresh' /\ PuttingFresh' /\ JobRunThere' /\ PuttingOpen'
    BY <1>4 DEF retentionVars, Inv, InTime, FetchedFresh, PuttingFresh, FreshFrom,
                JobRunThere, PuttingOpen
  <2>3. TxPast' /\ RowsCreated' /\ DailyGone'
    BY <1>4 DEF retentionVars, Inv, TxPast, RowsCreated, DailyGone
  <2>4. AddsSumming' /\ AddsExpired' /\ SumsAll' /\ StoredThere'
    BY <1>4 DEF retentionVars, Inv, AddsSumming, AddsExpired, SumsAll, StoredThere
  <2> QED
    BY <2>1, <2>2, <2>3, <2>4 DEF Inv
<1> QED
  BY <1>1, <1>2, <1>3, <1>4 DEF RetentionNext

\* Nothing is deleted uncounted, whatever overlaps or fails: a run that was
\* stored is in its table or in its daily row.
THEOREM NothingPrunedUncounted == RetentionSpec => []PrunedRunsCounted
<1>1. Inv => PrunedRunsCounted
  BY DEF Inv, StoredThere, PrunedRunsCounted
<1> QED
  BY <1>1, InvInit, InvStep, PTL DEF RetentionSpec

-----------------------------------------------------------------------------
(* Once, while transactions do not overlap *)

AloneOpen == ~overlapped => \A s, t \in Sessions : Open(s) /\ Open(t) => s = t
AloneAdds == ~overlapped => \A s \in Sessions : addRuns[s] \subseteq runRows

LEMMA AloneOpenStep ==
  Types /\ AloneOpen /\ [RetentionNext]_retentionVars => AloneOpen'
<1> SUFFICES ASSUME Types, AloneOpen, [RetentionNext]_retentionVars PROVE AloneOpen'
  OBVIOUS
<1>0. at = [s \in Sessions |-> at[s]]
  BY DEF Types, TypeAt
<1>1. CASE UNCHANGED <<at, overlapped>>
  BY <1>1 DEF AloneOpen, Open
<1>2. ASSUME NEW s0 \in Sessions, NEW e, at' = [at EXCEPT ![s0] = e], overlapped' = overlapped,
             Open(s0) \/ e \in {"idle", "page"}
      PROVE  AloneOpen'
  BY <1>0, <1>2 DEF AloneOpen, Open
<1>3. ASSUME NEW s0 \in Sessions, NEW r, NEW e, Begin(s0, r, e)
      PROVE  AloneOpen'
  <2>1. at' = [at EXCEPT ![s0] = e]
        /\ overlapped' = (overlapped \/ \E t \in Others(s0) : Open(t))
    BY <1>3 DEF Begin
  <2> QED
    BY <1>0, <2>1 DEF AloneOpen, Open, Others
<1>4. ASSUME NEW s0 \in Sessions, SessionStep(s0) PROVE AloneOpen'
  <2>1. CASE FetchRuns(s0)
    BY <2>1, <1>2 DEF FetchRuns
  <2>2. CASE PutRun(s0) \/ PutJob(s0)
    BY <2>2, <1>3 DEF PutRun, PutJob
  <2>3. CASE SumJobs(s0)
    BY <2>3, <1>2 DEF SumJobs, Open
  <2>4. CASE SumRuns(s0)
    BY <2>4, <1>2 DEF SumRuns, Open
  <2>5. CASE AddAfterWait(s0)
    BY <2>5, <1>2 DEF AddAfterWait, Open
  <2>6. CASE Prune(s0)
    BY <2>6, <1>2 DEF Prune, Close
  <2>7. CASE Abort(s0)
    BY <2>7, <1>2 DEF Abort, Close
  <2> QED
    BY <1>4, <2>1, <2>2, <2>3, <2>4, <2>5, <2>6, <2>7 DEF SessionStep
<1>5. CASE \E r \in DatedRuns : CreateRun(r)
  BY <1>1, <1>5 DEF CreateRun
<1>6. CASE HalfDay
  BY <1>1, <1>6 DEF HalfDay
<1>7. CASE UNCHANGED retentionVars
  BY <1>1, <1>7 DEF retentionVars
<1> QED
  BY <1>4, <1>5, <1>6, <1>7 DEF RetentionNext

LEMMA AloneStep ==
  Inv /\ AloneOpen /\ AloneAdds /\ RunsCountedOnce /\ [RetentionNext]_retentionVars
    => AloneAdds' /\ RunsCountedOnce'
<1> SUFFICES ASSUME Inv, AloneOpen, AloneAdds, RunsCountedOnce,
                    [RetentionNext]_retentionVars
             PROVE  AloneAdds' /\ RunsCountedOnce'
  OBVIOUS
<1>0. addRuns \in [Sessions -> SUBSET DatedRuns]
  BY DEF Inv, Types, TypeSets
<1>1. ASSUME UNCHANGED <<addRuns, runRows, runsDaily>>, overlapped => overlapped'
      PROVE  AloneAdds' /\ RunsCountedOnce'
  BY <1>1 DEF AloneAdds, RunsCountedOnce
<1>2. ASSUME NEW s0 \in Sessions, SumRuns(s0) PROVE AloneAdds' /\ RunsCountedOnce'
  <2>1. UNCHANGED <<runRows, runsDaily, overlapped>>
    BY <1>2 DEF SumRuns, tables
  <2>2. at[s0] = "run runs" /\ addRuns' = [addRuns EXCEPT ![s0] = Expired(s0, SeenRuns(s0))]
    BY <1>2 DEF SumRuns
  <2>3. \A r \in putting[s0] : r \in DatedRuns /\ FreshFrom(r, fetchedAt[s0])
    BY <2>2 DEF Inv, Types, TypeSets, PuttingFresh, RunTx
  <2>4. \A r \in putting[s0] : ~(created[r] < txNow[s0] - Retention)
    BY <2>2, <2>3, StillFresh DEF Inv
  <2>5. SeenRuns(s0) = runRows \cup putting[s0]
    BY <2>2 DEF SeenRuns, RunPut
  <2>6. Expired(s0, SeenRuns(s0)) \subseteq runRows
    BY <2>4, <2>5 DEF Expired, Cutoff
  <2> QED
    BY <1>0, <2>1, <2>2, <2>6 DEF AloneAdds, RunsCountedOnce
<1>3. ASSUME NEW s0 \in Sessions, Prune(s0) PROVE AloneAdds' /\ RunsCountedOnce'
  <2>1. addRuns' = [addRuns EXCEPT ![s0] = {}] /\ overlapped' = overlapped
        /\ at[s0] \in {"run prune", "job prune"}
    BY <1>3 DEF Prune, Close
  <2>2. SUFFICES ASSUME ~overlapped
                 PROVE  /\ \A s \in Sessions : addRuns'[s] = {}
                        /\ \A r \in DatedRuns : runsDaily'[r] <= 1
    BY <2>1 DEF AloneAdds, RunsCountedOnce
  <2>3. \A s \in Sessions : s # s0 => at[s] \notin Summing
    BY <2>1, <2>2 DEF AloneOpen, Open, Summing
  <2>4. \A s \in Sessions : addRuns'[s] = {}
    BY <1>0, <2>1, <2>3 DEF Inv, AddsSumming
  <2>5. AddEffect(s0)
    BY <1>3, AddEffects DEF Inv
  <2>6. \A r \in addRuns[s0] : runsDaily[r] = 0
    <3>1. \A r \in addRuns[s0] : r \in runRows /\ r \in DatedRuns
      BY <1>0, <2>2 DEF AloneAdds
    <3>2. \A r \in addRuns[s0] : ~(runsDaily[r] > 0)
      BY <3>1 DEF Inv, DailyGone
    <3> QED
      BY <3>1, <3>2 DEF Inv, Types, TypeRows
  <2>7. \A r \in DatedRuns : runsDaily'[r] <= 1
    BY <2>2, <2>5, <2>6 DEF AddEffect, RunsCountedOnce
  <2> QED
    BY <2>4, <2>7
<1>4. ASSUME NEW s0 \in Sessions, Abort(s0) PROVE AloneAdds' /\ RunsCountedOnce'
  <2>1. addRuns' = [addRuns EXCEPT ![s0] = {}] /\ UNCHANGED <<runRows, runsDaily, overlapped>>
    BY <1>4 DEF Abort, Close, tables
  <2> QED
    BY <1>0, <2>1 DEF AloneAdds, RunsCountedOnce
<1>5. ASSUME NEW s0 \in Sessions, SessionStep(s0) PROVE AloneAdds' /\ RunsCountedOnce'
  <2>1. CASE FetchRuns(s0) \/ SumJobs(s0) \/ AddAfterWait(s0)
    BY <1>1, <2>1 DEF FetchRuns, SumJobs, AddAfterWait, tables
  <2>2. CASE PutRun(s0) \/ PutJob(s0)
    BY <1>1, <2>2 DEF PutRun, PutJob, Begin, tables
  <2> QED
    BY <1>2, <1>3, <1>4, <1>5, <2>1, <2>2 DEF SessionStep
<1>6. CASE \E r \in DatedRuns : CreateRun(r)
  BY <1>1, <1>6 DEF CreateRun, tables
<1>7. CASE HalfDay
  BY <1>1, <1>7 DEF HalfDay, tables
<1>8. CASE UNCHANGED retentionVars
  BY <1>1, <1>8 DEF retentionVars
<1> QED
  BY <1>5, <1>6, <1>7, <1>8 DEF RetentionNext

\* A run reaches its daily row at most once while no two transactions overlap.
THEOREM EachRunOnce == RetentionSpec => []RunsCountedOnce
<1>1. RetentionInit => AloneOpen /\ AloneAdds /\ RunsCountedOnce
  BY DEF RetentionInit, AloneOpen, AloneAdds, RunsCountedOnce, Open
<1>2. Inv => Types
  BY DEF Inv
<1> QED
  BY <1>1, <1>2, InvInit, InvStep, AloneOpenStep, AloneStep, PTL DEF RetentionSpec

-----------------------------------------------------------------------------
(* Jobs before the cascade.  From the sum to the commit of a transaction    *)
(* that is alone, each expired job it can delete is in what it adds.        *)

Summed == {"jobs wait", "run runs", "runs wait", "run prune", "job wait", "job prune"}
TimedPutting == \A s \in Sessions : timedPut[s] \subseteq JobPut(s)

JobSums == \A s \in Sessions : at[s] \in Summed =>
             \A r \in SeenTimed(s) : created[r] < txNow[s] - Retention => r \in addJobs[s]
JobsKept == \A r \in jobStored : r \in DatedRuns /\ (r \in timed \/ jobsDaily[r] > 0)
JobsInv == ~overlapped => JobSums /\ JobsKept

\* Only a transaction that inserts a job has one that is timed.
LEMMA TimedPuttingStep ==
  Inv /\ TimedPutting /\ [RetentionNext]_retentionVars => TimedPutting'
<1> SUFFICES ASSUME Inv, TimedPutting, [RetentionNext]_retentionVars PROVE TimedPutting'
  OBVIOUS
<1>0. /\ at = [s \in Sessions |-> at[s]] /\ putting = [s \in Sessions |-> putting[s]]
      /\ timedPut = [s \in Sessions |-> timedPut[s]]
  BY DEF Inv, Types, TypeAt, TypeSets
<1>1. ASSUME NEW s0 \in Sessions,
             \A s \in Sessions \ {s0} : /\ at'[s] = at[s] /\ putting'[s] = putting[s]
                                        /\ timedPut'[s] = timedPut[s],
             timedPut'[s0] \subseteq JobPut(s0)'
      PROVE  TimedPutting'
  BY <1>1 DEF TimedPutting, JobPut
<1>2. ASSUME UNCHANGED <<at, putting, timedPut>> PROVE TimedPutting'
  BY <1>2 DEF TimedPutting, JobPut
<1>3. ASSUME NEW s0 \in Sessions, SessionStep(s0) PROVE TimedPutting'
  <2>0. timedPut[s0] \subseteq JobPut(s0)
    BY DEF TimedPutting
  <2>1. CASE FetchRuns(s0)
    BY <1>0, <1>1, <2>0, <2>1 DEF FetchRuns, JobPut
  <2>2. CASE PutRun(s0)
    <3>1. at[s0] = "page" /\ timedPut' = timedPut
          /\ \E r : Begin(s0, r, "run jobs")
      BY <2>2 DEF PutRun
    <3>2. timedPut'[s0] = {}
      BY <2>0, <3>1 DEF JobPut
    <3> QED
      BY <1>0, <1>1, <3>1, <3>2 DEF Begin
  <2>3. CASE PutJob(s0)
    <3>1. PICK r \in runRows : PutsJob(s0, r)
      BY <2>3, PutJobOf
    <3>2. JobPut(s0)' = {r}
      BY <1>0, <3>1 DEF PutsJob, Begin, JobPut
    <3>3. timedPut'[s0] \subseteq {r}
      BY <1>0, <3>1 DEF PutsJob
    <3> QED
      BY <1>0, <1>1, <3>1, <3>2, <3>3 DEF PutsJob, Begin
  <2>4. CASE SumJobs(s0)
    <3>1. at[s0] = "job jobs" => at'[s0] \in {"job wait", "job prune"}
      BY <1>0, <2>4 DEF SumJobs
    <3> QED
      BY <1>0, <1>1, <2>0, <2>4, <3>1 DEF SumJobs, JobPut
  <2>5. CASE SumRuns(s0)
    BY <1>0, <1>1, <2>0, <2>5 DEF SumRuns, JobPut
  <2>6. CASE AddAfterWait(s0)
    BY <1>0, <1>1, <2>0, <2>6 DEF AddAfterWait, JobPut
  <2>7. CASE Prune(s0) \/ Abort(s0)
    BY <1>0, <1>1, <2>7 DEF Prune, Abort, Close
  <2> QED
    BY <1>3, <2>1, <2>2, <2>3, <2>4, <2>5, <2>6, <2>7 DEF SessionStep
<1>4. CASE \E r \in DatedRuns : CreateRun(r)
  BY <1>2, <1>4 DEF CreateRun
<1>5. CASE HalfDay
  BY <1>2, <1>5 DEF HalfDay
<1>6. CASE UNCHANGED retentionVars
  BY <1>2, <1>6 DEF retentionVars
<1> QED
  BY <1>3, <1>4, <1>5, <1>6 DEF RetentionNext

\* What a transaction may delete are jobs of runs that are there.
LEMMA TimedOfRows ==
  ASSUME Inv, TimedPutting, NEW s \in Sessions
  PROVE  /\ SeenTimed(s) \subseteq runRows
         /\ SeenTimed(s) \subseteq SeenJobs(s)
         /\ \A r \in SeenTimed(s) : r \in DatedRuns /\ created[r] >= 0
<1>1. JobPut(s) \subseteq runRows
  BY DEF Inv, JobRunThere, JobTx, JobPut
<1> QED
  BY <1>1 DEF Inv, Types, TypeRows, RowsCreated, TimedPutting, SeenTimed, SeenJobs

LEMMA CreateKeepsJobs ==
  ASSUME Inv, TimedPutting, JobsInv, NEW r0 \in DatedRuns, CreateRun(r0) PROVE JobsInv'
<1>1. /\ created' = [created EXCEPT ![r0] = tick] /\ created[r0] = -1
      /\ UNCHANGED <<overlapped, at, timed, timedPut, putting, txNow, addJobs, jobStored,
                     jobsDaily>>
  BY DEF CreateRun, tables
<1>2. \A s \in Sessions : \A r \in SeenTimed(s) : created'[r] = created[r]
  BY <1>1, TimedOfRows DEF Inv, Types, TypeClock
<1> QED
  BY <1>1, <1>2 DEF JobsInv, JobSums, JobsKept, SeenTimed, JobPut

LEMMA SumKeepsJobs ==
  ASSUME Inv, TimedPutting, JobsInv, NEW s0 \in Sessions, SumJobs(s0) PROVE JobsInv'
<1> DEFINE sum == IF at[s0] = "run jobs" THEN RunsJobs(s0)
                  ELSE Expired(s0, SeenTimed(s0) \cap SeenRuns(s0))
<1>1. /\ UNCHANGED <<overlapped, created, timed, timedPut, putting, txNow, jobStored,
                     jobsDaily>>
      /\ at[s0] \in {"run jobs", "job jobs"}
  BY DEF SumJobs, tables
<1>2. addJobs'[s0] = sum
      /\ \A s \in Sessions \ {s0} : addJobs'[s] = addJobs[s] /\ at'[s] = at[s]
  BY DEF SumJobs, Inv, Types, TypeAt, TypeSets
<1>3. at'[s0] \in JobTx <=> at[s0] = "job jobs"
  BY <1>1 DEF SumJobs, Inv, Types, TypeAt, JobTx
<1>4. \A r \in SeenTimed(s0) : created[r] < txNow[s0] - Retention => r \in sum
  <2>1. SeenTimed(s0) \subseteq SeenRuns(s0)
    BY TimedOfRows DEF SeenRuns
  <2> QED
    BY <2>1 DEF RunsJobs, Expired, Cutoff
<1>5. SeenTimed(s0)' = SeenTimed(s0)
  BY <1>1, <1>3 DEF SeenTimed, JobPut, JobTx
<1>6. \A s \in Sessions \ {s0} : SeenTimed(s)' = SeenTimed(s)
  BY <1>1, <1>2 DEF SeenTimed, JobPut
<1> QED
  BY <1>1, <1>2, <1>4, <1>5, <1>6 DEF JobsInv, JobSums, JobsKept

\* A session that goes on with its transaction, or leaves it.
LEMMA MoveKeepsJobs ==
  ASSUME Inv, JobsInv, NEW s0 \in Sessions,
         UNCHANGED <<created, timed, jobStored, jobsDaily>>,
         overlapped => overlapped',
         \A s \in Sessions \ {s0} : /\ at'[s] = at[s] /\ putting'[s] = putting[s]
                                    /\ timedPut'[s] = timedPut[s]
                                    /\ txNow'[s] = txNow[s] /\ addJobs'[s] = addJobs[s],
         \/ at'[s0] \notin Summed
         \/ /\ at[s0] \in Summed /\ (at[s0] \in JobTx <=> at'[s0] \in JobTx)
            /\ putting'[s0] = putting[s0] /\ timedPut'[s0] = timedPut[s0]
            /\ txNow'[s0] = txNow[s0] /\ addJobs'[s0] = addJobs[s0]
  PROVE  JobsInv'
<1> SUFFICES ASSUME ~overlapped' PROVE JobSums' /\ JobsKept'
  BY DEF JobsInv
<1>1. JobSums /\ JobsKept
  BY DEF JobsInv
<1>2. JobsKept'
  BY <1>1 DEF JobsKept
<1>3. ASSUME NEW s \in Sessions, at'[s] \in Summed
      PROVE  /\ SeenTimed(s)' = SeenTimed(s) /\ at[s] \in Summed
             /\ txNow'[s] = txNow[s] /\ addJobs'[s] = addJobs[s]
  BY <1>3 DEF SeenTimed, JobPut, JobTx
<1> QED
  BY <1>1, <1>2, <1>3 DEF JobSums

LEMMA PruneKeepsJobs ==
  ASSUME Inv, AloneOpen, TimedPutting, JobsInv, NEW s0 \in Sessions, Prune(s0)
  PROVE  JobsInv'
<1> SUFFICES ASSUME ~overlapped PROVE JobSums' /\ JobsKept'
  BY DEF JobsInv, Prune, Close
<1>1. at[s0] \in {"run prune", "job prune"} /\ JobSums /\ JobsKept
  BY DEF JobsInv, Prune
<1>2. \A s \in Sessions : at'[s] \notin Summed
  <2>1. \A s \in Sessions \ {s0} : at[s] \in {"idle", "page"}
    BY <1>1 DEF AloneOpen, Open
  <2>2. at' = [at EXCEPT ![s0] = IF fetched'[s0] # {} THEN "page" ELSE "idle"]
    BY DEF Prune, Close
  <2> QED
    BY <2>1, <2>2 DEF Inv, Types, TypeAt, Summed
<1>3. jobsDaily \in [DatedRuns -> 0..2] /\ jobsDaily' = AddTo(jobsDaily, addJobs[s0])
  BY DEF Prune, Inv, Types, TypeRows
<1>4. \A r \in DatedRuns : /\ jobsDaily[r] > 0 => jobsDaily'[r] > 0
                           /\ r \in addJobs[s0] => jobsDaily'[r] > 0
  <2>1. \A r \in DatedRuns : /\ AddTo(jobsDaily, addJobs[s0])[r] >= jobsDaily[r]
                             /\ r \in addJobs[s0] => AddTo(jobsDaily, addJobs[s0])[r] > 0
                             /\ jobsDaily[r] \in Int /\ AddTo(jobsDaily, addJobs[s0])[r] \in Int
    BY <1>3, AddToType
  <2> QED
    BY <1>3, <2>1
<1>5. /\ jobStored' = (jobStored \ JobPut(s0)) \cup (SeenTimed(s0) \cap SeenRuns(s0))
      /\ \A r \in SeenTimed(s0) : r \in timed' \/ created[r] < txNow[s0] - Retention
  <2>1. SeenTimed(s0) \subseteq runRows /\ SeenTimed(s0) \subseteq SeenJobs(s0)
        /\ runRows \subseteq SeenRuns(s0)
    BY TimedOfRows DEF SeenRuns
  <2>2. CASE at[s0] = "run prune"
    BY <2>1, <2>2 DEF Prune, Cascade, Expired, Cutoff
  <2>3. CASE at[s0] = "job prune"
    BY <2>1, <2>3 DEF Prune, Cascade, Expired, Cutoff
  <2> QED
    BY <1>1, <2>2, <2>3
<1>6. \A r \in SeenTimed(s0) : r \in DatedRuns /\ (r \in timed' \/ jobsDaily'[r] > 0)
  <2>1. \A r \in SeenTimed(s0) : created[r] < txNow[s0] - Retention => r \in addJobs[s0]
    BY <1>1 DEF JobSums, Summed
  <2> QED
    BY <1>4, <1>5, <2>1, TimedOfRows
<1>7. \A r \in jobStored \ JobPut(s0) :
        r \in DatedRuns /\ (r \in SeenTimed(s0) \/ jobsDaily[r] > 0)
  BY <1>1 DEF JobsKept, SeenTimed
<1> QED
  BY <1>2, <1>4, <1>5, <1>6, <1>7 DEF JobSums, JobsKept

LEMMA JobsInvStep ==
  Inv /\ AloneOpen /\ TimedPutting /\ JobsInv /\ [RetentionNext]_retentionVars => JobsInv'
<1> SUFFICES ASSUME Inv, AloneOpen, TimedPutting, JobsInv, [RetentionNext]_retentionVars
             PROVE  JobsInv'
  OBVIOUS
<1>0. /\ at = [s \in Sessions |-> at[s]] /\ putting = [s \in Sessions |-> putting[s]]
      /\ timedPut = [s \in Sessions |-> timedPut[s]]
      /\ txNow = [s \in Sessions |-> txNow[s]] /\ addJobs = [s \in Sessions |-> addJobs[s]]
  BY DEF Inv, Types, TypeAt, TypeSets, TypeTimes
<1>1. ASSUME UNCHANGED <<overlapped, created, at, timed, putting, timedPut, txNow, addJobs,
                         jobStored, jobsDaily>>
      PROVE  JobsInv'
  BY <1>1 DEF JobsInv, JobSums, JobsKept, SeenTimed, JobPut
<1>2. ASSUME NEW s0 \in Sessions, SessionStep(s0) PROVE JobsInv'
  <2>1. CASE FetchRuns(s0)
    BY <1>0, <2>1, MoveKeepsJobs DEF FetchRuns, tables, Summed
  <2>2. ASSUME NEW r, NEW label \in {"run jobs", "job jobs"}, Begin(s0, r, label),
               \A s \in Sessions \ {s0} : timedPut'[s] = timedPut[s]
        PROVE  JobsInv'
    BY <1>0, <2>2, MoveKeepsJobs DEF Begin, tables, Summed
  <2>3. CASE PutRun(s0) \/ PutJob(s0)
    <3>1. \A s \in Sessions \ {s0} : timedPut'[s] = timedPut[s]
      BY <1>0, <2>3 DEF PutRun, PutJob
    <3> QED
      BY <2>2, <2>3, <3>1 DEF PutRun, PutJob
  <2>4. CASE SumJobs(s0)
    BY <2>4, SumKeepsJobs
  <2>5. CASE SumRuns(s0)
    BY <1>0, <2>5, MoveKeepsJobs DEF SumRuns, tables, Summed, JobTx
  <2>6. CASE AddAfterWait(s0)
    BY <1>0, <2>6, MoveKeepsJobs DEF AddAfterWait, tables, Summed, JobTx
  <2>7. CASE Prune(s0)
    BY <2>7, PruneKeepsJobs
  <2>8. CASE Abort(s0)
    BY <1>0, <2>8, MoveKeepsJobs DEF Abort, Close, tables, Summed
  <2> QED
    BY <1>2, <2>1, <2>3, <2>4, <2>5, <2>6, <2>7, <2>8 DEF SessionStep
<1>3. CASE \E r \in DatedRuns : CreateRun(r)
  BY <1>3, CreateKeepsJobs
<1>4. CASE HalfDay
  BY <1>1, <1>4 DEF HalfDay, tables
<1>5. CASE UNCHANGED retentionVars
  BY <1>1, <1>5 DEF retentionVars
<1> QED
  BY <1>2, <1>3, <1>4, <1>5 DEF RetentionNext

\* fn_retain_workflow_runs and fn_retain_workflow_jobs (003:96) count a job
\* that has a start before it is deleted, by the cascade or for its age, while no two
\* transactions overlap.
THEOREM JobsPrunedAreCounted == RetentionSpec => []PrunedJobsCounted
<1>1. RetentionInit => AloneOpen /\ TimedPutting /\ JobsInv
  BY DEF RetentionInit, AloneOpen, Open, TimedPutting, JobsInv, JobSums, JobsKept, Summed
<1>2. Inv => Types
  BY DEF Inv
<1>3. Types /\ JobsInv => PrunedJobsCounted
  BY DEF Types, TypeRows, JobsInv, JobsKept, PrunedJobsCounted
<1> QED
  BY <1>1, <1>2, <1>3, InvInit, InvStep, AloneOpenStep, TimedPuttingStep, JobsInvStep, PTL DEF RetentionSpec

-----------------------------------------------------------------------------
(* The refinement *)

LEMMA PruneIsCommit ==
  ASSUME Inv, NEW s0 \in Sessions, Prune(s0)
  PROVE  Ledger!LedgerNext
<1> DEFINE new == runRows' \ runRows
           settled == runRows \ runRows'
<1>1. PruneEffect(s0) /\ AddEffect(s0) /\ PutsFresh(s0)
  BY PruneEffects, AddEffects, FreshPuts DEF Inv
<1>2. runRows \subseteq DatedRuns /\ \A r \in new : r \in DatedRuns
  BY <1>1 DEF Inv, Types, TypeRows, PruneEffect, PutsFresh
<1>3. \A r \in new : Place[r] = "github"
  BY <1>1, <1>2 DEF PruneEffect, PutsFresh, Place
<1>4. \A r \in settled : Place[r] = "raw"
  BY <1>2 DEF Place
<1>5. \A r \in settled : r \notin runRows' /\ runsDaily'[r] > 0
  BY <1>1 DEF PruneEffect, AddEffect
<1>6. \A r \in DatedRuns : r \notin runRows => (runsDaily'[r] > 0 <=> runsDaily[r] > 0)
  <2> SUFFICES ASSUME NEW r \in DatedRuns, r \notin runRows
               PROVE  runsDaily'[r] > 0 <=> runsDaily[r] > 0
    OBVIOUS
  <2>1. CASE r \in addRuns[s0]
    BY <1>1, <2>1 DEF Inv, AddsExpired, AddEffect
  <2>2. CASE r \notin addRuns[s0]
    BY <1>1, <2>2 DEF AddEffect
  <2> QED
    BY <2>1, <2>2
<1>7. \A r \in DatedRuns : Place'[r] = IF r \in new THEN "raw"
                                    ELSE IF r \in settled THEN "daily" ELSE Place[r]
  BY <1>5, <1>6 DEF Place
<1>8. Place' = [r \in DatedRuns |-> IF r \in new THEN "raw"
                                    ELSE IF r \in settled THEN "daily" ELSE Place[r]]
  BY <1>7 DEF Place
<1>9. Ledger!Commit(new, settled)
  BY <1>3, <1>4, <1>8 DEF Ledger!Commit
<1> QED
  BY <1>2, <1>9 DEF Ledger!LedgerNext

LEMMA LedgerStep ==
  Inv /\ [RetentionNext]_retentionVars => [Ledger!LedgerNext]_Place
<1> SUFFICES ASSUME Inv, [RetentionNext]_retentionVars PROVE [Ledger!LedgerNext]_Place
  OBVIOUS
<1>1. ASSUME UNCHANGED <<runRows, runsDaily>> PROVE UNCHANGED Place
  BY <1>1 DEF Place
<1>2. ASSUME NEW s0 \in Sessions, SessionStep(s0) PROVE [Ledger!LedgerNext]_Place
  <2>1. CASE Prune(s0)
    BY <2>1, PruneIsCommit
  <2>2. CASE ~Prune(s0)
    <3>1. UNCHANGED <<runRows, runsDaily>>
      BY <1>2, <2>2 DEF SessionStep, FetchRuns, PutRun, PutJob, Begin, SumJobs,
                        SumRuns, AddAfterWait, Abort, tables
    <3> QED
      BY <1>1, <3>1
  <2> QED
    BY <2>1, <2>2
<1>3. CASE \E r \in DatedRuns : CreateRun(r)
  BY <1>1, <1>3 DEF CreateRun, tables
<1>4. CASE HalfDay
  BY <1>1, <1>4 DEF HalfDay, tables
<1>5. CASE UNCHANGED retentionVars
  BY <1>1, <1>5 DEF retentionVars
<1> QED
  BY <1>2, <1>3, <1>4, <1>5 DEF RetentionNext

\* "A raw row passes through the rollup exactly once: in the statement that
\* deletes it" (003_retention_correctness.sql:31): both halves together.
THEOREM EachRunIsCounted == RetentionSpec => []EachRunCounted
  BY EachRunOnce, NothingPrunedUncounted, PTL DEF EachRunCounted

\* The retention of runs implements RunLedger, overlapping transactions,
\* deadlocks, crashes and clock skew included.
THEOREM ImplementsLedger == RetentionSpec => FollowsLedger
<1>1. RetentionInit => Ledger!LedgerInit
  BY DEF RetentionInit, Place, Ledger!LedgerInit
<1> QED
  BY <1>1, InvInit, InvStep, LedgerStep, PTL DEF RetentionSpec, FollowsLedger, Ledger!LedgerSpec
=============================================================================
