----------------------- MODULE GithubCollectionProofs -----------------------
(***************************************************************************)
(* What surrounds the synchronisation of github_exporter, for any          *)
(* repositories, quotas, floors, retries and failures, and for any pull    *)
(* requests, pages and retention windows: what the backfiller takes of the *)
(* quota, that its index stays in the rotation or stands right behind it,  *)
(* where the names are read again, and that no stored pull request escapes *)
(* the samples and rollups.                                                *)
(***************************************************************************)
EXTENDS GithubCollection, FiniteSetTheorems, SequenceTheorems, TLAPS

\* A behaviour is one of a single part; the others stand still.
LEMMA PartsStep ==
  ASSUME [Next]_vars
  PROVE  /\ [BackfillNext]_backfillVars /\ [PullsNext]_pullsVars
         /\ [AuthNext]_authVars
BY DEF Next, vars, Backfilling, Pulling, Authorizing

-----------------------------------------------------------------------------
\* The quota.  A step that has used some of it has its answer and only waits
\* for it.  Once the floor was passed as often as answers were lost and once
\* more, it is not passed again: the quota is gone, the low figure is on its
\* way to the backfiller, or the backfiller has it and pauses.
Answers == [kind : {"none", "ok", "primary", "secondary", "sleep"}, left : Nat]

QuotaTypes ==
  /\ quota \in Nat /\ spentInStep \in Nat /\ leaked \in Nat /\ mishaps \in Nat
  /\ reply \in [Loops2 -> Answers]
  /\ stepAt \in {"idle", "look", "work", "wait"}

StepWaits ==
  /\ stepAt = "wait" <=> reply["fills"].kind # "none"
  /\ stepAt \in {"look", "work"} => spentInStep = 0
  /\ reply["fills"].kind \notin {"none", "ok"} => spentInStep = 0
  /\ StepSpendsOne

LowFigure == reply["fills"].left > 0 /\ reply["fills"].left < Floor

FloorHolds ==
  /\ SparesTheFloor
  /\ \/ leaked <= mishaps
     \/ quota = 0
     \/ stepAt = "wait" /\ reply["fills"].kind = "ok" /\ LowFigure
     \/ stepAt = "idle" /\ ~HasHeadroom

QuotaInv == QuotaTypes /\ StepWaits /\ FloorHolds

LEMMA QuotaInvInit == BackfillInit => QuotaInv
<1> SUFFICES ASSUME BackfillInit PROVE QuotaInv
  OBVIOUS
<1>1. None \in Answers /\ "fills" \in Loops2
  BY DEF None, Answers, Loops2
<1>2. reply["fills"].kind = "none"
  BY <1>1 DEF BackfillInit, None
<1>3. QuotaTypes
  BY <1>1, BackfillAssumption DEF BackfillInit, QuotaTypes
<1> QED
  BY <1>2, <1>3 DEF BackfillInit, QuotaInv, StepWaits, StepSpendsOne, FloorHolds,
                    SparesTheFloor

\* What a request of loop l does to the quota and the answer.
LEMMA SendEffect ==
  ASSUME QuotaTypes, NEW l \in Loops2, Send(l)
  PROVE  /\ reply' \in [Loops2 -> Answers]
         /\ \A k \in Loops2 \ {l} : reply'[k] = reply[k]
         /\ quota' \in Nat /\ spentInStep' \in Nat /\ leaked' \in Nat
         /\ quota = 0 => quota' = 0
         /\ reply'[l].kind \in {"ok", "primary", "secondary"}
         /\ l = "polls" => UNCHANGED <<spentInStep, leaked>>
         /\ \/ UNCHANGED <<spentInStep, leaked>>
            \/ /\ l = "fills" /\ quota > 0 /\ reply'[l].kind = "ok"
               /\ spentInStep' = spentInStep + 1
               /\ \/ leaked' = leaked
                  \/ /\ leaked' = leaked + 1 /\ quota < Floor
                     /\ reply'[l].left = quota - 1 /\ quota' = quota - 1
<1>1. CASE quota > 0 /\ \E cost \in {0, 1} :
             /\ quota' = quota - cost
             /\ reply' = [reply EXCEPT ![l] = [kind |-> "ok", left |-> quota - cost]]
             /\ spentInStep' = spentInStep + (IF l = "fills" THEN cost ELSE 0)
             /\ leaked' = leaked + (IF l = "fills" /\ quota < Floor THEN cost ELSE 0)
  <2> PICK cost \in {0, 1} :
             /\ quota' = quota - cost
             /\ reply' = [reply EXCEPT ![l] = [kind |-> "ok", left |-> quota - cost]]
             /\ spentInStep' = spentInStep + (IF l = "fills" THEN cost ELSE 0)
             /\ leaked' = leaked + (IF l = "fills" /\ quota < Floor THEN cost ELSE 0)
    BY <1>1
  <2>1. quota - cost \in Nat /\ [kind |-> "ok", left |-> quota - cost] \in Answers
    BY <1>1 DEF QuotaTypes, Answers
  <2>2. /\ reply' \in [Loops2 -> Answers]
        /\ reply'[l] = [kind |-> "ok", left |-> quota - cost]
        /\ \A k \in Loops2 \ {l} : reply'[k] = reply[k]
    BY <2>1 DEF QuotaTypes
  <2> QED
    BY <1>1, <2>1, <2>2 DEF QuotaTypes
<1>2. ASSUME NEW kind \in {"primary", "secondary"},
             reply' = [reply EXCEPT ![l] = [kind |-> kind, left |-> 0]],
             UNCHANGED <<quota, spentInStep, leaked>>
      PROVE  /\ reply' \in [Loops2 -> Answers] /\ reply'[l].kind = kind
             /\ \A k \in Loops2 \ {l} : reply'[k] = reply[k]
  BY <1>2 DEF QuotaTypes, Answers
<1> QED
  BY <1>1, <1>2 DEF Send, QuotaTypes

\* A request of the backfiller, in a step that has used nothing so far.
LEMMA FillsKeepQuota ==
  ASSUME QuotaInv, Send("fills"), stepAt' = "wait", mishaps' = mishaps,
         \/ stepAt = "work"
         \/ stepAt = "wait" /\ reply["fills"].kind = "sleep"
  PROVE  QuotaInv'
<1>0. "fills" \in Loops2 /\ Floor \in Nat \ {0}
  BY BackfillAssumption DEF Loops2
<1>1. /\ reply' \in [Loops2 -> Answers] /\ quota' \in Nat
      /\ spentInStep' \in Nat /\ leaked' \in Nat /\ (quota = 0 => quota' = 0)
      /\ reply'["fills"].kind \in {"ok", "primary", "secondary"}
      /\ \/ UNCHANGED <<spentInStep, leaked>>
         \/ /\ quota > 0 /\ reply'["fills"].kind = "ok"
            /\ spentInStep' = spentInStep + 1
            /\ \/ leaked' = leaked
               \/ /\ leaked' = leaked + 1 /\ quota < Floor
                  /\ reply'["fills"].left = quota - 1 /\ quota' = quota - 1
  BY <1>0, SendEffect DEF QuotaInv
<1>2. spentInStep = 0
  BY DEF QuotaInv, StepWaits
<1>3. leaked <= mishaps \/ quota = 0
  BY DEF QuotaInv, FloorHolds
<1>4. QuotaTypes'
  BY <1>1 DEF QuotaInv, QuotaTypes
<1>5. StepWaits'
  BY <1>1, <1>2 DEF StepWaits, StepSpendsOne
<1>6. CASE leaked' = leaked
  BY <1>1, <1>3, <1>4, <1>5, <1>6 DEF QuotaInv, FloorHolds, SparesTheFloor
<1>7. CASE leaked' = leaked + 1 /\ quota > 0 /\ quota < Floor
           /\ reply'["fills"].left = quota - 1 /\ quota' = quota - 1
           /\ reply'["fills"].kind = "ok"
  <2>1. leaked' <= 1 + mishaps'
    BY <1>3, <1>7 DEF QuotaInv, QuotaTypes
  <2>2. quota' = 0 \/ LowFigure'
    BY <1>0, <1>7 DEF QuotaInv, QuotaTypes, LowFigure
  <2> QED
    BY <1>4, <1>5, <1>7, <2>1, <2>2 DEF QuotaInv, FloorHolds, SparesTheFloor
<1> QED
  BY <1>1, <1>4, <1>5, <1>6, <1>7 DEF QuotaInv

\* The poller's request takes from the quota only.
LEMMA PollsKeepQuota ==
  ASSUME QuotaInv, Send("polls"), UNCHANGED <<stepAt, mishaps, remaining>>
  PROVE  QuotaInv'
<1>1. /\ reply' \in [Loops2 -> Answers] /\ reply'["fills"] = reply["fills"]
      /\ quota' \in Nat /\ (quota = 0 => quota' = 0)
      /\ UNCHANGED <<spentInStep, leaked>>
  BY SendEffect DEF QuotaInv, Loops2
<1> QED
  BY <1>1 DEF QuotaInv, QuotaTypes, StepWaits, StepSpendsOne, FloorHolds,
              SparesTheFloor, LowFigure, HasHeadroom

\* The poller hears from GitHub, or waits to ask again.
LEMMA HearingKeepsQuota ==
  ASSUME QuotaInv, NEW a \in Answers, reply' = [reply EXCEPT !["polls"] = a],
         UNCHANGED <<quota, spentInStep, stepAt>>,
         \/ leaked' = 0 /\ mishaps' = mishaps
         \/ leaked' = leaked /\ mishaps' = mishaps + 1
  PROVE  QuotaInv'
<1>1. reply' \in [Loops2 -> Answers] /\ reply'["fills"] = reply["fills"]
  BY DEF QuotaInv, QuotaTypes, Loops2
<1>2. /\ mishaps' \in Nat /\ leaked' \in Nat
      /\ leaked' <= mishaps' /\ leaked' <= 1 + mishaps'
  BY DEF QuotaInv, QuotaTypes, FloorHolds, SparesTheFloor
<1>3. QuotaTypes' /\ StepWaits'
  BY <1>1, <1>2 DEF QuotaInv, QuotaTypes, StepWaits, StepSpendsOne
<1>4. FloorHolds'
  BY <1>2 DEF FloorHolds, SparesTheFloor
<1> QED
  BY <1>3, <1>4 DEF QuotaInv

\* The answer of a step arrives, or is lost.
LEMMA ReceiveKeepsQuota == ASSUME QuotaInv, Receive PROVE QuotaInv'
<1>1. /\ stepAt = "wait" /\ stepAt' = "idle"
      /\ reply' = [reply EXCEPT !["fills"] = None]
      /\ UNCHANGED <<quota, spentInStep, leaked>>
  BY DEF Receive, Returns, Lost
<1>2. reply' \in [Loops2 -> Answers] /\ reply'["fills"].kind = "none"
  BY <1>1 DEF QuotaInv, QuotaTypes, Loops2, None, Answers
<1>3. CASE Returns("fills") /\ mishaps' = mishaps
  <2>1. reply["fills"].kind = "ok" /\ LowFigure => ~HasHeadroom'
    BY <1>3 DEF Returns, Recorded, LowFigure, HasHeadroom
  <2>2. reply["fills"].left \in Nat
    BY DEF QuotaInv, QuotaTypes, Loops2, Answers
  <2> QED
    BY <1>1, <1>2, <1>3, <2>1 DEF QuotaInv, QuotaTypes, StepWaits, StepSpendsOne,
                                  FloorHolds, SparesTheFloor
<1>4. CASE Lost("fills") \/ Mishap
  <2>1. mishaps' = mishaps + 1
    BY <1>4 DEF Lost, Mishap
  <2>2. mishaps' \in Nat /\ leaked' <= mishaps'
    BY <1>1, <2>1 DEF QuotaInv, QuotaTypes, FloorHolds, SparesTheFloor
  <2> QED
    BY <1>1, <1>2, <2>1, <2>2 DEF QuotaInv, QuotaTypes, StepWaits, StepSpendsOne,
                                  FloorHolds, SparesTheFloor
<1> QED
  BY <1>3, <1>4 DEF Receive

\* Get asks again only for a request that has cost nothing.
LEMMA RetryKeepsQuota ==
  ASSUME QuotaInv, NEW l \in Loops2, Retry(l) PROVE QuotaInv'
<1>1. [kind |-> "sleep", left |-> 0] \in Answers
  BY DEF Answers
<1>2. CASE l = "polls"
  BY <1>1, <1>2, HearingKeepsQuota DEF Retry
<1>3. CASE l = "fills"
  <2>1. /\ reply' \in [Loops2 -> Answers] /\ reply'["fills"].kind = "sleep"
        /\ reply["fills"].kind \in {"primary", "secondary"}
        /\ UNCHANGED <<quota, spentInStep, leaked, mishaps, stepAt>>
    BY <1>1, <1>3 DEF Retry, QuotaInv, QuotaTypes
  <2> QED
    BY <2>1 DEF QuotaInv, QuotaTypes, StepWaits, StepSpendsOne, FloorHolds,
                SparesTheFloor
<1> QED
  BY <1>2, <1>3 DEF Loops2

\* The steps between a tick and its request, and what ends them early.
LEMMA LookKeepsQuota ==
  ASSUME QuotaInv, Tick \/ NextRepo \/ NothingToDo \/ Panic PROVE QuotaInv'
<1>1. CASE Tick
  <2>1. /\ stepAt = "idle" /\ spentInStep' = 0
        /\ UNCHANGED <<quota, reply, leaked, remaining>>
        /\ \/ ~HasHeadroom /\ UNCHANGED <<stepAt, mishaps>>
           \/ HasHeadroom /\ stepAt' \in {"idle", "look"}
              /\ (mishaps' = mishaps \/ mishaps' = mishaps + 1)
    BY <1>1 DEF Tick, Mishap
  <2> QED
    BY <2>1 DEF QuotaInv, QuotaTypes, StepWaits, StepSpendsOne, FloorHolds,
                SparesTheFloor, HasHeadroom
<1>2. CASE NextRepo
  <2>1. /\ stepAt = "look" /\ stepAt' = "work"
        /\ UNCHANGED <<quota, reply, leaked, remaining, mishaps, spentInStep>>
    BY <1>2 DEF NextRepo
  <2> QED
    BY <2>1 DEF QuotaInv, QuotaTypes, StepWaits, StepSpendsOne, FloorHolds,
                SparesTheFloor
<1>3. CASE NothingToDo
  <2>1. /\ stepAt = "work" /\ stepAt' \in {"look", "idle"}
        /\ UNCHANGED <<quota, reply, leaked, remaining, spentInStep>>
        /\ mishaps' = mishaps \/ mishaps' = mishaps + 1
    BY <1>3 DEF NothingToDo, Mishap
  <2> QED
    BY <2>1 DEF QuotaInv, QuotaTypes, StepWaits, StepSpendsOne, FloorHolds,
                SparesTheFloor
<1>4. CASE Panic
  <2>1. /\ stepAt = "look" /\ stepAt' = "idle" /\ mishaps' = mishaps + 1
        /\ reply' = [l \in Loops2 |-> None]
        /\ UNCHANGED <<quota, leaked, spentInStep>>
    BY <1>4 DEF Panic, Mishap
  <2>2. reply' \in [Loops2 -> Answers] /\ reply'["fills"].kind = "none"
    BY <2>1 DEF Loops2, None, Answers
  <2> QED
    BY <2>1, <2>2 DEF QuotaInv, QuotaTypes, StepWaits, StepSpendsOne, FloorHolds,
                      SparesTheFloor
<1> QED
  BY <1>1, <1>2, <1>3, <1>4

LEMMA QuotaInvStep == ASSUME QuotaInv, [BackfillNext]_backfillVars PROVE QuotaInv'
<1>1. CASE NewHour
  <2>1. /\ quota' = Limit /\ leaked' = 0
        /\ UNCHANGED <<reply, stepAt, spentInStep, mishaps>>
    BY <1>1 DEF NewHour
  <2> QED
    BY <2>1, BackfillAssumption DEF QuotaInv, QuotaTypes, StepWaits, StepSpendsOne,
                                    FloorHolds, SparesTheFloor
<1>2. CASE PollerAsks
  BY <1>2, PollsKeepQuota DEF PollerAsks
<1>3. CASE PollerHears
  <2>1. None \in Answers
    BY DEF None, Answers
  <2> QED
    BY <1>3, <2>1, HearingKeepsQuota DEF PollerHears, Returns, Lost, Mishap
<1>4. CASE (\E r \in RepoSet : FindRepo(r) \/ FindWork(r)) \/ UNCHANGED backfillVars
  <2>1. UNCHANGED <<quota, reply, stepAt, spentInStep, leaked, mishaps, remaining>>
    BY <1>4 DEF FindRepo, FindWork, backfillVars
  <2> QED
    BY <2>1 DEF QuotaInv, QuotaTypes, StepWaits, StepSpendsOne, FloorHolds,
                SparesTheFloor, LowFigure, HasHeadroom
<1>5. ASSUME NEW l \in Loops2, AskAgain(l) PROVE QuotaInv'
  <2>1. CASE l = "polls"
    BY <1>5, <2>1, PollsKeepQuota DEF AskAgain
  <2>2. CASE l = "fills"
    <3>1. stepAt = "wait"
      BY <1>5, <2>2 DEF AskAgain, QuotaInv, StepWaits
    <3> QED
      BY <1>5, <2>2, <3>1, FillsKeepQuota DEF AskAgain
  <2> QED
    BY <2>1, <2>2 DEF Loops2
<1>6. CASE Ask
  BY <1>6, FillsKeepQuota DEF Ask
<1> QED
  BY <1>1, <1>2, <1>3, <1>4, <1>5, <1>6, RetryKeepsQuota, LookKeepsQuota,
     ReceiveKeepsQuota DEF BackfillNext

\* However the answers of the two loops overtake each other, are lost or asked
\* for again, a step of the backfiller uses one request of the quota at most,
\* and passes the floor once and once more for each lost answer (backfill.go).
THEOREM QuotaIsSpared == Spec => []QuotaSpared
<1>1. Init => QuotaInv
  BY QuotaInvInit DEF Init
<1>2. QuotaInv /\ [Next]_vars => QuotaInv'
  BY QuotaInvStep, PartsStep
<1>3. QuotaInv => QuotaSpared
  BY DEF QuotaInv, StepWaits, FloorHolds, QuotaSpared
<1> QED
  BY <1>1, <1>2, <1>3, PTL DEF Spec
-----------------------------------------------------------------------------
\* The pull requests.  What was collected and stored exists at GitHub; a row is
\* as it was last stored, or was pruned after the window, and added then.
RowKept(p) ==
  \/ pullRows[p] = told[p]
  \/ pullRows[p] = Absent /\ told[p] > 0 /\ told[p] < day - RetainDays

PullsTypes ==
  /\ day \in 1..LastDay /\ openedOn \in [Pulls -> 0..LastDay]
  /\ pull \in [Pulls -> States] /\ collected \in [Pulls -> States]
  /\ pullRows \in [Pulls -> States] /\ told \in [Pulls -> States]
  /\ openedDaily \in [Pulls -> 0..2]

PullsExist ==
  \A p \in Pulls : collected[p] # Absent \/ told[p] # Absent => pull[p] # Absent
RowsKept == \A p \in Pulls : RowKept(p)

PullsInv == PullsTypes /\ PullsExist /\ RowsKept /\ PullsAccountedFor

LEMMA PullsInvInit == PullsInit => PullsInv
<1> SUFFICES ASSUME PullsInit PROVE PullsInv
  OBVIOUS
<1>1. PullsTypes
  BY PullsAssumption DEF PullsInit, PullsTypes, NoPulls, States, Absent
<1>2. PullsExist /\ RowsKept
  BY DEF PullsInit, PullsExist, RowsKept, RowKept, NoPulls
<1>3. PullsAccountedFor
  BY DEF PullsInit, PullsAccountedFor, SampleAccountsForAll, PrunedPullsCounted,
         There, NoPulls
<1> QED
  BY <1>1, <1>2, <1>3 DEF PullsInv

\* A step that leaves the tables alone, and of the past changes no pull request
\* that was ever stored.
LEMMA TablesKeepPulls ==
  ASSUME PullsInv, PullsTypes', PullsExist', UNCHANGED <<day, pullTables>>,
         sampled' = sampled,
         \A p \in There(told) : openedOn'[p] = openedOn[p]
  PROVE  PullsInv'
<1>1. UNCHANGED <<day, pullRows, openedDaily, eod, told, sampled>>
  BY DEF pullTables
<1>2. RowsKept' /\ PrunedPullsCounted'
  BY <1>1 DEF PullsInv, RowsKept, RowKept, PullsAccountedFor, PrunedPullsCounted,
              There
<1>3. SampleAccountsForAll'
  <2>1. \A d : {p \in There(told) : openedOn'[p] <= d /\ (told[p] = 0 \/ told[p] > d)}
             = {p \in There(told) : openedOn[p] <= d /\ (told[p] = 0 \/ told[p] > d)}
    OBVIOUS
  <2>2. There(told)' = There(told)
    BY <1>1 DEF There
  <2> QED
    BY <1>1, <2>1, <2>2 DEF PullsInv, PullsAccountedFor, SampleAccountsForAll
<1> QED
  BY <1>2, <1>3 DEF PullsInv, PullsAccountedFor

LEMMA HubKeepsPulls ==
  ASSUME PullsInv, NEW p0 \in Pulls, OpenPull(p0) \/ ClosePull(p0)
  PROVE  PullsInv'
<1>1. UNCHANGED <<day, collected, pullTables, sampled>>
  BY DEF OpenPull, ClosePull
<1>2. PullsTypes'
  <2>1. 0 \in States /\ day \in States /\ day \in 0..LastDay
    BY PullsAssumption DEF PullsInv, PullsTypes, States, Absent
  <2> QED
    BY <1>1, <2>1 DEF PullsInv, PullsTypes, OpenPull, ClosePull, pullTables
<1>3. \A p \in Pulls : pull[p] # Absent => pull'[p] # Absent
  <2>1. day # Absent /\ 0 # Absent
    BY DEF PullsInv, PullsTypes, Absent
  <2> QED
    BY <2>1 DEF PullsInv, PullsTypes, OpenPull, ClosePull
<1>4. PullsExist'
  BY <1>1, <1>3 DEF PullsInv, PullsExist, pullTables
<1>5. \A p \in There(told) : openedOn'[p] = openedOn[p]
  <2>1. ASSUME OpenPull(p0), NEW p \in There(told) PROVE openedOn'[p] = openedOn[p]
    <3>1. p \in Pulls /\ pull[p] # Absent
      BY <2>1 DEF PullsInv, PullsExist, There
    <3>2. p # p0
      BY <2>1, <3>1 DEF OpenPull
    <3> QED
      BY <2>1, <3>1, <3>2 DEF OpenPull, PullsInv, PullsTypes
  <2> QED
    BY <2>1 DEF ClosePull
<1> QED
  BY <1>1, <1>2, <1>4, <1>5, TablesKeepPulls

LEMMA NextDayKeepsPulls == ASSUME PullsInv, NextDay PROVE PullsInv'
<1>1. /\ day < LastDay /\ day' = day + 1 /\ sampled' = FALSE
      /\ UNCHANGED <<openedOn, pull, collected, pullRows, openedDaily, told>>
  BY DEF NextDay
<1>2. PullsTypes' /\ PullsExist'
  BY <1>1, PullsAssumption DEF PullsInv, PullsTypes, PullsExist
<1>3. RowsKept'
  <2>1. \A p \in Pulls : told[p] \in Int
    BY PullsAssumption DEF PullsInv, PullsTypes, States, Absent
  <2> QED
    BY <1>1, <2>1, PullsAssumption
       DEF PullsInv, PullsTypes, RowsKept, RowKept
<1> QED
  BY <1>1, <1>2, <1>3 DEF PullsInv, PullsAccountedFor, SampleAccountsForAll,
                          PrunedPullsCounted, There

\* What a page brings exists.
LEMMA CollectKeepsPulls == ASSUME PullsInv, CollectPage PROVE PullsInv'
<1> DEFINE page == PullsPage(pageNo)
<1>1. /\ UNCHANGED <<day, openedOn, pull, pullTables, sampled>>
      /\ \/ collected' = NoPulls \/ collected' = collected
         \/ collected' = [p \in Pulls |->
              IF page[p] # Absent THEN page[p] ELSE collected[p]]
  BY DEF CollectPage, hub
<1>2. \A p \in Pulls : page[p] \in {pull[p], Absent}
  BY DEF PullsPage
<1>3. \A p \in Pulls : collected'[p] \in {pull[p], Absent, collected[p]}
  BY <1>1, <1>2 DEF NoPulls
<1>4. collected' \in [Pulls -> States]
  <2>1. Absent \in States
    BY PullsAssumption DEF States, Absent
  <2>2. \A p \in Pulls : pull[p] \in States /\ collected[p] \in States
    BY DEF PullsInv, PullsTypes
  <2>3. collected' = [p \in Pulls |-> collected'[p]]
    BY <1>1 DEF NoPulls, PullsInv, PullsTypes
  <2> QED
    BY <1>3, <2>1, <2>2, <2>3
<1>5. PullsTypes' /\ PullsExist'
  BY <1>1, <1>3, <1>4 DEF PullsInv, PullsTypes, PullsExist, pullTables
<1> QED
  BY <1>1, <1>5, TablesKeepPulls

\* Forgetting what was collected.
LEMMA ForgetKeepsPulls ==
  ASSUME PullsInv, VisitRepo \/ SkipRepo \/ CrashPoll PROVE PullsInv'
<1>1. /\ UNCHANGED <<day, openedOn, pull, pullTables, sampled>>
      /\ collected' \in {NoPulls, collected}
  BY DEF VisitRepo, SkipRepo, CrashPoll, hub
<1>2. NoPulls \in [Pulls -> States] /\ \A p \in Pulls : NoPulls[p] = Absent
  BY PullsAssumption DEF NoPulls, States, Absent
<1>3. PullsTypes' /\ PullsExist'
  BY <1>1, <1>2 DEF PullsInv, PullsTypes, PullsExist, pullTables
<1> QED
  BY <1>1, <1>3, TablesKeepPulls

\* The statements with their triggers: a row that goes has expired and is added.
LEMMA StoreKeepsPulls == ASSUME PullsInv, StorePulls PROVE PullsInv'
<1>1. UNCHANGED <<day, openedOn, pull, collected>> /\ sampled' = FALSE
  BY DEF StorePulls, hub
<1>2. PICK put \in SUBSET There(collected) :
        LET rows == [p \in Pulls |-> IF p \in put THEN collected[p] ELSE pullRows[p]]
            ran == put # {}
        IN /\ pullRows' = [p \in Pulls |->
                IF ran /\ p \in ExpiredPulls(rows) THEN Absent ELSE rows[p]]
           /\ openedDaily' = [p \in Pulls |->
                IF ran /\ p \in ExpiredPulls(rows) /\ openedDaily[p] < 2
                THEN openedDaily[p] + 1 ELSE openedDaily[p]]
           /\ told' = [p \in Pulls |-> IF p \in put THEN collected[p] ELSE told[p]]
  BY DEF StorePulls
<1> DEFINE rows == [p \in Pulls |-> IF p \in put THEN collected[p] ELSE pullRows[p]]
           gone == IF put # {} THEN ExpiredPulls(rows) ELSE {}
<1>3. \A p \in Pulls : p \in gone => rows[p] > 0 /\ rows[p] < day - RetainDays
  BY DEF ExpiredPulls
<1>4. \A p \in Pulls :
        /\ pullRows'[p] = IF p \in gone THEN Absent ELSE rows[p]
        /\ told'[p] = IF p \in put THEN collected[p] ELSE told[p]
        /\ rows[p] = IF p \in put THEN collected[p] ELSE pullRows[p]
  BY <1>2
<1>5. \A p \in Pulls : /\ openedDaily'[p] \in 0..2
                       /\ openedDaily'[p] >= openedDaily[p]
                       /\ p \in gone => openedDaily'[p] > 0
  BY <1>2 DEF PullsInv, PullsTypes
<1>6. PullsTypes'
  <2>1. Absent \in States
    BY PullsAssumption DEF States, Absent
  <2>2. \A p \in Pulls : rows[p] \in States
    BY DEF PullsInv, PullsTypes
  <2>3. pullRows' \in [Pulls -> States] /\ told' \in [Pulls -> States]
    BY <1>2, <2>1, <2>2 DEF PullsInv, PullsTypes
  <2>4. openedDaily' \in [Pulls -> 0..2]
    <3>1. openedDaily' = [p \in Pulls |-> openedDaily'[p]]
      BY <1>2
    <3> QED
      BY <1>5, <3>1
  <2> QED
    BY <1>1, <2>3, <2>4 DEF PullsInv, PullsTypes
<1>7. PullsExist'
  BY <1>1, <1>4 DEF PullsInv, PullsExist
<1>8. RowsKept'
  <2> SUFFICES ASSUME NEW p \in Pulls PROVE RowKept(p)'
    BY DEF RowsKept
  <2>1. CASE p \in gone
    <3>1. rows[p] > 0 /\ rows[p] < day - RetainDays /\ pullRows'[p] = Absent
      BY <1>3, <1>4, <2>1
    <3>2. rows[p] = told'[p]
      <4>1. CASE p \in put
        BY <1>4, <4>1
      <4>2. CASE p \notin put
        <5>1. rows[p] = pullRows[p] /\ told'[p] = told[p]
          BY <1>4, <4>2
        <5>2. pullRows[p] # Absent
          BY <3>1, <5>1 DEF Absent
        <5> QED
          BY <5>1, <5>2 DEF PullsInv, RowsKept, RowKept
      <4> QED
        BY <4>1, <4>2
    <3> QED
      BY <1>1, <3>1, <3>2 DEF RowKept
  <2>2. CASE p \notin gone
    BY <1>1, <1>4, <2>2 DEF PullsInv, RowsKept, RowKept
  <2> QED
    BY <2>1, <2>2
<1>9. PrunedPullsCounted'
  <2> SUFFICES ASSUME NEW p \in Pulls, told'[p] # Absent, pullRows'[p] = Absent
               PROVE  openedDaily'[p] > 0
    BY DEF PrunedPullsCounted, There
  <2>1. CASE p \in gone
    BY <1>5, <2>1
  <2>2. CASE p \notin gone
    <3>1. p \notin put /\ told[p] # Absent /\ pullRows[p] = Absent
      BY <1>4, <2>2
    <3>2. openedDaily[p] > 0
      BY <3>1 DEF PullsInv, PullsAccountedFor, PrunedPullsCounted, There
    <3>3. openedDaily[p] \in 0..2 /\ openedDaily'[p] \in 0..2
          /\ openedDaily'[p] >= openedDaily[p]
      BY <1>5 DEF PullsInv, PullsTypes
    <3> QED
      BY <3>2, <3>3
  <2> QED
    BY <2>1, <2>2
<1> QED
  BY <1>1, <1>6, <1>7, <1>8, <1>9 DEF PullsInv, PullsAccountedFor, SampleAccountsForAll

\* What was pruned stood open on none of the two days that are sampled.
LEMMA SampleKeepsPulls == ASSUME PullsInv, Sample PROVE PullsInv'
<1>1. /\ UNCHANGED <<day, openedOn, pull, pullRows, openedDaily, told>>
      /\ collected' = NoPulls
  BY DEF Sample, hub
<1>2. PICK done \in SUBSET {day, day - 1} :
        /\ IF done = {day, day - 1} THEN sampled' = TRUE ELSE sampled' = FALSE
        /\ eod' = [d \in 1..LastDay |->
             IF d \in done
             THEN Cardinality({p \in There(pullRows) : OpenAtEnd(p, d)})
             ELSE eod[d]]
  BY DEF Sample
<1>3. NoPulls \in [Pulls -> States] /\ \A p \in Pulls : NoPulls[p] = Absent
  BY PullsAssumption DEF NoPulls, States, Absent
<1>4. PullsTypes' /\ PullsExist' /\ RowsKept' /\ PrunedPullsCounted'
  BY <1>1, <1>3 DEF PullsInv, PullsTypes, PullsExist, RowsKept, RowKept,
                    PullsAccountedFor, PrunedPullsCounted, There
<1>5. SampleAccountsForAll'
  <2> SUFFICES ASSUME sampled' = TRUE, NEW d \in {day, day - 1} \ {0}
               PROVE  eod'[d] = Cardinality({p \in There(told) :
                        openedOn[p] <= d /\ (told[p] = 0 \/ told[p] > d)})
    BY <1>1 DEF SampleAccountsForAll, There
  <2>1. d \in 1..LastDay /\ d >= day - 1
    BY PullsAssumption DEF PullsInv, PullsTypes
  <2>2. eod'[d] = Cardinality({p \in There(pullRows) : OpenAtEnd(p, d)})
    BY <1>2, <2>1
  <2>3. \A p \in Pulls :
          p \in There(pullRows) /\ OpenAtEnd(p, d) <=>
          p \in There(told) /\ openedOn[p] <= d /\ (told[p] = 0 \/ told[p] > d)
    <3> SUFFICES ASSUME NEW p \in Pulls
                 PROVE  p \in There(pullRows) /\ OpenAtEnd(p, d) <=>
                        /\ p \in There(told) /\ openedOn[p] <= d
                        /\ told[p] = 0 \/ told[p] > d
      OBVIOUS
    <3>1. CASE pullRows[p] = told[p]
      BY <3>1 DEF There, OpenAtEnd
    <3>2. CASE pullRows[p] = Absent /\ told[p] > 0 /\ told[p] < day - RetainDays
      <4>1. told[p] \in Int /\ day \in Int /\ RetainDays \in Nat /\ RetainDays > 0
        BY PullsAssumption DEF PullsInv, PullsTypes, States, Absent
      <4>2. ~(told[p] = 0 \/ told[p] > d)
        BY <2>1, <3>2, <4>1
      <4> QED
        BY <3>2, <4>2 DEF There
    <3> QED
      BY <3>1, <3>2 DEF PullsInv, RowsKept, RowKept
  <2>4. {p \in There(pullRows) : OpenAtEnd(p, d)}
          = {p \in There(told) : openedOn[p] <= d /\ (told[p] = 0 \/ told[p] > d)}
    BY <2>3 DEF There
  <2> QED
    BY <2>2, <2>4
<1> QED
  BY <1>4, <1>5 DEF PullsInv, PullsAccountedFor

LEMMA PullsInvStep == ASSUME PullsInv, [PullsNext]_pullsVars PROVE PullsInv'
<1>1. CASE UNCHANGED pullsVars
  BY <1>1, TablesKeepPulls DEF pullsVars, pullTables, PullsInv, PullsTypes, PullsExist
<1>2. CASE PullsNext
  BY <1>2, HubKeepsPulls, NextDayKeepsPulls, CollectKeepsPulls, ForgetKeepsPulls,
     StoreKeepsPulls, SampleKeepsPulls DEF PullsNext, PollStep
<1> QED
  BY <1>1, <1>2

\* Whatever is lost, fails or crashes, a sample of open pull requests accounts
\* for each one ever stored, and none is pruned that was not added to its day
\* (rollups.go, 003_retention_correctness.sql).
THEOREM PullsAreAccountedFor == Spec => []PullsAccountedFor
<1>1. Init => PullsInv
  BY PullsInvInit DEF Init
<1>2. PullsInv /\ [Next]_vars => PullsInv'
  BY PullsInvStep, PartsStep
<1>3. PullsInv => PullsAccountedFor
  BY DEF PullsInv
<1> QED
  BY <1>1, <1>2, <1>3, PTL DEF Spec

-----------------------------------------------------------------------------
\* The types.  A rotation is of known repositories, the cursor within it or
\* just behind its end, and a step that has looks left has a rotation: the index
\* of nextRepo (backfill.go) is in range wherever the names could be read.

BackfillTypes ==
  /\ quota \in 0..Limit /\ polled \in 0..PollCost /\ remaining \in 0..Limit
  /\ pending \subseteq known /\ known \subseteq RepoSet
  /\ reply \in [Loops2 -> [kind : {"none", "ok", "primary", "secondary", "sleep"},
                           left : 0..Limit]]
  /\ attempts \in [Loops2 -> 0..MaxRetry]
  /\ stepAt \in {"idle", "look", "work", "wait"} /\ paused \in BOOLEAN
  /\ mishaps \in Nat /\ throttles \in Nat /\ mishaps + throttles <= MaxMishaps

RotationTypes ==
  /\ rotation \in Seq(known) /\ Len(rotation) <= Len(Repos)
  /\ cursor \in 1..(Len(rotation) + 1)
  /\ looks \in 0..Len(Repos) /\ (looks > 0 => rotation # <<>>)
  /\ target \in RepoSet \union {"none"}

BackfillInv == BackfillTypes /\ RotationTypes

\* The names that are listed are those known, and no more than there are.
LEMMA ListingLength ==
  ASSUME known \subseteq RepoSet, NEW names \in Listings
  PROVE  /\ names \in Seq(known) /\ Len(names) <= Len(Repos)
         /\ known # {} => Len(names) > 0
<1>1. /\ Len(Repos) \in Nat /\ DOMAIN Repos = 1..Len(Repos)
      /\ RepoSet = {Repos[i] : i \in 1..Len(Repos)}
  BY BackfillAssumption, LenProperties DEF RepoSet, ToSet
<1>2. IsFiniteSet(RepoSet) /\ Cardinality(RepoSet) <= Len(Repos)
  <2>1. IsFiniteSet(1..Len(Repos)) /\ Cardinality(1..Len(Repos)) = Len(Repos)
    <3>1. /\ IsFiniteSet(1..Len(Repos))
          /\ Cardinality(1..Len(Repos)) = IF 1 > Len(Repos) THEN 0 ELSE Len(Repos) - 1 + 1
      BY <1>1, FS_Interval
    <3> QED
      BY <1>1, <3>1
  <2>2. Repos \in Surjection(1..Len(Repos), RepoSet)
    <3>1. Repos \in [1..Len(Repos) -> RepoSet]
      BY <1>1, BackfillAssumption, LenProperties DEF RepoSet
    <3> QED
      BY <1>1, <3>1 DEF Surjection
  <2> QED
    BY <2>1, <2>2, FS_Surjection
<1>3. IsFiniteSet(known) /\ Cardinality(known) <= Cardinality(RepoSet)
  BY <1>2, FS_Subset
<1>4. Cardinality(known) \in Nat /\ Cardinality(RepoSet) \in Nat
  BY <1>2, <1>3, FS_CardinalityType
<1>5. names \in [1..Cardinality(known) -> known]
  BY DEF Listings
<1>6. names \in Seq(known) /\ Len(names) = Cardinality(known)
  <2>1. names \in UNION {[1..n -> known] : n \in Nat}
    BY <1>4, <1>5
  <2>2. names \in Seq(known)
    BY <2>1, SeqDef
  <2>3. DOMAIN names = 1..Len(names) /\ DOMAIN names = 1..Cardinality(known) /\ Len(names) \in Nat
    BY <1>5, <2>2, LenProperties
  <2> QED
    BY <1>4, <2>2, <2>3
<1>7. known # {} => Cardinality(known) # 0
  BY <1>3, FS_EmptySet
<1> QED
  BY <1>1, <1>2, <1>3, <1>4, <1>6, <1>7

LEMMA BackfillInvInit == BackfillInit => BackfillInv
<1> SUFFICES ASSUME BackfillInit PROVE BackfillInv
  OBVIOUS
<1>1. <<>> \in Seq(known) /\ Len(<<>>) = 0
  BY EmptySeq
<1>2. Len(Repos) \in Nat
  BY BackfillAssumption, LenProperties
<1>3. BackfillTypes
  <2>1. 0 \in 0..PollCost /\ 0 \in 0..Limit /\ 0 \in 0..MaxRetry /\ 0 <= MaxMishaps
    BY BackfillAssumption
  <2>2. None \in [kind : {"none", "ok", "primary", "secondary", "sleep"}, left : 0..Limit]
    BY <2>1 DEF None
  <2>3. 0 + 0 <= MaxMishaps
    BY <2>1
  <2> QED
    BY <2>1, <2>2, <2>3 DEF BackfillInit, BackfillTypes
<1>4. RotationTypes
  BY <1>1, <1>2 DEF BackfillInit, RotationTypes
<1> QED
  BY <1>3, <1>4 DEF BackfillInv

\* A request takes no more of the quota than there is, and no failure too many.
LEMMA SendTypes ==
  ASSUME BackfillTypes, NEW l \in Loops2, Send(l), UNCHANGED mishaps
  PROVE  /\ quota' \in 0..Limit /\ throttles' \in Nat /\ mishaps + throttles' <= MaxMishaps
         /\ reply' \in [Loops2 -> [kind : {"none", "ok", "primary", "secondary", "sleep"},
                                   left : 0..Limit]]
<1> USE DEF BackfillTypes
<1>1. quota \in 0..Limit /\ Limit \in Nat /\ MaxMishaps \in Nat
  BY BackfillAssumption
<1>2. ASSUME NEW cost \in {0, 1}, quota > 0, throttles' = throttles, quota' = quota - cost,
             reply' = [reply EXCEPT ![l] = [kind |-> "ok", left |-> quota - cost]]
      PROVE  /\ quota' \in 0..Limit
             /\ reply' \in [Loops2 -> [kind : {"none", "ok", "primary", "secondary", "sleep"},
                                       left : 0..Limit]]
  <2>1. quota - cost \in 0..Limit
    BY <1>1, <1>2
  <2> QED
    BY <1>2, <2>1
<1>3. CASE quota' = quota /\ (\E kind \in {"primary", "secondary"} :
             reply' = [reply EXCEPT ![l] = [kind |-> kind, left |-> 0]])
  <2>1. 0 \in 0..Limit
    BY <1>1
  <2> QED
    BY <1>1, <1>3, <2>1 DEF Send
<1> QED
  BY <1>1, <1>2, <1>3 DEF Send

\* A step that leaves the rotation alone; rows that come leave it known.
LEMMA WalkKeepsRotation ==
  ASSUME RotationTypes, UNCHANGED <<rotation, cursor>>, known \subseteq known',
         looks' \in {looks, 0}, target' \in {target, "none"}
  PROVE  RotationTypes'
<1>1. rotation \in Seq(known) => rotation \in Seq(known')
  BY SeqMonotonic
<1>2. Len(Repos) \in Nat
  BY BackfillAssumption, LenProperties
<1> QED
  BY <1>1, <1>2 DEF RotationTypes

LEMMA SendsKeepBackfill ==
  ASSUME BackfillInv, \/ \E l \in Loops2 : AskAgain(l)
                      \/ PollerAsks \/ Ask
  PROVE  BackfillInv'
<1> USE DEF BackfillInv
<1>1. /\ UNCHANGED <<pending, known, remaining, attempts, paused, mishaps, walk>>
      /\ \E l \in Loops2 : Send(l)
      /\ polled' \in 0..PollCost /\ stepAt' \in {"idle", "look", "work", "wait"}
  <2>1. "polls" \in Loops2 /\ "fills" \in Loops2
    BY DEF Loops2
  <2>2. CASE \E l \in Loops2 : AskAgain(l)
    BY <2>2 DEF AskAgain, BackfillTypes
  <2>3. CASE PollerAsks
    BY <2>1, <2>3, BackfillAssumption DEF PollerAsks, BackfillTypes
  <2>4. CASE Ask
    BY <2>1, <2>4 DEF Ask, BackfillTypes
  <2> QED
    BY <2>2, <2>3, <2>4
<1>2. PICK l \in Loops2 : Send(l)
  BY <1>1
<1>3. BackfillTypes'
  BY <1>1, <1>2, SendTypes DEF BackfillTypes
<1>4. RotationTypes'
  BY <1>1, WalkKeepsRotation DEF walk
<1> QED
  BY <1>3, <1>4

\* An answer is received, and its figure remembered.
LEMMA AnswersKeepBackfill ==
  ASSUME BackfillInv, (\E l \in Loops2 : Retry(l)) \/ PollerHears \/ Receive
  PROVE  BackfillInv'
<1> USE DEF BackfillInv
<1>1. PICK l \in Loops2 : Retry(l) \/ (PollerHears /\ l = "polls") \/ (Receive /\ l = "fills")
  BY DEF Loops2
<1> DEFINE Kinds == {"none", "ok", "primary", "secondary", "sleep"}
<1>2. /\ reply[l] \in [kind : Kinds, left : 0..Limit]
      /\ 0 \in 0..Limit /\ 0 \in 0..MaxRetry /\ MaxRetry \in Nat /\ MaxMishaps \in Nat
  BY BackfillAssumption DEF BackfillTypes
<1>3. Recorded(reply[l]) \in 0..Limit
  BY <1>2 DEF Recorded, BackfillTypes
<1>4. remaining' \in 0..Limit
  BY <1>1, <1>3 DEF Retry, PollerHears, Receive, Returns, Lost, BackfillTypes
<1>5. attempts' \in [Loops2 -> 0..MaxRetry]
  <2>1. attempts[l] \in 0..MaxRetry /\ (~GivesUp(l) => attempts[l] + 1 \in 0..MaxRetry)
    BY <1>2 DEF BackfillTypes, GivesUp
  <2> QED
    BY <1>1, <1>2, <2>1 DEF Retry, PollerHears, Receive, Returns, Lost, BackfillTypes
<1>6. reply' \in [Loops2 -> [kind : Kinds, left : 0..Limit]]
  BY <1>1, <1>2 DEF Retry, PollerHears, Receive, Returns, Lost, BackfillTypes, None
<1>7. mishaps' \in Nat /\ throttles' = throttles /\ mishaps' + throttles <= MaxMishaps
  BY <1>1, <1>2 DEF Retry, PollerHears, Receive, Lost, Mishap, BackfillTypes
<1>8. /\ UNCHANGED <<quota, polled, known, paused, rotation, cursor>>
      /\ pending' \subseteq pending /\ stepAt' \in {"idle", "look", "work", "wait"}
      /\ looks' \in {looks, 0} /\ target' \in {target, "none"}
  BY <1>1 DEF Retry, PollerHears, Receive, walk, BackfillTypes
<1>9. BackfillTypes'
  BY <1>4, <1>5, <1>6, <1>7, <1>8 DEF BackfillTypes
<1>10. RotationTypes'
  BY <1>8, WalkKeepsRotation
<1> QED
  BY <1>9, <1>10

LEMMA TickKeepsBackfill == ASSUME BackfillInv, Tick PROVE BackfillInv'
<1> USE DEF BackfillInv
<1>1. /\ UNCHANGED <<quota, polled, pending, known, remaining, reply, attempts, target,
                     throttles>>
      /\ paused' \in BOOLEAN /\ stepAt' \in {"idle", "look", "work", "wait"}
      /\ mishaps' \in Nat /\ mishaps' + throttles <= MaxMishaps
  BY BackfillAssumption DEF Tick, Mishap, BackfillTypes, HasHeadroom
<1>2. BackfillTypes'
  BY <1>1 DEF BackfillTypes
<1>3. Len(Repos) \in Nat /\ known' = known /\ target' = target
  BY <1>1, BackfillAssumption, LenProperties
<1>4. CASE UNCHANGED <<rotation, cursor, looks>>
  BY <1>2, <1>3, <1>4, WalkKeepsRotation
<1>5. CASE rotation # <<>> /\ looks' = Len(rotation) /\ UNCHANGED <<rotation, cursor>>
  <2>1. Len(rotation) \in Nat
    BY LenProperties DEF RotationTypes
  <2> QED
    BY <1>2, <1>3, <1>5, <2>1 DEF RotationTypes
<1>6. CASE known # {} /\ rotation' \in Listings /\ looks' = Len(rotation') /\ cursor' = 1
  <2>1. /\ rotation' \in Seq(known) /\ Len(rotation') <= Len(Repos) /\ Len(rotation') > 0
    BY <1>6, ListingLength DEF BackfillTypes
  <2>2. Len(rotation') \in Nat /\ rotation' # <<>>
    BY <2>1, LenProperties, EmptySeq
  <2> QED
    BY <1>2, <1>3, <1>6, <2>1, <2>2 DEF RotationTypes
<1> QED
  BY <1>4, <1>5, <1>6 DEF Tick

\* The cursor points into the rotation, or the names are listed again.
LEMMA NextRepoKeepsBackfill == ASSUME BackfillInv, NextRepo PROVE BackfillInv'
<1> USE DEF BackfillInv
<1>1. BackfillTypes'
  BY DEF NextRepo, BackfillTypes
<1>2. PICK order, c : /\ rotation' = order /\ cursor' = c + 1 /\ target' = order[c]
                      /\ \/ cursor <= Len(rotation) /\ order = rotation /\ c = cursor
                         \/ order \in Listings /\ c = 1
  <2>1. cursor \in Nat /\ Len(rotation) \in Nat
    BY LenProperties DEF RotationTypes
  <2>2. CASE cursor > Len(rotation)
    BY <2>2 DEF NextRepo
  <2>3. CASE cursor <= Len(rotation)
    BY <2>1, <2>3 DEF NextRepo
  <2> QED
    BY <2>1, <2>2, <2>3
<1>3. known # {} /\ looks > 0 /\ looks' = looks - 1 /\ UNCHANGED known
  <2>1. rotation # <<>>
    BY DEF NextRepo, RotationTypes
  <2>2. rotation[1] \in known
    BY <2>1, EmptySeq, ElementOfSeq DEF RotationTypes
  <2> QED
    BY <2>2 DEF NextRepo
<1>4. /\ order \in Seq(known) /\ Len(order) <= Len(Repos) /\ Len(order) > 0
      /\ c \in 1..Len(order)
  <2>1. CASE order = rotation /\ c = cursor /\ cursor <= Len(rotation)
    BY <2>1, LenProperties DEF RotationTypes
  <2>2. CASE order \in Listings /\ c = 1
    <3>1. order \in Seq(known) /\ Len(order) <= Len(Repos) /\ Len(order) > 0
      BY <1>3, <2>2, ListingLength DEF BackfillTypes
    <3> QED
      BY <2>2, <3>1, LenProperties
  <2> QED
    BY <1>2, <2>1, <2>2
<1>5. order[c] \in RepoSet /\ order # <<>> /\ Len(order) \in Nat /\ Len(Repos) \in Nat
  <2>1. order[c] \in known
    BY <1>4, ElementOfSeq
  <2> QED
    BY <1>4, <2>1, LenProperties, EmptySeq, BackfillAssumption DEF BackfillTypes
<1>6. RotationTypes'
  <2>1. c + 1 \in 1..(Len(order) + 1)
    BY <1>4, <1>5
  <2>2. looks - 1 \in 0..Len(Repos)
    BY <1>3, <1>5 DEF RotationTypes
  <2> QED
    BY <1>2, <1>3, <1>4, <1>5, <2>1, <2>2 DEF RotationTypes
<1> QED
  BY <1>1, <1>6

LEMMA OthersKeepBackfill ==
  ASSUME BackfillInv, \/ NewHour \/ Panic \/ NothingToDo
                      \/ \E r \in RepoSet : FindRepo(r) \/ FindWork(r)
  PROVE  BackfillInv'
<1> USE DEF BackfillInv
<1>1. CASE NewHour
  <2>1. BackfillTypes'
    BY <1>1, BackfillAssumption DEF NewHour, BackfillTypes
  <2> QED
    BY <1>1, <2>1, WalkKeepsRotation DEF NewHour, walk
<1>2. CASE Panic
  <2>1. 0 \in 0..Limit /\ 0 \in 0..MaxRetry /\ Len(Repos) \in Nat /\ MaxMishaps \in Nat
    BY BackfillAssumption, LenProperties
  <2>2. /\ None \in [kind : {"none", "ok", "primary", "secondary", "sleep"}, left : 0..Limit]
        /\ mishaps' \in Nat /\ mishaps' + throttles <= MaxMishaps
    BY <1>2, <2>1 DEF Panic, Mishap, BackfillTypes, None
  <2>5. BackfillTypes'
    BY <1>2, <2>1, <2>2 DEF Panic, BackfillTypes
  <2>3. <<>> \in Seq(known) /\ Len(<<>>) = 0
    BY EmptySeq
  <2>4. RotationTypes'
    BY <1>2, <2>1, <2>3 DEF Panic, RotationTypes
  <2> QED
    BY <2>4, <2>5
<1>3. CASE NothingToDo
  <2>1. BackfillTypes'
    BY <1>3, BackfillAssumption DEF NothingToDo, Mishap, BackfillTypes
  <2> QED
    BY <1>3, <2>1, WalkKeepsRotation DEF NothingToDo
<1>4. ASSUME NEW r \in RepoSet, FindRepo(r) \/ FindWork(r) PROVE BackfillInv'
  <2>1. BackfillTypes'
    BY <1>4 DEF FindRepo, FindWork, BackfillTypes
  <2>2. known \subseteq known' /\ UNCHANGED walk
    BY <1>4 DEF FindRepo, FindWork
  <2> QED
    BY <2>1, <2>2, WalkKeepsRotation DEF walk
<1> QED
  BY <1>1, <1>2, <1>3, <1>4

LEMMA BackfillInvStep ==
  ASSUME BackfillInv, [BackfillNext]_backfillVars PROVE BackfillInv'
<1>1. CASE UNCHANGED backfillVars
  BY <1>1 DEF backfillVars, BackfillInv, BackfillTypes, RotationTypes
<1>2. CASE BackfillNext
  BY <1>2, SendsKeepBackfill, AnswersKeepBackfill, TickKeepsBackfill, NextRepoKeepsBackfill,
     OthersKeepBackfill DEF BackfillNext
<1> QED
  BY <1>1, <1>2

LEMMA PullsAreFinite == IsFiniteSet(Pulls) /\ Cardinality(Pulls) = NumPulls
<1>1. NumPulls \in Nat
  BY PullsAssumption
<1>2. /\ IsFiniteSet(1..NumPulls)
      /\ Cardinality(1..NumPulls) = IF 1 > NumPulls THEN 0 ELSE NumPulls - 1 + 1
  BY <1>1, FS_Interval
<1> QED
  BY <1>1, <1>2 DEF Pulls

PullsRest ==
  /\ maxPages \in PageCaps /\ pageNo <= maxPages
  /\ pullTag \in [PullPages -> SUBSET [Pulls -> States]]
  /\ pollAt \in {"idle", "pages", "store", "sample"} /\ pageNo \in PullPages
  /\ eod \in [1..LastDay -> Absent..NumPulls] /\ sampled \in BOOLEAN
  /\ losses \in 0..MaxLosses /\ crashes \in 0..MaxCrashes

LEMMA CapIsPage ==
  ASSUME NEW m \in PageCaps
  PROVE  m \in Nat /\ m >= 1 /\ 1..m \subseteq PullPages
BY PullsAssumption DEF PullPages

LEMMA PullsRestInit == PullsInit => PullsRest
<1> SUFFICES ASSUME PullsInit PROVE PullsRest
  OBVIOUS
<1>1. /\ Absent \in Absent..NumPulls /\ 0 \in 0..MaxLosses
      /\ 0 \in 0..MaxCrashes
  BY PullsAssumption DEF Absent
<1>2. maxPages \in PageCaps /\ 1 <= maxPages /\ 1 \in PullPages
  BY CapIsPage DEF PullsInit
<1> QED
  BY <1>1, <1>2 DEF PullsInit, PullsRest

LEMMA CollectKeepsRest ==
  ASSUME PullsTypes, PullsRest, CollectPage PROVE PullsRest'
<1> DEFINE answer == PullsPage(pageNo)
<1>1. answer \in [Pulls -> States]
  <2>1. Absent \in States
    BY PullsAssumption DEF States, Absent
  <2> QED
    BY <2>1 DEF PullsPage, PullsTypes
<1>2. /\ UNCHANGED <<eod, sampled, crashes>>
      /\ pullTag' = pullTag \/ pullTag' = [pullTag EXCEPT ![pageNo] = {answer}]
      /\ pollAt' \in {pollAt, "sample", "store"}
      /\ losses' \in 0..MaxLosses
      /\ pageNo' = pageNo \/ (pageNo # maxPages /\ pageNo' = pageNo + 1)
      /\ maxPages' = maxPages
  BY PullsAssumption DEF CollectPage, hub, pullTables, Lose, PullsRest
<1>3. pullTag' \in [PullPages -> SUBSET [Pulls -> States]]
  BY <1>1, <1>2 DEF PullsRest
<1>4. pageNo' \in PullPages /\ pageNo' <= maxPages'
  <2>1. PullPages \subseteq Nat \ {0}
    BY PullsAssumption DEF PullPages
  <2>2. /\ maxPages \in Nat /\ 1..maxPages \subseteq PullPages
        /\ pageNo \in Nat \ {0} /\ pageNo <= maxPages
    BY <2>1, CapIsPage DEF PullsRest
  <2> QED
    BY <1>2, <2>2 DEF PullsRest
<1> QED
  BY <1>2, <1>3, <1>4 DEF PullsRest

LEMMA SampleKeepsRest ==
  ASSUME PullsTypes, PullsRest, Sample PROVE PullsRest'
<1>1. /\ UNCHANGED <<maxPages, pullTag, crashes>> /\ pollAt' = "idle" /\ pageNo' = 1
      /\ sampled' \in BOOLEAN /\ losses' \in 0..MaxLosses
  <2>1. losses' = losses \/ Lose
    BY DEF Sample
  <2>2. sampled' = TRUE \/ sampled' = FALSE
    BY DEF Sample
  <2>3. losses' \in 0..MaxLosses
    BY <2>1, PullsAssumption DEF Lose, PullsRest
  <2>4. UNCHANGED <<maxPages, pullTag, crashes>> /\ pollAt' = "idle" /\ pageNo' = 1
    BY DEF Sample, hub
  <2> QED
    BY <2>2, <2>3, <2>4, Zenon
<1>2. 1 \in PullPages /\ 1 <= maxPages
  BY CapIsPage DEF PullsRest
<1>3. \A d : Cardinality({p \in There(pullRows) : OpenAtEnd(p, d)}) \in Absent..NumPulls
  <2> TAKE d
  <2> DEFINE S == {p \in There(pullRows) : OpenAtEnd(p, d)}
  <2>1. S \subseteq Pulls
    BY DEF There
  <2> HIDE DEF S
  <2>2. Cardinality(S) \in Nat /\ Cardinality(S) <= NumPulls /\ NumPulls \in Nat
    BY <2>1, PullsAreFinite, FS_Subset, FS_CardinalityType, PullsAssumption
  <2>3. Cardinality(S) \in Absent..NumPulls
    BY <2>2 DEF Absent
  <2> QED
    BY <2>3 DEF S
<1>4. eod' \in [1..LastDay -> Absent..NumPulls]
  <2>1. PICK done \in SUBSET {day, day - 1} :
          eod' = [d \in 1..LastDay |->
            IF d \in done
            THEN Cardinality({p \in There(pullRows) : OpenAtEnd(p, d)})
            ELSE eod[d]]
    BY DEF Sample
  <2>2. \A d \in 1..LastDay : eod[d] \in Absent..NumPulls
    BY DEF PullsRest
  <2> QED
    BY <1>3, <2>1, <2>2
<1> QED
  BY <1>1, <1>2, <1>4 DEF PullsRest

LEMMA PullsRestStep ==
  ASSUME PullsTypes, PullsRest, [PullsNext]_pullsVars PROVE PullsRest'
<1>1. 1 \in PullPages /\ 1 <= maxPages /\ Absent \in Absent..NumPulls
  BY CapIsPage, PullsAssumption DEF PullsRest, Absent
<1>2. CASE UNCHANGED pullsVars
  BY <1>2 DEF pullsVars, PullsRest
<1>3. CASE \E p \in Pulls : OpenPull(p) \/ ClosePull(p)
  BY <1>3 DEF OpenPull, ClosePull, pullTables, PullsRest
<1>4. CASE NextDay
  BY <1>1, <1>4 DEF NextDay, PullsRest
<1>5. CASE VisitRepo \/ SkipRepo
  BY <1>1, <1>5 DEF VisitRepo, SkipRepo, hub, pullTables, PullsRest
<1>6. CASE StorePulls
  <2>1. losses' = losses \/ Lose
    BY <1>6 DEF StorePulls
  <2>2. losses' \in 0..MaxLosses
    BY <2>1, PullsAssumption DEF Lose, PullsRest
  <2> QED
    BY <1>6, <2>2 DEF StorePulls, hub, PullsRest
<1>7. CASE CrashPoll
  BY <1>1, <1>7, PullsAssumption DEF CrashPoll, hub, pullTables, PullsRest
<1> QED
  BY <1>2, <1>3, <1>4, <1>5, <1>6, <1>7, CollectKeepsRest, SampleKeepsRest
     DEF PullsNext, PollStep

LEMMA AuthStep == ASSUME AuthTypeOK, [AuthNext]_authVars PROVE AuthTypeOK'
<1>1. asked' \in BOOLEAN
  BY Zenon DEF authVars, AuthTypeOK, AuthNext, UseToken, RefreshToken, RefreshFails, AuthTick
<1>2. /\ TokenLife \in Nat /\ libraryLeft \in 0..TokenLife /\ cachedLeft \in 0..TokenLife
      /\ believedLeft \in -1..TokenLife
  BY AuthAssumption DEF AuthTypeOK
<1>3. /\ LibraryToken \in 0..TokenLife /\ TokenLife \in -1..TokenLife
      /\ Less1(libraryLeft) \in 0..TokenLife /\ Less1(cachedLeft) \in 0..TokenLife
      /\ Less1(believedLeft) \in -1..TokenLife
  BY <1>2 DEF LibraryToken, Less1
<1>4. /\ libraryLeft' \in {libraryLeft, LibraryToken, Less1(libraryLeft)}
      /\ cachedLeft' \in {cachedLeft, LibraryToken, Less1(cachedLeft)}
      /\ believedLeft' \in {believedLeft, TokenLife, Less1(believedLeft)}
  BY DEF authVars, AuthNext, UseToken, RefreshToken, RefreshFails, AuthTick
<1> HIDE DEF LibraryToken, Less1
<1>5. /\ libraryLeft' \in 0..TokenLife /\ cachedLeft' \in 0..TokenLife
      /\ believedLeft' \in -1..TokenLife
  BY <1>2, <1>3, <1>4
<1> QED
  BY <1>1, <1>5 DEF AuthTypeOK

\* For any repositories, quota, pages and days, every variable of what surrounds
\* the synchronisation keeps its type; the index into the rotation stays in
\* range, and no page behind the cap is asked for.
THEOREM CollectionTypesKept == Spec => []TypeOK
<1> DEFINE Inv == BackfillInv /\ PullsInv /\ PullsRest /\ AuthTypeOK
<1>1. Init => Inv
  <2>1. AuthInit => AuthTypeOK
    <3>1. 0 \in 0..TokenLife /\ -1 \in -1..TokenLife
      BY AuthAssumption
    <3> QED
      BY <3>1 DEF AuthInit, AuthTypeOK
  <2> QED
    BY <2>1, BackfillInvInit, PullsInvInit, PullsRestInit DEF Init
<1>2. Inv /\ [Next]_vars => Inv'
  <2>1. PullsInv => PullsTypes
    BY DEF PullsInv
  <2> QED
    BY <2>1, PartsStep, BackfillInvStep, PullsInvStep, PullsRestStep, AuthStep
<1>3. Inv => TypeOK
  <2> SUFFICES ASSUME Inv PROVE TypeOK
    OBVIOUS
  <2>1. BackfillTypeOK
    <3>1. ToSet(rotation) \subseteq known
      BY LenProperties, ElementOfSeq DEF BackfillInv, RotationTypes, ToSet
    <3>2. mishaps \in 0..MaxMishaps /\ throttles \in 0..MaxMishaps
      BY BackfillAssumption DEF BackfillInv, BackfillTypes
    <3> QED
      BY <3>1, <3>2 DEF BackfillInv, BackfillTypes, RotationTypes, BackfillTypeOK
  <2>2. PullsTypeOK
    BY DEF PullsInv, PullsTypes, PullsRest, PullsTypeOK
  <2> QED
    BY <2>1, <2>2 DEF TypeOK
<1> QED
  BY <1>1, <1>2, <1>3, PTL DEF Spec
=============================================================================
