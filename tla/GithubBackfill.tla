--------------------------- MODULE GithubBackfill ---------------------------
(***************************************************************************)
(* How the backfiller shares GitHub's hourly quota with the poller and its *)
(* ticks among the repositories (backfill.go: Step), through the one client*)
(* both use (client.go: Get), its retries and the remaining quota it keeps.*)
(* A request is two steps: GitHub takes it from the quota and forms the    *)
(* answer, the client receives it; answers of the two loops may be received*)
(* in the other order.  What a repository has to do is one bit: a run      *)
(* without its jobs, or a page of history.                                 *)
(***************************************************************************)
EXTENDS Integers, FiniteSets, SequencesExt

CONSTANTS Repos,        \* the repositories, in the order of their names
          Limit,        \* requests GitHub grants an hour
          Floor,        \* minRateLimit
          PollCost,     \* bound on the poller's requests in an hour
          MaxRetry,     \* maxRateLimitRetry
          MaxMishaps    \* bound on lost answers, failed statements, panics and
                        \* secondary throttles

ASSUME BackfillAssumption ==
  /\ Repos \in Seq(ToSet(Repos)) /\ IsInjective(Repos)
  /\ Floor \in Nat \ {0} /\ PollCost \in Nat \ {0} /\ MaxRetry \in Nat
  /\ Limit \in Nat /\ Limit > Floor + PollCost
  /\ MaxMishaps \in Nat

Loops2 == {"polls", "fills"}
RepoSet == ToSet(Repos)
None == [kind |-> "none", left |-> 0]

VARIABLES
  quota,      \* GitHub: the requests left this hour
  polled,     \* how many of them the poller has asked since the hour began
  pending,    \* repositories with something to fetch
  known,      \* rows of the table repositories
  remaining,  \* Client.rateLimitRemaining, 0 also before the first answer
  reply,      \* the answer on its way to each loop, or None
  attempts,   \* Get's attempts of each loop
  stepAt,     \* where Step is
  rotation, cursor,   \* Backfiller
  looks,      \* iterations Step has left
  target,     \* the repository it asks for
  paused,     \* BackfillPaused
  spentInStep,  \* history: quota one Step has used
  leaked,     \* history: quota the backfiller used below the floor since the
              \* hour began or the poller last heard from GitHub
  mishaps, throttles

backfillVars == <<quota, polled, pending, known, remaining, reply, attempts,
                  stepAt, rotation, cursor, looks, target, paused, spentInStep,
                  leaked, mishaps, throttles>>
walk == <<rotation, cursor, looks, target>>

BackfillInit ==
  /\ quota \in 0..Limit /\ polled = 0
  /\ pending = {} /\ known = {}
  /\ remaining = 0 /\ reply = [l \in Loops2 |-> None]
  /\ attempts = [l \in Loops2 |-> 0]
  /\ stepAt = "idle" /\ rotation = <<>> /\ cursor = 1 /\ looks = 0
  /\ target = "none" /\ paused = FALSE
  /\ spentInStep = 0 /\ leaked = 0 /\ mishaps = 0 /\ throttles = 0

Mishap == mishaps + throttles < MaxMishaps /\ mishaps' = mishaps + 1

-----------------------------------------------------------------------------
\* GitHub begins a new hour.
NewHour ==
  /\ quota < Limit \/ polled > 0
  /\ quota' = Limit /\ polled' = 0 /\ leaked' = 0
  /\ UNCHANGED <<pending, known, remaining, reply, attempts, stepAt, walk, paused,
                 spentInStep, mishaps, throttles>>

\* The poller stores a repository it has found, and runs that miss their jobs.
FindRepo(r) ==
  /\ r \notin known
  /\ known' = known \cup {r}
  /\ UNCHANGED <<quota, polled, pending, remaining, reply, attempts, stepAt, walk,
                 paused, spentInStep, leaked, mishaps, throttles>>

FindWork(r) ==
  /\ r \in known \ pending
  /\ pending' = pending \cup {r}
  /\ UNCHANGED <<quota, polled, known, remaining, reply, attempts, stepAt, walk,
                 paused, spentInStep, leaked, mishaps, throttles>>

-----------------------------------------------------------------------------
\* Client.Get.

\* A request reaches GitHub: answered, a 304 at no cost; refused when the quota
\* is gone, its header 0; or throttled, which costs nothing, and whose header is
\* a 0 that means nothing.
Send(l) ==
  \/ /\ quota > 0 /\ throttles' = throttles
     /\ \E cost \in {0, 1} :
          /\ quota' = quota - cost
          /\ reply' = [reply EXCEPT ![l] = [kind |-> "ok", left |-> quota - cost]]
          /\ spentInStep' = spentInStep + (IF l = "fills" THEN cost ELSE 0)
          /\ leaked' = leaked + (IF l = "fills" /\ quota < Floor THEN cost ELSE 0)
  \/ /\ quota = 0
     /\ reply' = [reply EXCEPT ![l] = [kind |-> "primary", left |-> 0]]
     /\ UNCHANGED <<quota, spentInStep, leaked, throttles>>
  \/ /\ mishaps + throttles < MaxMishaps /\ throttles' = throttles + 1
     /\ reply' = [reply EXCEPT ![l] = [kind |-> "secondary", left |-> 0]]
     /\ UNCHANGED <<quota, spentInStep, leaked>>

\* recordRateLimitHeader, left out for a secondary 403.  Mutated form: only a
\* figure lower than the one remembered is taken.
OnlyLower(answer) ==
  IF answer.kind # "secondary" /\ (remaining = 0 \/ answer.left < remaining)
  THEN answer.left ELSE remaining
Recorded(answer) == IF answer.kind = "secondary" THEN remaining ELSE answer.left

\* Give up after maxRateLimitRetry retries.  Mutated form: never.
NeverGivesUp(l) == FALSE
GivesUp(l) == attempts[l] >= MaxRetry

\* The client receives the answer of loop l and returns from Get.
Returns(l) ==
  /\ reply[l].kind = "ok" \/ (reply[l].kind # "none" /\ GivesUp(l))
  /\ remaining' = Recorded(reply[l])
  /\ reply' = [reply EXCEPT ![l] = None]
  /\ attempts' = [attempts EXCEPT ![l] = 0]

\* A 403: after its sleep Get asks again, whatever the headroom is now.
Retry(l) ==
  /\ reply[l].kind \in {"primary", "secondary"} /\ ~GivesUp(l)
  /\ remaining' = Recorded(reply[l])
  /\ attempts' = [attempts EXCEPT ![l] = @ + 1]
  /\ reply' = [reply EXCEPT ![l] = [kind |-> "sleep", left |-> 0]]
  /\ leaked' = IF l = "polls" THEN 0 ELSE leaked
  /\ UNCHANGED <<quota, polled, pending, known, stepAt, walk, paused, spentInStep,
                 mishaps, throttles>>

AskAgain(l) ==
  /\ reply[l].kind = "sleep"
  /\ Send(l)
  /\ UNCHANGED <<polled, pending, known, remaining, attempts, stepAt, walk, paused,
                 mishaps>>

\* The answer is lost, and its header with it.
Lost(l) ==
  /\ reply[l].kind \notin {"none", "sleep"} /\ Mishap
  /\ reply' = [reply EXCEPT ![l] = None]
  /\ attempts' = [attempts EXCEPT ![l] = 0]
  /\ remaining' = remaining

-----------------------------------------------------------------------------
\* The poller, one request after another.
PollerAsks ==
  /\ reply["polls"] = None /\ polled < PollCost
  /\ polled' = polled + 1
  /\ Send("polls")
  /\ UNCHANGED <<pending, known, remaining, attempts, stepAt, walk, paused, mishaps>>

PollerHears ==
  /\ \/ Returns("polls") /\ leaked' = 0 /\ mishaps' = mishaps
     \/ Lost("polls") /\ leaked' = leaked
  /\ UNCHANGED <<quota, polled, pending, known, stepAt, walk, paused, spentInStep,
                 throttles>>

-----------------------------------------------------------------------------
\* Backfiller.Step.

\* hasHeadroom: 0 is "not observed yet".  Mutated form: the floor is ignored.
AlwaysHeadroom == TRUE
HasHeadroom == ~(remaining > 0 /\ remaining < Floor)

\* ListRepositoryNames, ORDER BY name.
Position(r) == CHOOSE i \in DOMAIN Repos : Repos[i] = r
Listings ==
  {names \in [1..Cardinality(known) -> known] :
     \A i, j \in DOMAIN names : i < j => Position(names[i]) < Position(names[j])}

\* A tick: the headroom is looked at once, then the rotation is loaded if it is
\* empty; when that fails there is nothing to look at.
Tick ==
  /\ stepAt = "idle"
  /\ paused' = ~HasHeadroom
  /\ \/ /\ ~HasHeadroom
        /\ UNCHANGED <<stepAt, rotation, cursor, looks, mishaps>>
     \/ /\ HasHeadroom /\ rotation # <<>>
        /\ stepAt' = "look" /\ looks' = Len(rotation)
        /\ UNCHANGED <<rotation, cursor, mishaps>>
     \/ /\ HasHeadroom /\ rotation = <<>> /\ known # {}
        /\ rotation' \in Listings /\ looks' = Len(rotation')
        /\ stepAt' = "look" /\ cursor' = 1 /\ mishaps' = mishaps
     \/ /\ HasHeadroom /\ rotation = <<>>
        /\ \/ known = {} /\ mishaps' = mishaps
           \/ Mishap
        /\ UNCHANGED <<stepAt, rotation, cursor, looks>>
  /\ spentInStep' = 0
  /\ UNCHANGED <<quota, polled, pending, known, remaining, reply, attempts, target,
                 leaked, throttles>>

\* nextRepo inside the rotation, and at its end: the names are read again.
NextRepo ==
  /\ stepAt = "look" /\ looks > 0
  /\ LET wrap == cursor > Len(rotation)
         c == IF wrap THEN 1 ELSE cursor
     IN /\ rotation' \in IF wrap THEN Listings ELSE {rotation}
        /\ cursor' = c + 1 /\ target' = rotation'[c]
  /\ looks' = looks - 1
  /\ stepAt' = "work"
  /\ UNCHANGED <<quota, polled, pending, known, remaining, reply, attempts, paused,
                 spentInStep, leaked, mishaps, throttles>>

\* When reading the names fails there the cursor stays behind the end of the
\* old list: the index panics, and the process is started again.
Panic ==
  /\ stepAt = "look" /\ looks > 0 /\ cursor > Len(rotation) /\ Mishap
  /\ stepAt' = "idle" /\ rotation' = <<>> /\ cursor' = 1 /\ looks' = 0
  /\ target' = "none" /\ paused' = FALSE
  /\ remaining' = 0 /\ reply' = [l \in Loops2 |-> None]
  /\ attempts' = [l \in Loops2 |-> 0]
  /\ UNCHANGED <<quota, polled, pending, known, spentInStep, leaked, throttles>>

\* stepJobs or stepRunsPage: with something to fetch the request is sent.
Ask ==
  /\ stepAt = "work" /\ target \in pending
  /\ Send("fills")
  /\ stepAt' = "wait"
  /\ UNCHANGED <<polled, pending, known, remaining, attempts, walk, paused, mishaps>>

\* Neither has anything to do, or the database could not be read.
NothingToDo ==
  /\ stepAt = "work"
  /\ \/ target \notin pending /\ mishaps' = mishaps
     \/ target \in pending /\ Mishap
  /\ stepAt' = (IF looks > 0 THEN "look" ELSE "idle") /\ target' = "none"
  /\ UNCHANGED <<quota, polled, pending, known, remaining, reply, attempts,
                 rotation, cursor, looks, paused, spentInStep, leaked, throttles>>

\* After the request the Step is over, whatever came of it: the work is done,
\* or, after an error status or a statement that failed, is still there.
Receive ==
  /\ stepAt = "wait"
  /\ \/ /\ Returns("fills")
        /\ pending' = IF reply["fills"].kind = "ok" THEN pending \ {target}
                      ELSE pending
        /\ mishaps' = mishaps
     \/ /\ Returns("fills") /\ Mishap /\ pending' = pending
     \/ /\ Lost("fills") /\ pending' = pending
  /\ stepAt' = "idle" /\ target' = "none" /\ looks' = 0
  /\ UNCHANGED <<quota, polled, known, rotation, cursor, paused, spentInStep,
                 leaked, throttles>>

BackfillNext ==
  \/ NewHour \/ PollerAsks \/ PollerHears
  \/ \E r \in RepoSet : FindRepo(r) \/ FindWork(r)
  \/ \E l \in Loops2 : Retry(l) \/ AskAgain(l)
  \/ Tick \/ NextRepo \/ Panic \/ Ask \/ NothingToDo \/ Receive

StepOn == Tick \/ NextRepo \/ Ask \/ NothingToDo \/ Receive

\* Ticks, answers, polls and hours go on; what one hour grants is enough for
\* the polls and leaves the floor (poller.go:48).
BackfillFairness ==
  /\ WF_backfillVars(StepOn)
  /\ \A l \in Loops2 : WF_backfillVars(Retry(l) \/ AskAgain(l))
  /\ WF_backfillVars(PollerAsks) /\ WF_backfillVars(PollerHears)
  /\ WF_backfillVars(NewHour)

-----------------------------------------------------------------------------
(***************************************************************************)
(* Properties.                                                             *)
(***************************************************************************)
BackfillTypeOK ==
  /\ quota \in 0..Limit /\ polled \in 0..PollCost /\ remaining \in 0..Limit
  /\ pending \subseteq known /\ known \subseteq RepoSet
  /\ \A l \in Loops2 : /\ reply[l].kind \in {"none", "ok", "primary", "secondary", "sleep"}
                       /\ attempts[l] \in 0..MaxRetry
  /\ stepAt \in {"idle", "look", "work", "wait"} /\ paused \in BOOLEAN
  /\ ToSet(rotation) \subseteq known /\ cursor \in 1..(Len(rotation) + 1)
  /\ looks \in 0..Len(Repos) /\ target \in RepoSet \cup {"none"}
  /\ mishaps \in 0..MaxMishaps /\ throttles \in 0..MaxMishaps

\* "At most one GitHub request" a tick (backfill.go:231): the retries of a 403
\* are requests too, but of the quota one Step uses at most one.
StepSpendsOne == spentInStep <= 1

\* When quota runs low the background work gives way before the limit
\* (backfill.go:98).  Its figure may be stale, overwritten by an older answer
\* or not heard yet: it can use one request below the floor until the poller
\* hears from GitHub again or the hour ends, and one more for each answer lost.
SparesTheFloor == leaked <= 1 + mishaps

\* The backfiller takes no more of the quota than its comments promise.
QuotaSpared == StepSpendsOne /\ SparesTheFloor

\* Every repository with something to fetch is served, however much the others
\* have (backfill.go:308), through pauses, throttles, lost answers and panics.
EveryRepoServed == \A r \in RepoSet : r \in pending ~> r \notin pending
=============================================================================
