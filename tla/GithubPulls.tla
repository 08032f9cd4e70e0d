---------------------------- MODULE GithubPulls ----------------------------
(***************************************************************************)
(* The pull requests of one repository: how a poll reads them page by page *)
(* through the ETag map (collectors/pullrequests.go), stores them, counts  *)
(* the open ones (poller.go) and samples how many stood open at the end of *)
(* a day (db/rollups.go), while the trigger on their table rolls up and    *)
(* prunes those closed longer ago than the retention window                *)
(* (003_retention_correctness.sql).  A pull request is its number, a       *)
(* larger one was opened later; its state is the day it was closed, 0      *)
(* while it is open.  Only the poller asks these URLs and writes these     *)
(* tables, so a request is one step and so is the batch of statements that *)
(* stores its answer.  Commits take the same way: pages of all history, a  *)
(* trigger that adds and deletes.                                          *)
(***************************************************************************)
EXTENDS Integers, FiniteSets

CONSTANTS NumPulls,     \* bound on the pull requests
          PullsPerPage, \* per_page=100
          PageCaps,     \* maxPages, 100: in and out of reach of the list
          RetainDays,   \* the retention window
          LastDay,      \* bound on the days
          MaxLosses,    \* bound on the lost answers and failed statements
          MaxCrashes    \* bound on the crashes

ASSUME PullsAssumption ==
  /\ NumPulls \in Nat /\ PullsPerPage \in Nat \ {0}
  /\ PageCaps \subseteq Nat \ {0}
  /\ RetainDays \in Nat \ {0} /\ LastDay \in Nat \ {0}
  /\ MaxLosses \in Nat /\ MaxCrashes \in Nat

Pulls == 1..NumPulls
Absent == -1
States == Absent..LastDay      \* not there, open, or the day it was closed
PullPages == UNION {1..m : m \in PageCaps}
NoPulls == [p \in Pulls |-> Absent]
There(list) == {p \in Pulls : list[p] # Absent}

VARIABLES
  maxPages,   \* the cap of pages
  day,        \* today
  openedOn,   \* GitHub: the day each pull request was opened, 0 before it
  pull,       \* GitHub: its state
  pullTag,    \* Client.etags of the pages: what was last answered, if any
  pollAt,     \* where poll is
  pageNo,     \* the page Collect asks for next
  collected,  \* the pull requests it has gathered
  pullRows,   \* pull_requests
  openedDaily, \* how often each was added to pull_requests_daily.opened
  eod,        \* pull_requests_daily.open_at_eod of each day, Absent for no row
  sampled,    \* no row has changed since both days were sampled today
  told,       \* history: the state of each as it was last stored
  losses,     \* answers lost and statements failed
  crashes     \* how often the process died

pullsVars == <<maxPages, day, openedOn, pull, pullTag, pollAt, pageNo,
               collected, pullRows, openedDaily, eod, sampled, told, losses,
               crashes>>
hub == <<maxPages, day, openedOn, pull>>
pullTables == <<pullRows, openedDaily, eod, told>>

PullsInit ==
  /\ maxPages \in PageCaps
  /\ day = 1 /\ openedOn = [p \in Pulls |-> 0] /\ pull = NoPulls
  /\ pullTag = [n \in PullPages |-> {}]
  /\ pollAt = "idle" /\ pageNo = 1 /\ collected = NoPulls
  /\ pullRows = NoPulls /\ openedDaily = [p \in Pulls |-> 0]
  /\ eod = [d \in 1..LastDay |-> Absent]
  /\ sampled = FALSE /\ told = NoPulls /\ losses = 0
  /\ crashes = 0

Lose == losses < MaxLosses /\ losses' = losses + 1

\* GitHub.
OpenPull(p) ==
  /\ pull[p] = Absent /\ \A q \in 1..(p - 1) : pull[q] # Absent
  /\ pull' = [pull EXCEPT ![p] = 0]
  /\ openedOn' = [openedOn EXCEPT ![p] = day]
  /\ UNCHANGED <<maxPages, day, pullTag, pollAt, pageNo, collected, pullTables,
                 sampled, losses, crashes>>

ClosePull(p) ==
  /\ pull[p] = 0
  /\ pull' = [pull EXCEPT ![p] = day]
  /\ UNCHANGED <<maxPages, day, openedOn, pullTag, pollAt, pageNo, collected,
                 pullTables, sampled, losses, crashes>>

\* Samples of the days before yesterday are not touched any more.
NextDay ==
  /\ day < LastDay /\ pollAt = "idle"
  /\ day' = day + 1 /\ sampled' = FALSE
  /\ eod' = [d \in 1..LastDay |-> IF d < day THEN Absent ELSE eod[d]]
  /\ UNCHANGED <<maxPages, openedOn, pull, pullTag, pollAt, pageNo, collected,
                 pullRows, openedDaily, told, losses, crashes>>

PullsPage(n) ==
  [p \in Pulls |->
     IF Cardinality({q \in There(pull) : q > p}) \div PullsPerPage = n - 1
     THEN pull[p] ELSE Absent]

-----------------------------------------------------------------------------
\* poll, with a list of repositories that names this one.
VisitRepo ==
  /\ pollAt = "idle"
  /\ pollAt' = "pages" /\ pageNo' = 1 /\ collected' = NoPulls
  /\ UNCHANGED <<hub, pullTag, pullTables, sampled, losses, crashes>>

\* poll, with a 304 for the list: it names no repository, but samples are taken.
\* After an error the poll is over.
SkipRepo ==
  /\ pollAt = "idle"
  /\ pollAt' = "sample"
  /\ UNCHANGED <<hub, pullTag, pageNo, collected, pullTables, sampled,
                 losses, crashes>>

\* Is there a page after this one?  Mutated form: the first is the only one.
OnePageOnly(n) == FALSE
MorePages(n) == Cardinality(There(PullsPage(n))) >= PullsPerPage

\* PRCollector.Collect, one page: a 304 or an empty page ends the list, a lost
\* answer or body, or a full page where the cap is, ends it with an error, and
\* all that was gathered is dropped.
CollectPage ==
  /\ pollAt = "pages"
  /\ LET answer == PullsPage(pageNo) IN
     \/ /\ Lose
        /\ \/ pullTag' = pullTag
           \/ pullTag' = [pullTag EXCEPT ![pageNo] = {answer}]
        /\ pollAt' = "sample" /\ collected' = NoPulls /\ pageNo' = pageNo
     \/ /\ answer \in pullTag[pageNo]
        /\ pollAt' = "store"
        /\ UNCHANGED <<pullTag, pageNo, collected, losses>>
     \/ /\ answer \notin pullTag[pageNo]
        /\ pullTag' = [pullTag EXCEPT ![pageNo] = {answer}]
        /\ losses' = losses
        /\ IF MorePages(pageNo) /\ pageNo = maxPages
           THEN pollAt' = "sample" /\ collected' = NoPulls /\ pageNo' = pageNo
           ELSE /\ collected' = [p \in Pulls |->
                     IF answer[p] # Absent THEN answer[p] ELSE collected[p]]
                /\ IF MorePages(pageNo)
                   THEN pageNo' = pageNo + 1 /\ pollAt' = pollAt
                   ELSE pageNo' = pageNo /\ pollAt' = "store"
  /\ UNCHANGED <<hub, pullTables, sampled, crashes>>

\* The trigger prunes what was closed before the window.  Mutated form: what
\* was opened before it, as 002 did.
ExpiredByOpening(rows) == {p \in There(rows) : openedOn[p] < day - RetainDays}
ExpiredPulls(rows) == {p \in There(rows) : rows[p] > 0 /\ rows[p] < day - RetainDays}

\* UpsertPullRequests, one statement each, every one with its trigger: without
\* a statement there is no trigger.  A failure leaves the rest out and the
\* poll goes on.  Then the gauge of open pull requests is set to the number of
\* open ones that were collected: 0 after a 304.
StorePulls ==
  /\ pollAt = "store"
  /\ \E put \in {There(collected)} \cup
             {{p \in There(collected) : p > q} : q \in There(collected)} :
       /\ IF put = There(collected) THEN losses' = losses ELSE Lose
       /\ LET rows == [p \in Pulls |-> IF p \in put THEN collected[p] ELSE pullRows[p]]
              ran == put # {}
          IN /\ pullRows' = [p \in Pulls |->
                  IF ran /\ p \in ExpiredPulls(rows) THEN Absent ELSE rows[p]]
             /\ openedDaily' = [p \in Pulls |->
                  IF ran /\ p \in ExpiredPulls(rows) /\ openedDaily[p] < 2
                  THEN openedDaily[p] + 1 ELSE openedDaily[p]]
       /\ told' = [p \in Pulls |-> IF p \in put THEN collected[p] ELSE told[p]]
  /\ pollAt' = "sample" /\ sampled' = FALSE
  /\ UNCHANGED <<hub, pullTag, pageNo, collected, eod, crashes>>

\* Was a row open at the end of day d?  From its timestamps, not from its state.
\* Mutated form: from its state.
OpenNow(p, d) == pullRows[p] = 0
OpenAtEnd(p, d) == openedOn[p] <= d /\ (pullRows[p] = 0 \/ pullRows[p] > d)

\* sampleOpenPullRequests: today and yesterday, either of which may fail.
Sample ==
  /\ pollAt = "sample"
  /\ \E done \in SUBSET {day, day - 1} :
       /\ IF done = {day, day - 1} THEN losses' = losses /\ sampled' = TRUE
          ELSE Lose /\ sampled' = FALSE
       /\ eod' = [d \in 1..LastDay |->
            IF d \in done
            THEN Cardinality({p \in There(pullRows) : OpenAtEnd(p, d)})
            ELSE eod[d]]
  /\ pollAt' = "idle" /\ pageNo' = 1 /\ collected' = NoPulls
  /\ UNCHANGED <<hub, pullTag, pullRows, openedDaily, told, crashes>>

\* The process dies and is started again.
CrashPoll ==
  /\ crashes < MaxCrashes /\ crashes' = crashes + 1
  /\ pollAt' = "idle" /\ pageNo' = 1 /\ collected' = NoPulls
  /\ pullTag' = [n \in PullPages |-> {}]
  /\ UNCHANGED <<hub, pullTables, sampled, losses>>

PollStep == VisitRepo \/ SkipRepo \/ CollectPage \/ StorePulls \/ Sample

PullsNext ==
  \/ \E p \in Pulls : OpenPull(p) \/ ClosePull(p)
  \/ NextDay \/ PollStep \/ CrashPoll

PullsSpec == PullsInit /\ [][PullsNext]_pullsVars

\* The poller polls for ever, and the list of repositories changes now and then.
PullsFairness == WF_pullsVars(PollStep) /\ SF_pullsVars(VisitRepo)

-----------------------------------------------------------------------------
(***************************************************************************)
(* Properties.                                                             *)
(***************************************************************************)
PullsTypeOK ==
  /\ maxPages \in PageCaps /\ pageNo <= maxPages
  /\ day \in 1..LastDay /\ openedOn \in [Pulls -> 0..LastDay]
  /\ pull \in [Pulls -> States]
  /\ pullTag \in [PullPages -> SUBSET [Pulls -> States]]
  /\ pollAt \in {"idle", "pages", "store", "sample"} /\ pageNo \in PullPages
  /\ collected \in [Pulls -> States] /\ pullRows \in [Pulls -> States]
  /\ openedDaily \in [Pulls -> 0..2] /\ eod \in [1..LastDay -> Absent..NumPulls]
  /\ sampled \in BOOLEAN
  /\ told \in [Pulls -> States] /\ losses \in 0..MaxLosses
  /\ crashes \in 0..MaxCrashes

\* A sample accounts for every pull request ever stored, the pruned ones
\* included, as it was last stored: pruning never takes one that stood open at
\* the end of today or of yesterday (003:237), and a day that is over is
\* answered from the timestamps, not from what has happened since
\* (rollups.go:29).
SampleAccountsForAll ==
  sampled =>
    \A d \in {day, day - 1} \ {0} :
      eod[d] = Cardinality({p \in There(told) :
                              openedOn[p] <= d /\ (told[p] = 0 \/ told[p] > d)})

\* A pull request is deleted only after it was added to its day (003:31).
PrunedPullsCounted ==
  \A p \in There(told) : pullRows[p] = Absent => openedDaily[p] > 0

\* Every pull request that was stored is in the tables the dashboards read.
PullsAccountedFor == SampleAccountsForAll /\ PrunedPullsCounted

\* It is added once: "a raw row passes through the rollup exactly once: in the
\* statement that deletes it" (003:31).
PullsCountedOnce == \A p \in Pulls : openedDaily[p] <= 1

\* While no answer is lost, no statement fails and the list stays below the cap
\* of pages, every pull request is stored in the end, however the pages shift
\* and the process crashes.
BelowCap == Cardinality(There(pull)) < maxPages * PullsPerPage
OpenedPullsStored ==
  [](losses = 0 /\ BelowCap) =>
    []<>(\A p \in Pulls : pull[p] # Absent => told[p] # Absent)
=============================================================================
