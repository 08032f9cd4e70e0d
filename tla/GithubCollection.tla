-------------------------- MODULE GithubCollection --------------------------
(***************************************************************************)
(* What github_exporter has around its job synchronisation and retention:  *)
(* the backfiller and its quota, pull requests and the token.  A behaviour *)
(* is one of any of them, with small constants.                            *)
(***************************************************************************)
EXTENDS GithubBackfill, GithubPulls, GithubAuth

VARIABLE part   \* which one it is a behaviour of

vars == <<part, backfillVars, pullsVars, authVars>>

Init ==
  /\ part \in {"backfill", "pulls", "auth"}
  /\ BackfillInit /\ PullsInit /\ AuthInit
  /\ part # "backfill" => quota = Limit
  /\ part # "pulls" => \A m \in PageCaps : m <= maxPages

\* A step of one part leaves the others alone.
Backfilling(A) ==
  part = "backfill" /\ A /\ UNCHANGED <<part, pullsVars, authVars>>
Pulling(A) ==
  part = "pulls" /\ A /\ UNCHANGED <<part, backfillVars, authVars>>
Authorizing(A) ==
  part = "auth" /\ A /\ UNCHANGED <<part, backfillVars, pullsVars>>

Next == \/ Backfilling(BackfillNext) \/ Pulling(PullsNext) \/ Authorizing(AuthNext)

\* BackfillFairness, PullsFairness and AuthFairness, each where its part runs.
Spec ==
  /\ Init /\ [][Next]_vars
  /\ WF_vars(Backfilling(StepOn))
  /\ \A l \in Loops2 : WF_vars(Backfilling(Retry(l) \/ AskAgain(l)))
  /\ WF_vars(Backfilling(PollerAsks)) /\ WF_vars(Backfilling(PollerHears))
  /\ WF_vars(Backfilling(NewHour))
  /\ WF_vars(Pulling(PollStep)) /\ SF_vars(Pulling(VisitRepo))
  /\ WF_vars(Authorizing(UseToken)) /\ WF_vars(Authorizing(AuthTick))
  /\ SF_vars(Authorizing(RefreshToken))

-----------------------------------------------------------------------------
\* Each part's variables keep their types.
TypeOK == BackfillTypeOK /\ PullsTypeOK /\ AuthTypeOK

\* The liveness of the parts that have one.
AllServed == part = "backfill" => EveryRepoServed
AllStored == part = "pulls" => OpenedPullsStored
TokenRecovers == part = "auth" => DeadTokenReplaced

MCRepos == <<"a", "b">>
=============================================================================
