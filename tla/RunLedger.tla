----------------------------- MODULE RunLedger -----------------------------
(***************************************************************************)
(* What the retention of workflow runs promises                            *)
(* (003_retention_correctness.sql:31): a run of GitHub becomes a raw row,  *)
(* later it is settled in its daily row, and it never comes back.  Readers *)
(* of raw rows and daily rows together therefore neither miss nor repeat   *)
(* it.  GithubRetention implements this.                                   *)
(***************************************************************************)
CONSTANT DatedRuns
VARIABLE place   \* where each run is: "github", "raw" or "daily"

LedgerInit == place = [r \in DatedRuns |-> "github"]

\* One commit stores some runs and settles others.
Commit(new, settled) ==
  /\ \A r \in new : place[r] = "github"
  /\ \A r \in settled : place[r] = "raw"
  /\ place' = [r \in DatedRuns |-> IF r \in new THEN "raw"
                                   ELSE IF r \in settled THEN "daily" ELSE place[r]]

LedgerNext == \E new, settled \in SUBSET DatedRuns : Commit(new, settled)

LedgerSpec == LedgerInit /\ [][LedgerNext]_place
=============================================================================
