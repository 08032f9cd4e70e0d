------------------------ MODULE CloudflareSnapshots ------------------------
(***************************************************************************)
(* The REST collectors of cloudflare_exporter, which publish what exists   *)
(* rather than what happened: certificates, domains, DNS records and the   *)
(* tunnel inventory.  A collection asks for one zone or account after the  *)
(* other, page by page for DNS records, while the account changes.  Three  *)
(* of them build a new snapshot and put it in place of the old one, the    *)
(* tunnel inventory replaces the part of one account at a time.            *)
(*                                                                         *)
(* An item is a number; each makes one series.                             *)
(***************************************************************************)
EXTENDS Integers, FiniteSets, Sequences, SequencesExt

CONSTANTS Parts,       \* of a snapshot: zones or accounts
          Items,       \* what they may hold
          PageSize, MaxPages,   \* dnsRecordsPerPage, dnsRecordsMaxPages
          MaxChanges   \* bound on what is created and deleted

ASSUME SnapshotsAssumption ==
  /\ Items \subseteq Nat
  /\ PageSize \in Nat \ {0} /\ MaxPages \in Nat \ {0}
  /\ MaxChanges \in Nat

VARIABLES
  inventory,  \* the collector is the tunnel inventory, which has no pages
  remote,     \* what each part holds, as the API lists it
  changes,
  steady,     \* history: the parts unchanged since the collection began
  busy,       \* a collection is running
  unasked,    \* the parts it is not done with
  page,       \* the page it asks each of them for next
  draft,      \* newGauges
  failed,     \* the parts that failed
  published,  \* the snapshot a scrape reads
  totals      \* cloudflare_dns_records_total

work == <<busy, unasked, page, draft, failed>>
shown == <<published, totals>>
snapshotsVars == <<inventory, remote, changes, steady, work, shown>>

Nothing == [s \in Parts |-> <<>>]

\* One answer: a page of the list, and whether it says there are more.
MoreBeforeLast(list, p) ==   \* mutated form
  ~inventory /\ (p + 1) * PageSize < Len(list)
More(list, p) == ~inventory /\ p * PageSize < Len(list)
Page(list, p) ==
  SubSeq(list, (p - 1) * PageSize + 1,
         IF inventory \/ p * PageSize > Len(list) THEN Len(list) ELSE p * PageSize)

SnapshotsInit ==
  /\ inventory \in BOOLEAN
  /\ remote \in [Parts -> {<<>>} \union {<<i>> : i \in Items}]
  /\ changes = 0 /\ steady = Parts
  /\ busy = FALSE /\ unasked = {} /\ page = [s \in Parts |-> 1]
  /\ draft = Nothing /\ failed = {}
  /\ published = Nothing /\ totals = [s \in Parts |-> 0]

Change(s, list) ==
  /\ changes < MaxChanges /\ changes' = changes + 1
  /\ remote' = [remote EXCEPT ![s] = list]
  /\ steady' = steady \ {s}
  /\ UNCHANGED <<inventory, work, shown>>

Create(s, i) ==
  /\ \A r \in Parts : i \notin Range(remote[r])
  /\ Change(s, <<i>> \o remote[s])

Delete(s, k) == k \in DOMAIN remote[s] /\ Change(s, RemoveAt(remote[s], k))

\* Collect.
BeginSnapshot ==
  /\ ~busy /\ busy' = TRUE
  /\ unasked' = Parts /\ page' = [s \in Parts |-> 1]
  /\ draft' = Nothing /\ failed' = {} /\ steady' = Parts
  /\ UNCHANGED <<inventory, remote, changes, shown>>

\* The pages of a part are asked for in one go.
Turn(s) == busy /\ s \in unasked /\ \A r \in unasked \ {s} : page[r] = 1

\* refreshInventory puts the answer in place at once.
PublishPart(s) ==
  /\ published' = IF inventory THEN [published EXCEPT ![s] = draft'[s]] ELSE published
  /\ totals' = totals

NextPage(s) ==
  /\ Turn(s) /\ More(remote[s], page[s]) /\ page[s] < MaxPages
  /\ draft' = [draft EXCEPT ![s] = @ \o Page(remote[s], page[s])]
  /\ page' = [page EXCEPT ![s] = @ + 1]
  /\ UNCHANGED <<inventory, remote, changes, steady, busy, unasked, failed, shown>>

LastPage(s) ==
  /\ Turn(s) /\ (~More(remote[s], page[s]) \/ page[s] = MaxPages)
  /\ draft' = [draft EXCEPT ![s] = @ \o Page(remote[s], page[s])]
  /\ unasked' = unasked \ {s}
  /\ PublishPart(s)
  /\ UNCHANGED <<inventory, remote, changes, steady, busy, page, failed>>

\* A request fails, and its part is left out.
LeaveOut(s) ==
  /\ Turn(s)
  /\ unasked' = unasked \ {s} /\ failed' = failed \union {s}
  /\ draft' = [draft EXCEPT ![s] = <<>>]
  /\ UNCHANGED <<inventory, remote, changes, steady, busy, page, shown>>

\* The snapshot is replaced under the lock, failed parts included.
Swap ==
  /\ busy /\ unasked = {} /\ busy' = FALSE
  /\ IF inventory THEN UNCHANGED shown
     ELSE /\ published' = draft
          /\ totals' = [s \in Parts |-> Len(draft[s])]
  /\ UNCHANGED <<inventory, remote, changes, steady, unasked, page, draft, failed>>

SnapshotsNext ==
  \/ BeginSnapshot \/ Swap
  \/ \E s \in Parts :
       \/ NextPage(s) \/ LastPage(s) \/ LeaveOut(s)
       \/ \E i \in Items : Create(s, i)
       \/ \E k \in DOMAIN remote[s] : Delete(s, k)

SnapshotsSpec == SnapshotsInit /\ [][SnapshotsNext]_snapshotsVars

-----------------------------------------------------------------------------
\* A part that did not change while it was read is complete, up to the cap.
SteadyIsComplete ==
  \A s \in Parts :
    busy /\ s \in steady \ (unasked \union failed) =>
      draft[s] = SubSeq(remote[s], 1, Len(draft[s]))
      /\ (Len(draft[s]) = Len(remote[s]) \/ Len(draft[s]) = PageSize * MaxPages)

\* The two families of the DNS records collector come from one collection.
TotalsAgree == inventory \/ \A s \in Parts : totals[s] = Len(published[s])

\* What is built and what is served of it is right: no page is skipped, read twice
\* or left out of one family.
SnapshotsComplete == SteadyIsComplete /\ TotalsAgree

\* "When a collector fails, the aggregation store continues to serve the
\* previous generation of that collector's metrics"
\* (docs/cloudflare_exporter.md:384), for the part that failed.
FailedKeepsSeries == [][\A s \in failed' : published'[s] = published[s]]_snapshotsVars
=============================================================================
