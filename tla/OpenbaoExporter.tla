-------------------------- MODULE OpenbaoExporter --------------------------
(***************************************************************************)
(* openbao_exporter: scrapes that run side by side (Collector.Collect and  *)
(* the handler that appends NativeMetrics), the loop that discovers the    *)
(* members of the cluster, and the two fields they share.                  *)
(*                                                                         *)
(* The text of OpenBao's own metrics is reduced to when it was formed.     *)
(* The members are a function from nodes to how the raft configuration     *)
(* lists them.                                                             *)
(***************************************************************************)
EXTENDS Integers, FiniteSets

CONSTANTS Scrapes,      \* scrapes that run at a time
          Configs,      \* raft configurations: sets of [node, addressed]
          MaxTime       \* bound on the clock

ASSUME OpenbaoAssumption ==
  /\ MaxTime \in Nat \ {0} /\ IsFiniteSet(Scrapes)
  /\ \A c \in Configs : IsFiniteSet(c) /\ \A m \in c : m.addressed \in BOOLEAN

VARIABLES
  time,     \* what OpenBao puts into its metrics
  members,  \* Collector.members
  native,   \* Collector.nativeMetrics: when it was formed, 0 for ""
  scrape    \* each scrape: step, members read, text fetched, and its response

openbaoVars == <<time, members, native, scrape>>

\* floor: when the oldest scrape that overlaps the start of this one began.
Idle == [step |-> "idle", begun |-> 0, floor |-> 0, copy |-> {}, text |-> 0,
         up |-> FALSE, peers |-> 0, leaders |-> {}, served |-> 0]

OpenbaoInit ==
  /\ time = 1 /\ members = {} /\ native = 0
  /\ scrape = [s \in Scrapes |-> Idle]

Running == {s \in Scrapes : scrape[s].step # "idle"}
Least(S) == CHOOSE x \in S : \A y \in S : x <= y

Become(s, response) == scrape' = [scrape EXCEPT ![s] = response]

StartScrape(s) ==
  /\ scrape[s].step = "idle"
  /\ Become(s, [Idle EXCEPT !.step = "health", !.begun = time,
       !.floor = Least({scrape[t].begun : t \in Running} \union {time})])
  /\ UNCHANGED <<time, members, native>>

Health(s, up) ==
  /\ scrape[s].step = "health"
  /\ Become(s, [scrape[s] EXCEPT !.up = up,
                                 !.step = IF up THEN "members" ELSE "serve"])
  /\ UNCHANGED <<time, members, native>>

\* The list is read under the lock, and counted.
ReadMembers(s) ==
  /\ scrape[s].step = "members"
  /\ Become(s, [scrape[s] EXCEPT !.copy = members, !.step = "leaders",
       !.peers = IF members = {} THEN 1 ELSE Cardinality(members)])
  /\ UNCHANGED <<time, members, native>>

LeadersOf(list) == {m.node : m \in {n \in list : n.addressed}}
Leaders(s) == LeadersOf(scrape[s].copy)
EmitLeaders(s) ==
  /\ scrape[s].step = "leaders"
  /\ Become(s, [scrape[s] EXCEPT !.leaders = Leaders(s), !.copy = {},
                                 !.step = "fetch"])
  /\ UNCHANGED <<time, members, native>>

\* Metrics: the answer has arrived; it is stored a step later.
FetchText(s) ==
  /\ scrape[s].step = "fetch"
  /\ Become(s, [scrape[s] EXCEPT !.text = time, !.step = "store"])
  /\ UNCHANGED <<time, members, native>>
FetchFails(s) ==
  /\ scrape[s].step = "fetch"
  /\ Become(s, [scrape[s] EXCEPT !.text = 0, !.step = "store"])
  /\ UNCHANGED <<time, members, native>>

StoredIfAny(s) ==   \* mutated form: a failure keeps what was there
  IF scrape[s].text = 0 THEN native ELSE scrape[s].text
Stored(s) == scrape[s].text
StoreText(s) ==
  /\ scrape[s].step = "store"
  /\ native' = Stored(s)
  /\ Become(s, [scrape[s] EXCEPT !.text = 0, !.step = "serve"])
  /\ UNCHANGED <<time, members>>

\* The handler appends whatever the field holds by then.
ServeText(s) ==
  /\ scrape[s].step = "serve"
  /\ Become(s, [scrape[s] EXCEPT !.served = native, !.step = "idle"])
  /\ UNCHANGED <<time, members, native>>

\* discover; nothing changes when it fails or raft is not available.
Discover(c) ==
  /\ members' = c
  /\ UNCHANGED <<time, native, scrape>>

Pass ==
  /\ time < MaxTime /\ time' = time + 1
  /\ UNCHANGED <<members, native, scrape>>

OpenbaoNext ==
  \/ \E s \in Scrapes :
       \/ StartScrape(s) \/ \E up \in BOOLEAN : Health(s, up)
       \/ ReadMembers(s) \/ EmitLeaders(s)
       \/ FetchText(s) \/ FetchFails(s) \/ StoreText(s) \/ ServeText(s)
  \/ \E c \in Configs : Discover(c)
  \/ Pass

OpenbaoSpec == OpenbaoInit /\ [][OpenbaoNext]_openbaoVars

-----------------------------------------------------------------------------
OpenbaoTypeOK ==
  /\ time \in 1..MaxTime /\ members \in Configs \union {{}}
  /\ native \in 0..time
  /\ \A s \in Scrapes :
       /\ scrape[s].step \in {"idle", "health", "members", "leaders", "fetch",
                              "store", "serve"}
       /\ scrape[s].floor <= scrape[s].begun /\ scrape[s].begun <= time

\* A response that says up has native metrics no older than the scrapes it
\* overlapped with: another scrape's text may be served, an old one never.
OpenbaoServesFresh ==
  \A s \in Scrapes : LET r == scrape[s] IN
    r.step = "idle" /\ r.up /\ r.served # 0 => r.served >= r.floor

\* openbao_peers counts the members that the openbao_leader series are of,
\* though discovery replaces the list meanwhile.
OpenbaoPeersMatch ==
  \A s \in Scrapes : LET r == scrape[s] IN
    r.step = "idle" /\ r.up =>
      \E c \in Configs \union {{}} :
        /\ r.leaders = LeadersOf(c)
        /\ r.peers = IF c = {} THEN 1 ELSE Cardinality(c)

\* A response belongs together, though scrapes and discovery overlap.
OpenbaoResponses == OpenbaoServesFresh /\ OpenbaoPeersMatch

\* "When the seed node is unreachable, the exporter reports openbao_up 0 and
\* no other metrics" (docs/openbao_exporter.md:224).  It serves the text an
\* earlier scrape left.
UnreachableAlone ==
  \A s \in Scrapes : LET r == scrape[s] IN
    r.step = "idle" /\ r.begun > 0 /\ ~r.up => r.served = 0
=============================================================================
