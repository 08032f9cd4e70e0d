-------------------------- MODULE LibvirtExporter --------------------------
(***************************************************************************)
(* libvirt_exporter: one scrape after the other asks libvirtd over a       *)
(* connection per call (Collector.Collect and libvirtClient), while        *)
(* domains are destroyed, defined again under the same name, and libvirtd  *)
(* restarts.                                                               *)
(*                                                                         *)
(* Domains is what the host may run: records [uuid, name].  The statistics *)
(* of a device are one series, and so are those of the memory.             *)
(***************************************************************************)
EXTENDS Integers, FiniteSets, Sequences

CONSTANT Domains

ASSUME LibvirtAssumption ==
  IsFiniteSet(Domains) /\ \A d, e \in Domains : d.uuid = e.uuid => d = e

VARIABLES
  daemon,    \* libvirtd is running
  present,   \* the domains there are
  running,   \* those of them that run: only these have statistics
  steady,    \* history: those running since the scrape began, libvirtd too,
             \* and not left out of the list
  step,      \* "idle", "host", "list", "extract", or the call for a domain
  todo,      \* the domains to go, the first of them being asked for
  opened,    \* connections that are open
  found,     \* what a call found: the domains listed, or the one looked up
  series     \* what was emitted: [kind, uuid, name, from]

world == <<daemon, present, running, steady>>
libvirtVars == <<world, step, todo, opened, found, series>>

Calls == <<"memory", "block", "interface">>
CallIndex == CHOOSE i \in 1..3 : Calls[i] = step
Asking == step \in {"memory", "block", "interface"}

LibvirtInit ==
  /\ daemon = TRUE /\ present = {}
  /\ running = {} /\ steady = {}
  /\ step = "idle" /\ todo = <<>> /\ opened = 0 /\ found = {} /\ series = {}

\* What happens to the host, at any time.
scraping == <<step, todo, opened, found, series>>
Define(d) ==
  /\ \A e \in present : e.name # d.name
  /\ present' = present \union {d}
  /\ UNCHANGED <<daemon, running, steady, scraping>>
Start(d) ==
  /\ d \in present \ running
  /\ running' = running \union {d}
  /\ UNCHANGED <<daemon, present, steady, scraping>>
Stop(d) ==
  /\ d \in running
  /\ running' = running \ {d} /\ steady' = steady \ {d}
  /\ UNCHANGED <<daemon, present, scraping>>
Destroy(d) ==
  /\ d \in present
  /\ present' = present \ {d}
  /\ running' = running \ {d} /\ steady' = steady \ {d}
  /\ UNCHANGED <<daemon, scraping>>
Daemon(up) ==
  /\ daemon # up
  /\ daemon' = up /\ steady' = {}
  /\ UNCHANGED <<present, running, scraping>>

\* IsAvailable connects and closes; without libvirtd that is all.
Available ==
  /\ step = "idle"
  /\ steady' = IF daemon THEN running ELSE {}
  /\ step' = IF daemon THEN "host" ELSE "idle"
  /\ series' = {} /\ found' = {}
  /\ UNCHANGED <<daemon, present, running, todo, opened>>

\* collectHostMetrics: what fails is left out, and nothing depends on it.
HostMetrics ==
  /\ step = "host" /\ step' = "list"
  /\ UNCHANGED <<world, todo, opened, found, series>>

\* ListDomains: the handles first, then what each of them says ...
ListAll ==
  /\ step = "list" /\ daemon
  /\ opened' = opened + 1 /\ found' = present /\ step' = "extract"
  /\ UNCHANGED <<world, todo, series>>
ListFails ==
  /\ step = "list" /\ ~daemon
  /\ step' = "idle"
  /\ UNCHANGED <<world, todo, opened, found, series>>

Base(d) == [kind |-> "state", uuid |-> d.uuid, name |-> d.name, from |-> d]

\* ... each at some time until the last has answered, so also one that is gone
\* by now.  A domain that does not answer, because it or libvirtd is gone or for
\* any other reason, is left out, and the scrape goes on with the others.
Extract ==
  /\ step = "extract"
  /\ \E told \in SUBSET found :
       /\ \E order \in [1..Cardinality(told) -> told] :
            /\ \A i, j \in DOMAIN order : i # j => order[i] # order[j]
            /\ todo' = order
            /\ step' = IF order = <<>> THEN "idle" ELSE "memory"
            /\ series' = {Base(d) : d \in {order[i] : i \in DOMAIN order}}
       /\ steady' = steady \ (found \ told)
  /\ opened' = opened - 1 /\ found' = {}
  /\ UNCHANGED <<daemon, present, running>>

\* The next call for this domain, or the first one for the next.
NextCall ==
  IF CallIndex < 3
  THEN step' = Calls[CallIndex + 1] /\ UNCHANGED todo
  ELSE /\ todo' = Tail(todo)
       /\ step' = IF Len(todo) = 1 THEN "idle" ELSE "memory"
EndScrape ==   \* mutated form: an error ends the scrape
  step' = "idle" /\ todo' = <<>>

\* A call connects and looks the domain up by its UUID.
Lookup(d) == {e \in present : e.uuid = d.uuid}
Find ==
  /\ Asking /\ opened = 0 /\ daemon
  /\ Lookup(Head(todo)) # {}
  /\ opened' = 1 /\ found' = Lookup(Head(todo))
  /\ UNCHANGED <<world, step, todo, series>>

AfterError == NextCall

\* No connection, or no such domain any more.
NotFound ==
  /\ Asking /\ opened = 0
  /\ ~daemon \/ Lookup(Head(todo)) = {}
  /\ AfterError
  /\ UNCHANGED <<world, opened, found, series>>

\* The XML and the statistics are read while the domain runs ...
Statistics ==
  /\ Asking /\ opened = 1
  /\ daemon /\ found \subseteq running
  /\ LET d == Head(todo) IN
     series' = series \union {[kind |-> step, uuid |-> d.uuid,
                               name |-> d.name, from |-> e] : e \in found}
  /\ opened' = 0 /\ found' = {} /\ NextCall
  /\ UNCHANGED world

\* ... and the connection is closed when they are not.
StatisticsFail ==
  /\ Asking /\ opened = 1
  /\ ~daemon \/ ~(found \subseteq running)
  /\ opened' = 0 /\ found' = {} /\ AfterError
  /\ UNCHANGED <<world, series>>

LibvirtNext ==
  \/ \E d \in Domains : Define(d) \/ Start(d) \/ Stop(d) \/ Destroy(d)
  \/ \E up \in BOOLEAN : Daemon(up)
  \/ Available \/ HostMetrics \/ ListAll \/ ListFails \/ Extract
  \/ Find \/ NotFound \/ Statistics \/ StatisticsFail

LibvirtSpec == LibvirtInit /\ [][LibvirtNext]_libvirtVars

-----------------------------------------------------------------------------
LibvirtTypeOK ==
  /\ daemon \in BOOLEAN /\ present \subseteq Domains 
  /\ steady \subseteq running /\ running \subseteq present
  /\ step \in {"idle", "host", "list", "extract", "memory", "block",
               "interface"}
  /\ todo \in Seq(Domains) /\ (Asking <=> todo # <<>>)
  /\ opened \in 0..1 /\ found \subseteq Domains
  /\ \A s \in series : s.from \in Domains

\* What is published under a UUID was read from the domain that has it, though
\* another domain takes the name while a scrape runs ("eliminates TOCTOU
\* races", client.go:187).
LibvirtOwnStatistics == \A s \in series : s.from.uuid = s.uuid

\* No connection is left open by a call, whatever it met: the next one finds
\* none, and a scrape that is over holds none.
LibvirtNoneLeftOpen == step \in {"idle", "host", "list"} => opened = 0

\* "If a domain is destroyed between the list call and the stats call ...
\* metrics for all other domains are unaffected" (libvirt_exporter.md:233):
\* at the end of a scrape each domain that ran all along, and answered when the
\* list was made, has all its series.
LibvirtOthersUnaffected ==
  step = "idle" /\ series # {} =>
    \A d \in steady : \A kind \in {"state", "memory", "block", "interface"} :
      [kind |-> kind, uuid |-> d.uuid, name |-> d.name, from |-> d] \in series

\* A scrape of a changing host tells of each domain what is its own, all of it,
\* and leaves no connection behind.
LibvirtScrapeRight ==
  LibvirtOwnStatistics /\ LibvirtNoneLeftOpen /\ LibvirtOthersUnaffected
=============================================================================
