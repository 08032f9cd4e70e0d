------------------------- MODULE CloudflareExporter -------------------------
(***************************************************************************)
(* What cloudflare_exporter has around its scheduler: the process and its  *)
(* shutdown, the discovery, the self metrics, and the OpenBao client its   *)
(* token may come from.  They share nothing the models keep, so a behaviour*)
(* is one of any of them, with small constants.                            *)
(***************************************************************************)
EXTENDS CloudflareProcess, CloudflareDiscovery, SelfMetrics, OpenbaoLease

VARIABLE part   \* which one it is a behaviour of

vars == <<part, processVars, discoveryVars, metricsVars, leaseVars>>

Init ==
  /\ part \in {"process", "discovery", "metrics", "lease"}
  /\ ProcessInit /\ DiscoveryInit /\ MetricsInit /\ LeaseInit
  /\ part # "lease" => reachable

Next ==
  /\ \/ /\ part = "process" /\ ProcessNext
        /\ UNCHANGED <<discoveryVars, metricsVars, leaseVars>>
     \/ /\ part = "discovery" /\ DiscoveryNext
        /\ UNCHANGED <<processVars, metricsVars, leaseVars>>
     \/ /\ part = "metrics" /\ MetricsNext
        /\ UNCHANGED <<processVars, discoveryVars, leaseVars>>
     \/ /\ part = "lease" /\ LeaseNext
        /\ UNCHANGED <<processVars, discoveryVars, metricsVars>>
  /\ UNCHANGED part

\* The fairness of the part that runs.
Spec ==
  /\ Init /\ [][Next]_vars
  /\ part = "process" => ProcessFairness
  /\ part = "lease" => LeaseFairness

-----------------------------------------------------------------------------
\* Each part's variables keep their types.
TypeOK == ProcessTypeOK /\ DiscoveryTypeOK /\ MetricsTypeOK /\ LeaseTypeOK

\* The liveness of the parts that have one.
ProcessEnds == part = "process" => ShutdownCompletes
LeaseRecovers == part = "lease" => LeaseComesBack

-----------------------------------------------------------------------------
MCDataset(n, s) == [name |-> n, scope |-> s]
MCDatasets == {MCDataset("access", "account"), MCDataset("dns", "zone")}
MCCollector(d, z, p) == [dataset |-> d, zones |-> z, probed |-> p]
MCCollectors ==
  {MCCollector("access", FALSE, FALSE), MCCollector("dns", TRUE, FALSE),
   MCCollector("none", FALSE, FALSE),   \* domain
   MCCollector("none", TRUE, FALSE),    \* certificate
   MCCollector("none", TRUE, TRUE)}     \* dns_records
=============================================================================
