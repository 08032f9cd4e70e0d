------------------------ MODULE CloudflareDiscovery ------------------------
(***************************************************************************)
(* The capability discovery of cloudflare_exporter (internal/discovery),   *)
(* run once when the process starts and again every discovery interval,    *)
(* and what the process makes of its result: the matrix it serves on       *)
(* /capabilities and the collectors it registers.                          *)
(*                                                                         *)
(* An answer of Cloudflare is reduced to what the code tells apart; a      *)
(* request that fails, at any time and for any reason, answers "error".    *)
(***************************************************************************)
EXTENDS FiniteSets

CONSTANTS
  Datasets,      \* KnownDatasets: records with a name and a scope
  Collectors     \* records: the name of the dataset one needs, or "none",
                 \* whether it needs zones, and whether it is probed first

ASSUME DiscoveryAssumption ==
  /\ IsFiniteSet(Datasets)
  /\ \A d \in Datasets : d.scope \in {"account", "zone"}
  /\ \A c \in Collectors : {c.zones, c.probed} \subseteq BOOLEAN

VARIABLES
  stage,       \* where Run is, "idle" between two runs
  building,    \* the matrix Run fills in
  todo,        \* datasets the stage has still to ask for
  entitled,    \* datasets stage 3 hands to stage 4
  refused,     \* history: datasets that this run has asked for in vain
  granted,     \* history: datasets whose settings said that they are enabled
  current,     \* the matrix /capabilities serves
  registered   \* the collectors the scheduler knows, and whether
               \* registerCollectors has run

discoveryVars ==
  <<stage, building, todo, entitled, refused, granted, current, registered>>

States == {"available", "absent_from_schema", "not_entitled", "probe_failed",
           "window_exceeds_retention"}

NewMatrix == [valid |-> FALSE, zones |-> FALSE,
              state |-> [d \in Datasets |-> "unknown"]]

DiscoveryInit ==
  /\ stage = "idle" /\ building = NewMatrix /\ current = NewMatrix
  /\ todo = {} /\ entitled = {} /\ refused = {} /\ granted = {}
  /\ registered = [set |-> {}, done |-> FALSE]

Run ==
  /\ stage = "idle"
  /\ stage' = "identity" /\ building' = NewMatrix
  /\ todo' = {} /\ entitled' = {} /\ refused' = {} /\ granted' = {}
  /\ UNCHANGED <<current, registered>>

\* Token and accounts: without them there is no matrix.
Identity(answer) ==
  /\ stage = "identity" /\ answer \in {"error", "accounts"}
  /\ building' = [building EXCEPT !.valid = (answer = "accounts")]
  /\ stage' = IF answer = "error" THEN "failed" ELSE "zones"
  /\ UNCHANGED <<todo, entitled, refused, granted, current, registered>>

\* Zones: none are found, or all are left out, or asking for them fails.
Zones(answer) ==
  /\ stage = "zones" /\ answer \in {"error", "none", "zones"}
  /\ building' = [building EXCEPT !.zones = (answer = "zones")]
  /\ stage' = "schema"
  /\ UNCHANGED <<todo, entitled, refused, granted, current, registered>>

\* The types of the schema: if they cannot be had, every dataset may exist.
Schema(answer) ==
  /\ stage = "schema" /\ answer \in {"error", "garbled", "types"}
  /\ IF answer = "types"
     THEN /\ stage' = "fields" /\ UNCHANGED <<building, todo>>
     ELSE /\ stage' = "settings" /\ todo' = Datasets
          /\ building' = IF answer = "garbled" THEN building ELSE
               [building EXCEPT !.state = [d \in Datasets |-> "available"]]
  /\ UNCHANGED <<entitled, refused, granted, current, registered>>

\* introspectScope, for accounts and zones: the datasets that are found, all
\* of them when one of the queries fails.
Fields(found) ==
  /\ stage = "fields" /\ stage' = "settings" /\ todo' = found
  /\ building' = [building EXCEPT !.state = [d \in Datasets |->
       IF d \in found THEN "available" ELSE "absent_from_schema"]]
  /\ UNCHANGED <<entitled, refused, granted, current, registered>>

SetDataset(d, state) == building' = [building EXCEPT !.state[d] = state]

\* Stage 3 when the dataset is of a zone and there is none.
Zoneless(d) ==
  /\ stage = "settings" /\ d \in todo /\ d.scope = "zone" /\ ~building.zones
  /\ todo' = todo \ {d} /\ SetDataset(d, "not_entitled")
  /\ UNCHANGED <<stage, entitled, refused, granted, current, registered>>

\* Stage 3: what the settings of the dataset say.  parseSettingsFromResponse takes
\* every dataset for enabled that it finds in an answer, and also one that it
\* does not find; only an answer that has no viewer is no answer.
Answers == {"error", "no viewer", "short", "no settings", "disabled", "enabled"}
Settings(d, answer) ==
  LET asEnabled == answer \in {"no settings", "disabled", "enabled"} IN
  /\ stage = "settings" /\ d \in todo
  /\ d.scope = "account" \/ building.zones
  /\ todo' = todo \ {d}
  /\ SetDataset(d, CASE asEnabled -> "available"
                     [] answer = "short" -> "window_exceeds_retention"
                     [] OTHER -> "not_entitled")
  /\ entitled' = IF asEnabled THEN entitled \union {d} ELSE entitled
  /\ refused' = IF asEnabled THEN refused ELSE refused \union {d}
  /\ granted' = IF answer = "enabled" THEN granted \union {d} ELSE granted
  /\ UNCHANGED <<stage, current, registered>>

StartProbing ==
  /\ stage = "settings" /\ todo = {}
  /\ stage' = "probe" /\ todo' = entitled
  /\ UNCHANGED <<building, entitled, refused, granted, current, registered>>

\* Stage 4: a request that fails tells; errors in an answer are not looked at.
KeepState(d, answer) == UNCHANGED building   \* mutated form
Probed(d, answer) ==
  IF answer = "error" THEN SetDataset(d, "probe_failed") ELSE UNCHANGED building
Probe(d, answer) ==
  /\ stage = "probe" /\ d \in todo
  /\ answer \in {"error", "errors in the answer", "count"}
  /\ todo' = todo \ {d} /\ Probed(d, answer)
  /\ refused' = IF answer = "error" THEN refused \union {d} ELSE refused
  /\ UNCHANGED <<stage, entitled, granted, current, registered>>

EndRun ==
  /\ stage = "probe" /\ todo = {}
  /\ stage' = "done"
  /\ UNCHANGED <<building, todo, entitled, refused, granted, current, registered>>

-----------------------------------------------------------------------------
\* registerCollectors: what a collector needs has been found.
IsAvailable(m, name) ==
  \E d \in Datasets : d.name = name /\ m.state[d] = "available"
Eligible(m, c) ==
  /\ m.valid
  /\ c.dataset = "none" \/ IsAvailable(m, c.dataset)
  /\ c.zones => m.zones

\* The first run has returned, successfully or not.  A collector whose probe
\* is denied is left out.
Start(denied) ==
  /\ ~registered.done /\ stage \in {"failed", "done"}
  /\ current' = building /\ stage' = "idle"
  /\ registered' = [set |-> {c \in Collectors \ denied : Eligible(building, c)},
                    done |-> TRUE]
  /\ UNCHANGED <<building, todo, entitled, refused, granted>>

\* A later run has returned: a matrix is replaced only by a whole one.
Replace ==
  /\ registered.done /\ stage \in {"failed", "done"}
  /\ current' = IF stage = "done" THEN building ELSE current
  /\ stage' = "idle"
  /\ UNCHANGED <<building, todo, entitled, refused, granted, registered>>

DiscoveryNext ==
  \/ Run
  \/ \E answer \in {"error", "accounts"} : Identity(answer)
  \/ \E answer \in {"error", "none", "zones"} : Zones(answer)
  \/ \E answer \in {"error", "garbled", "types"} : Schema(answer)
  \/ \E found \in SUBSET Datasets : Fields(found)
  \/ \E d \in Datasets :
       \/ Zoneless(d)
       \/ \E a \in Answers : Settings(d, a)
       \/ \E a \in {"error", "errors in the answer", "count"} : Probe(d, a)
  \/ \E denied \in SUBSET {c \in Collectors : c.probed} : Start(denied)
  \/ StartProbing \/ EndRun \/ Replace

DiscoverySpec == DiscoveryInit /\ [][DiscoveryNext]_discoveryVars

-----------------------------------------------------------------------------
DiscoveryTypeOK ==
  LET Matrices == [valid : BOOLEAN, zones : BOOLEAN,
                   state : [Datasets -> States \union {"unknown"}]]
  IN /\ stage \in {"idle", "identity", "zones", "schema", "fields", "settings",
                   "probe", "done", "failed"}
     /\ building \in Matrices /\ current \in Matrices
     /\ todo \subseteq Datasets /\ entitled \subseteq Datasets
     /\ refused \subseteq Datasets /\ granted \subseteq Datasets
     /\ registered.set \subseteq Collectors /\ registered.done \in BOOLEAN

\* The matrix of a run with a valid token has a state for every dataset,
\* whichever stage failed, so that isAvailable never meets a missing entry.
DiscoveryComplete ==
  stage = "done" \/ (stage = "idle" /\ building.valid) =>
    \A d \in Datasets : building.state[d] \in States

\* A dataset is available only if this run has asked for its settings, was
\* answered without an error and with a retention that the window fits in, and if
\* the request of its probe did not fail: the tentative state of stage 2 never
\* remains, whichever stage failed or was left out.
DiscoveryConfirmed ==
  stage = "done" =>
    \A d \in Datasets : building.state[d] = "available" =>
      d \in entitled /\ d \notin refused

\* What stage 3 says it checks: "dataset not enabled in settings"
\* (discovery.go:566), so what is available was enabled there.  The code does
\* otherwise.
AvailableIsEnabled ==
  stage = "done" =>
    \A d \in Datasets : building.state[d] = "available" => d \in granted

\* Whoever reads a matrix finds a state for every dataset, one that is available
\* only where the requests of this run were answered.
DiscoverySound == DiscoveryComplete /\ DiscoveryConfirmed

\* "How often (seconds) capability discovery re-runs to pick up new zones or
\* product entitlements" (docs/cloudflare_exporter.md:193): what a later run
\* finds is collected.  The code registers collectors once.
EntitlementsPickedUp ==
  registered.done /\ stage = "idle" =>
    \A c \in Collectors :
      ~c.probed /\ Eligible(current, c) => c \in registered.set
=============================================================================
