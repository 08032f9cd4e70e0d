---------------------- MODULE CloudflareExporterProofs ----------------------
(***************************************************************************)
(* What surrounds the scheduler of cloudflare_exporter, for any loops,     *)
(* data sets, collectors, clocks and leases: the order of its shutdown,    *)
(* what its capability matrix may be trusted with, the worst of its times, *)
(* and the token of its OpenBao client.                                    *)
(***************************************************************************)
EXTENDS CloudflareExporter, FiniteSetTheorems, TLAPS

\* A behaviour of the exporter is one of each of its parts, most of which
\* stand still.
LEMMA PartsStep ==
  ASSUME [Next]_vars
  PROVE  /\ [ProcessNext]_processVars /\ [DiscoveryNext]_discoveryVars
         /\ [MetricsNext]_metricsVars /\ [LeaseNext]_leaseVars
BY DEF Next, vars

-----------------------------------------------------------------------------
\* The process.  Once the token is wiped every loop of a collector has ended
\* and the context is cancelled, which holds from the moment run reaches its
\* last deferred call; a request with a wiped token was formed after that.
ShutdownInv ==
  /\ ProcessTypeOK
  /\ wiped => main \in {"closed"} \union Gone
  /\ main \in {"cancelling", "closing", "closed"} \/ wiped => AllEnded
  /\ main \in {"closing", "closed"} \/ wiped => cancelled
  /\ \A u \in Askers : asking[u].wiped => wiped
  /\ NoWipedToken

LEMMA ShutdownInvInit == ProcessInit => ShutdownInv
<1> SUFFICES ASSUME ProcessInit PROVE ShutdownInv
  OBVIOUS
<1>1. main = "discovering" /\ cancelled = FALSE /\ wiped = FALSE
  BY DEF ProcessInit
<1>2. \A u \in Askers : asking[u] = [step |-> "off", wiped |-> FALSE]
  BY DEF ProcessInit
<1>3. \A u \in Askers : asking[u].wiped = FALSE /\ asking[u].step = "off"
  BY <1>2
<1>4. ProcessTypeOK
  BY DEF ProcessInit, ProcessTypeOK
<1>5. NoWipedToken
  BY <1>3 DEF NoWipedToken
<1> QED
  BY <1>1, <1>3, <1>4, <1>5 DEF ShutdownInv

\* The loops start with the token of a client that nobody has closed.
LEMMA LoopsStart ==
  ASSUME ShutdownInv, StartLoops
  PROVE  ShutdownInv'
<1>1. ProcessTypeOK /\ (wiped => main \in {"closed", "exited", "panicked"})
  BY DEF ShutdownInv, Gone
<1>2. /\ main = "discovering" /\ main' = "started"
      /\ asking' = [u \in Askers |-> [step |-> "idle", wiped |-> FALSE]]
      /\ UNCHANGED <<server, watcher, cancelled, wiped>>
  BY DEF StartLoops, Advance
<1>3. wiped = FALSE
  BY <1>1, <1>2 DEF ProcessTypeOK
<1>4. \A u \in Askers : asking'[u] = [step |-> "idle", wiped |-> FALSE]
  BY <1>2
<1>5. \A u \in Askers : asking'[u].wiped = FALSE /\ asking'[u].step = "idle"
  BY <1>4
<1>6. ProcessTypeOK'
  BY <1>1, <1>2 DEF ProcessTypeOK
<1>7. NoWipedToken'
  BY <1>5 DEF NoWipedToken
<1> QED
  BY <1>2, <1>3, <1>5, <1>6, <1>7 DEF ShutdownInv

\* A step of run.
LEMMA MainKeepsOrder ==
  ASSUME ShutdownInv, MainStep, main \notin Gone
  PROVE  ShutdownInv'
<1> USE DEF ShutdownInv, ProcessTypeOK, NoWipedToken, AllEnded, Gone, Advance
<1>1. CASE StartLoops
  BY <1>1, LoopsStart
<1>2. CASE Notify \/ CreateServer \/ Listen \/ ServerReturns \/ StopLoops \/ Exit
  <2>1. UNCHANGED <<cancelled, wiped, asking>>
    BY <1>2 DEF Notify, CreateServer, Listen, ServerReturns, StopLoops, Exit
  <2>2. main' \in {"starting server", "binding", "serving", "returning",
                   "waiting", "exited"}
    BY <1>2 DEF Notify, CreateServer, Listen, ServerReturns, StopLoops, Exit
  <2>3. main = "closed" \/ ~wiped
    OBVIOUS
  <2>4. main = "closed" => main' = "exited"
    BY <1>2 DEF Notify, CreateServer, Listen, ServerReturns, StopLoops, Exit
  <2>5. ProcessTypeOK'
    BY <1>2 DEF Notify, CreateServer, Listen, ServerReturns, StopLoops, Exit
  <2> QED
    BY <2>1, <2>2, <2>3, <2>4, <2>5
<1>3. CASE LoopsStopped
  BY <1>3 DEF LoopsStopped
<1>4. CASE Cancel
  BY <1>4 DEF Cancel, CancelContext
<1>5. CASE CloseClient
  BY <1>5 DEF CloseClient
<1> QED
  BY <1>1, <1>2, <1>3, <1>4, <1>5 DEF MainStep

\* A step of the goroutine that waits for a signal.
LEMMA WatcherKeepsOrder ==
  ASSUME ShutdownInv, main \notin Gone,
         Signal \/ ContextDone \/ WatcherCancels \/ Shutdown
  PROVE  ShutdownInv'
<1> USE DEF ShutdownInv, ProcessTypeOK, NoWipedToken, AllEnded, Gone
<1>1. CASE Signal
  BY <1>1 DEF Signal
<1>2. CASE ContextDone
  BY <1>2 DEF ContextDone
<1>3. CASE WatcherCancels
  BY <1>3 DEF WatcherCancels
<1>4. CASE Shutdown
  BY <1>4 DEF Shutdown
<1> QED
  BY <1>1, <1>2, <1>3, <1>4

\* A step of a loop.
LEMMA LoopKeepsOrder ==
  ASSUME ShutdownInv, NEW u \in Askers,
         Form(u) \/ Send(u) \/ NotSent(u) \/ Answered(u) \/ EndLoop(u)
  PROVE  ShutdownInv'
<1> USE DEF ShutdownInv, ProcessTypeOK, NoWipedToken, AllEnded, Turn
<1>0. Loops \subseteq Askers
  BY DEF Askers
<1>1. CASE Form(u)
  BY <1>0, <1>1 DEF Form
<1>2. CASE Send(u)
  BY <1>0, <1>2 DEF Send, Stopped
<1>3. CASE NotSent(u)
  BY <1>0, <1>3 DEF NotSent
<1>4. CASE Answered(u)
  BY <1>0, <1>4 DEF Answered
<1>5. CASE EndLoop(u)
  BY <1>0, <1>5 DEF EndLoop
<1> QED
  BY <1>1, <1>2, <1>3, <1>4, <1>5

LEMMA ShutdownInvStep ==
  ASSUME ShutdownInv, [ProcessNext]_processVars
  PROVE  ShutdownInv'
<1>1. CASE UNCHANGED processVars
  BY <1>1 DEF processVars, ShutdownInv, ProcessTypeOK, NoWipedToken, AllEnded
<1>2. CASE ProcessNext
  BY <1>2, MainKeepsOrder, WatcherKeepsOrder, LoopKeepsOrder DEF ProcessNext
<1> QED
  BY <1>1, <1>2

\* Whatever the signals, the loops and their requests do, the deferred calls
\* of run (main.go) leave no request with a wiped token and cut no collection
\* off.
THEOREM ShutsDownInOrder == Spec => []ShutdownInOrder
<1>1. Init => ShutdownInv
  BY ShutdownInvInit DEF Init
<1>2. ShutdownInv /\ [Next]_vars => ShutdownInv'
  BY ShutdownInvStep, PartsStep
<1>3. ShutdownInv => ShutdownInOrder
  BY DEF ShutdownInv, ShutdownInOrder, CollectionsEndFirst, AllEnded
<1> QED
  BY <1>1, <1>2, <1>3, PTL DEF Spec
-----------------------------------------------------------------------------
\* The self metrics.  While a time is about to be published nobody stores
\* another, so that it is still the worst when it is.
WorstInv ==
  /\ MetricsTypeOK
  /\ recorder \in [Recorders -> [step : {"collecting", "succeeded", "stored",
                                         "publishing"}, time : Nat]]
  /\ \A c \in Recorders :
       /\ recorder[c].step = "succeeded" => recorder[c].time # 0
       /\ recorder[c].step \in {"stored", "publishing"} => lastUpdatedTimes[c] # 0
       /\ recorder[c].step = "publishing" => recorder[c].time = Worst
  /\ GlobalIsWorst

\* A set of numbers that is not empty has a least one.
LEMMA LeastNumber ==
  ASSUME NEW S \in SUBSET Nat, S # {}
  PROVE  \E t \in S : \A u \in S : t <= u
<1> DEFINE Below(t) == {u \in S : u < t}
           Belows == {Below(t) : t \in S}
<1>1. Belows \subseteq FiniteSubsetsOf(S)
  <2>1. ASSUME NEW t \in S PROVE Below(t) \in FiniteSubsetsOf(S)
    <3>1. t \in Nat /\ S \subseteq Nat
      OBVIOUS
    <3>2. Below(t) \in SUBSET Nat
      BY <3>1
    <3>3. \A u \in Below(t) : u <= t
      BY <3>1
    <3>4. IsFiniteSet(Below(t))
      BY <3>1, <3>2, <3>3, FS_BoundedSetOfNaturals
    <3> QED
      BY <3>4 DEF FiniteSubsetsOf
  <2> QED
    BY <2>1
<1>2. Belows # {}
  OBVIOUS
<1>3. \E B \in Belows : \A C \in Belows : ~(<<C, B>> \in StrictSubsetOrdering(S))
  BY <1>1, <1>2, FS_StrictSubsetOrderingWellFounded, WFMin
<1>4. PICK t \in S : \A C \in Belows : ~(<<C, Below(t)>> \in StrictSubsetOrdering(S))
  BY <1>3
<1>5. ASSUME NEW u \in S, ~(t <= u) PROVE FALSE
  <2>1. u < t /\ u \in Nat /\ t \in Nat
    BY <1>5
  <2>2. Below(u) \subseteq Below(t)
    <3>1. \A v \in S : v \in Nat
      OBVIOUS
    <3>2. \A v \in Nat : v < u => v < t
      BY <2>1
    <3> QED
      BY <3>1, <3>2
  <2>3. u \in Below(t)
    BY <2>1
  <2>4. u \notin Below(u)
    BY <2>1
  <2>5. Below(u) \in SUBSET S /\ Below(t) \in SUBSET S /\ Below(u) \in Belows
    OBVIOUS
  <2>6. Below(u) # Below(t)
    BY <2>3, <2>4
  <2> HIDE DEF Below, Belows
  <2>7. <<Below(u), Below(t)>> \in StrictSubsetOrdering(S)
    BY <2>2, <2>5, <2>6 DEF StrictSubsetOrdering
  <2> QED
    BY <1>4, <2>5, <2>7
<1> QED
  BY <1>5

\* The worst of the times is one of them.
LEMMA WorstIsOne ==
  ASSUME MetricsTypeOK, NEW c \in Recorders, lastUpdatedTimes[c] # 0
  PROVE  Times # {} /\ Worst \in Times /\ Worst \in 0..clock
<1>1. Times \in SUBSET Nat /\ Times \subseteq 0..clock
  BY DEF Times, MetricsTypeOK
<1>2. lastUpdatedTimes[c] \in Times
  BY DEF Times
<1>3. \E t \in Times : \A u \in Times : t <= u
  BY <1>1, <1>2, LeastNumber
<1>4. Worst \in Times
  BY <1>3 DEF Worst
<1> QED
  BY <1>1, <1>2, <1>4

LEMMA WorstInvInit == MetricsInit => WorstInv
<1> SUFFICES ASSUME MetricsInit PROVE WorstInv
  OBVIOUS
<1>1. clock = 1 /\ lastUpdatedGlobal = 0 /\ MaxClock \in Nat \ {0}
  BY MetricsAssumption DEF MetricsInit
<1>2. \A c \in Recorders : recorder[c].step = "collecting" /\ recorder[c].time = 0
  BY DEF MetricsInit
<1>3. lastUpdatedTimes = [c \in Recorders |-> 0]
  BY DEF MetricsInit
<1>4. MetricsTypeOK
  BY <1>1, <1>2, <1>3 DEF MetricsTypeOK
<1>5. Times = {}
  BY <1>3 DEF Times
<1>6. recorder \in [Recorders -> [step : {"collecting", "succeeded", "stored",
                                          "publishing"}, time : Nat]]
  BY DEF MetricsInit
<1> QED
  BY <1>1, <1>2, <1>4, <1>5, <1>6 DEF WorstInv, GlobalIsWorst

LEMMA PassKeepsWorst == ASSUME WorstInv, Pass PROVE WorstInv'
<1>1. MetricsTypeOK'
  BY MetricsAssumption DEF WorstInv, MetricsTypeOK, Pass
<1>2. Times' = Times /\ Worst' = Worst
  BY DEF Pass, Times, Worst
<1> QED
  BY <1>1, <1>2 DEF WorstInv, GlobalIsWorst, Pass

LEMMA SucceedKeepsWorst ==
  ASSUME WorstInv, NEW c \in Recorders, Succeed(c) PROVE WorstInv'
<1>1. /\ recorder[c].step = "collecting"
      /\ recorder' = [recorder EXCEPT ![c] = [step |-> "succeeded", time |-> clock]]
      /\ UNCHANGED <<clock, lastUpdatedTimes, lastUpdatedGlobal>>
  BY DEF Succeed, Record
<1>2. clock \in Nat /\ clock # 0 /\ clock \in 0..clock
  BY MetricsAssumption DEF WorstInv, MetricsTypeOK
<1>3. MetricsTypeOK'
  BY <1>1, <1>2 DEF WorstInv, MetricsTypeOK
<1>4. Times' = Times /\ Worst' = Worst
  BY <1>1 DEF Times, Worst
<1>5. \A d \in Recorders \ {c} : recorder'[d] = recorder[d]
  BY <1>1 DEF WorstInv
<1>6. recorder'[c].step = "succeeded" /\ recorder'[c].time = clock
  BY <1>1 DEF WorstInv
<1>7. GlobalIsWorst'
  BY <1>1, <1>4, <1>5, <1>6 DEF WorstInv, GlobalIsWorst
<1>8. recorder' \in [Recorders -> [step : {"collecting", "succeeded", "stored",
                                           "publishing"}, time : Nat]]
  BY <1>1, <1>2 DEF WorstInv
<1> QED
  BY <1>1, <1>2, <1>3, <1>4, <1>5, <1>6, <1>7, <1>8 DEF WorstInv

LEMMA StoreKeepsWorst ==
  ASSUME WorstInv, NEW c \in Recorders, Store(c) PROVE WorstInv'
<1>1. /\ recorder[c].step = "succeeded"
      /\ \A d \in Recorders : recorder[d].step # "publishing"
      /\ lastUpdatedTimes' = [lastUpdatedTimes EXCEPT ![c] = recorder[c].time]
      /\ recorder' = [recorder EXCEPT ![c] = [step |-> "stored", time |-> 0]]
      /\ UNCHANGED <<clock, lastUpdatedGlobal>>
  BY DEF Store, Record, Unread
<1>2. clock \in Nat /\ recorder[c].time \in 0..clock /\ recorder[c].time # 0
  BY <1>1, MetricsAssumption DEF WorstInv, MetricsTypeOK
<1>3. \A d \in Recorders \ {c} :
        recorder'[d] = recorder[d] /\ lastUpdatedTimes'[d] = lastUpdatedTimes[d]
  BY <1>1 DEF WorstInv, MetricsTypeOK
<1>4. /\ recorder'[c].step = "stored" /\ recorder'[c].time = 0
      /\ lastUpdatedTimes'[c] = recorder[c].time
  BY <1>1 DEF WorstInv, MetricsTypeOK
<1>5. MetricsTypeOK'
  BY <1>1, <1>2, <1>3, <1>4 DEF WorstInv, MetricsTypeOK
<1>6. GlobalIsWorst'
  BY <1>4 DEF GlobalIsWorst
<1>7. recorder' \in [Recorders -> [step : {"collecting", "succeeded", "stored",
                                           "publishing"}, time : Nat]]
  BY <1>1 DEF WorstInv
<1> QED
  BY <1>1, <1>2, <1>3, <1>4, <1>5, <1>6, <1>7 DEF WorstInv

LEMMA FindKeepsWorst ==
  ASSUME WorstInv, NEW c \in Recorders, FindWorst(c) PROVE WorstInv'
<1>1. /\ recorder[c].step = "stored"
      /\ recorder' = [recorder EXCEPT ![c] = [step |-> "publishing", time |-> Worst]]
      /\ UNCHANGED <<clock, lastUpdatedTimes, lastUpdatedGlobal>>
  BY DEF FindWorst, Record
<1>2. lastUpdatedTimes[c] # 0 /\ MetricsTypeOK /\ clock \in Nat
  BY <1>1, MetricsAssumption DEF WorstInv, MetricsTypeOK
<1>3. Worst \in 0..clock
  BY <1>2, WorstIsOne
<1>4. Times' = Times /\ Worst' = Worst
  BY <1>1 DEF Times, Worst
<1>5. \A d \in Recorders \ {c} : recorder'[d] = recorder[d]
  BY <1>1 DEF WorstInv
<1>6. recorder'[c].step = "publishing" /\ recorder'[c].time = Worst
  BY <1>1 DEF WorstInv
<1>7. MetricsTypeOK'
  BY <1>1, <1>2, <1>3, <1>5, <1>6 DEF MetricsTypeOK
<1>8. GlobalIsWorst'
  BY <1>6 DEF GlobalIsWorst
<1>9. recorder' \in [Recorders -> [step : {"collecting", "succeeded", "stored",
                                           "publishing"}, time : Nat]]
  BY <1>1, <1>2, <1>3 DEF WorstInv
<1> QED
  BY <1>1, <1>2, <1>4, <1>5, <1>6, <1>7, <1>8, <1>9 DEF WorstInv

LEMMA PublishKeepsWorst ==
  ASSUME WorstInv, NEW c \in Recorders, Publish(c) PROVE WorstInv'
<1>1. /\ recorder[c].step = "publishing"
      /\ lastUpdatedGlobal' = recorder[c].time
      /\ recorder' = [recorder EXCEPT ![c] = [step |-> "collecting", time |-> 0]]
      /\ UNCHANGED <<clock, lastUpdatedTimes>>
  BY DEF Publish, Record
<1>2. lastUpdatedTimes[c] # 0 /\ MetricsTypeOK /\ clock \in Nat
  BY <1>1, MetricsAssumption DEF WorstInv, MetricsTypeOK
<1>3. Times # {} /\ Worst \in 0..clock /\ recorder[c].time = Worst
  BY <1>1, <1>2, WorstIsOne DEF WorstInv
<1>4. Times' = Times /\ Worst' = Worst
  BY <1>1 DEF Times, Worst
<1>5. \A d \in Recorders \ {c} : recorder'[d] = recorder[d]
  BY <1>1 DEF WorstInv
<1>6. recorder'[c].step = "collecting" /\ recorder'[c].time = 0
  BY <1>1 DEF WorstInv
<1>7. MetricsTypeOK'
  BY <1>1, <1>2, <1>3, <1>5, <1>6 DEF MetricsTypeOK
<1>8. GlobalIsWorst'
  BY <1>1, <1>3, <1>4 DEF GlobalIsWorst
<1>9. recorder' \in [Recorders -> [step : {"collecting", "succeeded", "stored",
                                           "publishing"}, time : Nat]]
  BY <1>1 DEF WorstInv
<1> QED
  BY <1>1, <1>2, <1>4, <1>5, <1>6, <1>7, <1>8, <1>9 DEF WorstInv

LEMMA WorstInvStep ==
  ASSUME WorstInv, [MetricsNext]_metricsVars PROVE WorstInv'
<1>1. CASE UNCHANGED metricsVars
  <2>1. Times' = Times /\ Worst' = Worst
    BY <1>1 DEF metricsVars, Times, Worst
  <2> QED
    BY <1>1, <2>1 DEF metricsVars, WorstInv, MetricsTypeOK, GlobalIsWorst
<1>2. CASE MetricsNext
  BY <1>2, PassKeepsWorst, SucceedKeepsWorst, StoreKeepsWorst, FindKeepsWorst,
     PublishKeepsWorst DEF MetricsNext
<1> QED
  BY <1>1, <1>2

\* updateGlobalLastUpdated (metrics.go) publishes the worst time of all
\* collectors, however many of them end a collection at the same time.
THEOREM GlobalIsTheWorst == Spec => []GlobalIsWorst
<1>1. Init => WorstInv
  BY WorstInvInit DEF Init
<1>2. WorstInv /\ [Next]_vars => WorstInv'
  BY WorstInvStep, PartsStep
<1>3. WorstInv => GlobalIsWorst
  BY DEF WorstInv
<1> QED
  BY <1>1, <1>2, <1>3, PTL DEF Spec

-----------------------------------------------------------------------------
\* The discovery.  Once stage 2 is over, a data set has its state or is still
\* to be asked for; one that is available by stage 3 was entitled and has not
\* been refused, until its probe says otherwise.
Told(d) == building.state[d] = "available" => d \in entitled /\ d \notin refused

MatrixInv ==
  /\ DiscoveryTypeOK
  /\ stage \in {"identity", "zones", "schema", "fields"} =>
       entitled = {} /\ refused = {}
  /\ stage = "settings" =>
       \A d \in Datasets :
         /\ d \notin todo => building.state[d] \in States /\ Told(d)
         /\ d \in todo => d \notin refused
  /\ stage \in {"probe", "done"} =>
       \A d \in Datasets : building.state[d] \in States /\ Told(d)
  /\ stage = "failed" => ~building.valid
  /\ stage = "idle" /\ building.valid =>
       \A d \in Datasets : building.state[d] \in States

LEMMA MatrixInvInit == DiscoveryInit => MatrixInv
BY DEF DiscoveryInit, MatrixInv, DiscoveryTypeOK, NewMatrix, States

\* The stages up to the schema, and the returns of a run.
LEMMA StagesKeepMatrix ==
  ASSUME MatrixInv,
         \/ Run \/ StartProbing \/ EndRun \/ Replace
         \/ \E answer \in {"error", "accounts"} : Identity(answer)
         \/ \E answer \in {"error", "none", "zones"} : Zones(answer)
         \/ \E answer \in {"error", "garbled", "types"} : Schema(answer)
         \/ \E found \in SUBSET Datasets : Fields(found)
         \/ \E denied \in SUBSET {c \in Collectors : c.probed} : Start(denied)
  PROVE  MatrixInv'
<1> USE DEF MatrixInv, DiscoveryTypeOK, States, Told
<1>1. CASE Run
  BY <1>1 DEF Run, NewMatrix
<1>2. ASSUME NEW answer \in {"error", "accounts"}, Identity(answer)
      PROVE  MatrixInv'
  BY <1>2 DEF Identity
<1>3. ASSUME NEW answer \in {"error", "none", "zones"}, Zones(answer)
      PROVE  MatrixInv'
  BY <1>3 DEF Zones
<1>4. ASSUME NEW answer \in {"error", "garbled", "types"}, Schema(answer)
      PROVE  MatrixInv'
  BY <1>4 DEF Schema
<1>5. ASSUME NEW found \in SUBSET Datasets, Fields(found)
      PROVE  MatrixInv'
  BY <1>5 DEF Fields
<1>6. CASE StartProbing
  BY <1>6 DEF StartProbing
<1>7. CASE EndRun
  BY <1>7 DEF EndRun
<1>8. CASE Replace
  BY <1>8 DEF Replace
<1>9. ASSUME NEW denied \in SUBSET {c \in Collectors : c.probed}, Start(denied)
      PROVE  MatrixInv'
  BY <1>9 DEF Start
<1> QED
  BY <1>1, <1>2, <1>3, <1>4, <1>5, <1>6, <1>7, <1>8, <1>9

\* Stages 3 and 4 ask for one data set at a time, and set the state of it.
LEMMA DatasetKeepsMatrix ==
  ASSUME MatrixInv, NEW d \in Datasets,
         \/ Zoneless(d)
         \/ \E a \in Answers : Settings(d, a)
         \/ \E a \in {"error", "errors in the answer", "count"} : Probe(d, a)
  PROVE  MatrixInv'
<1> USE DEF MatrixInv, DiscoveryTypeOK, States, Told, SetDataset
<1>1. CASE Zoneless(d)
  BY <1>1 DEF Zoneless
<1>2. ASSUME NEW a \in Answers, Settings(d, a)
      PROVE  MatrixInv'
  BY <1>2 DEF Settings
<1>3. ASSUME NEW a \in {"error", "errors in the answer", "count"}, Probe(d, a)
      PROVE  MatrixInv'
  <2>1. /\ stage = "probe" /\ UNCHANGED <<stage, entitled, granted, current, registered>>
        /\ todo' = todo \ {d}
    BY <1>3 DEF Probe
  <2>2. CASE a # "error"
    <3>1. UNCHANGED <<building, refused>>
      BY <1>3, <2>2 DEF Probe, Probed
    <3> QED
      BY <2>1, <3>1
  <2>3. CASE a = "error"
    <3>1. /\ building' = [building EXCEPT !.state[d] = "probe_failed"]
          /\ refused' = refused \union {d}
      BY <1>3, <2>3 DEF Probe, Probed
    <3>2. /\ building'.state[d] = "probe_failed"
          /\ \A e \in Datasets \ {d} : building'.state[e] = building.state[e]
          /\ building'.state \in [Datasets -> States \union {"unknown"}]
          /\ building'.valid = building.valid
      BY <3>1
    <3>3. \A e \in Datasets : building'.state[e] \in States /\ Told(e)'
      BY <2>1, <3>1, <3>2
    <3>4. DiscoveryTypeOK'
      BY <2>1, <3>1
    <3> QED
      BY <2>1, <3>3, <3>4
  <2> QED
    BY <2>2, <2>3
<1> QED
  BY <1>1, <1>2, <1>3

LEMMA MatrixInvStep ==
  ASSUME MatrixInv, [DiscoveryNext]_discoveryVars PROVE MatrixInv'
<1>1. CASE UNCHANGED discoveryVars
  BY <1>1 DEF discoveryVars, MatrixInv, DiscoveryTypeOK, Told
<1>2. CASE DiscoveryNext
  BY <1>2, StagesKeepMatrix, DatasetKeepsMatrix DEF DiscoveryNext
<1> QED
  BY <1>1, <1>2

\* Whichever stage of a discovery fails, its matrix has a state for every data
\* set, and one that is available has been asked for by this run and answered
\* without an error (Discovery.Run).
THEOREM MatrixIsSound == Spec => []DiscoverySound
<1>1. Init => MatrixInv
  BY MatrixInvInit DEF Init
<1>2. MatrixInv /\ [Next]_vars => MatrixInv'
  BY MatrixInvStep, PartsStep
<1>3. MatrixInv => DiscoverySound
  BY DEF MatrixInv, DiscoverySound, DiscoveryComplete, DiscoveryConfirmed, Told
<1> QED
  BY <1>1, <1>2, <1>3, PTL DEF Spec

-----------------------------------------------------------------------------
\* The OpenBao client.  A request loses ten seconds at most, so a lease that
\* was answered late is still as long as was said but for these; what the loop
\* leaves of a lease of 105 s when it wakes covers a renewal and a login that
\* are never answered.
Asks == [state : {"none", "open", "granted"}, age : 0..Timeout,
         lease : Leases \union {0}, left : Nat]

LeaseTypes ==
  /\ agent \in {"first login", "sleeping", "backing off", "login", "renewal",
                "new login", "stopped"}
  /\ wait \in Nat /\ backoff \in 1..MaxBackoff /\ ttl \in Leases \union {0}
  /\ ask \in Asks /\ left \in Nat
  /\ held \in BOOLEAN /\ authenticated \in BOOLEAN /\ reachable \in BOOLEAN
  /\ closed \in BOOLEAN /\ revoked \in BOOLEAN

\* Which steps of the loop have a request, and which a token.
LeaseSteps ==
  /\ ask.state = "granted" => ask.lease \in Leases
  /\ agent \in {"sleeping", "backing off", "stopped"} <=> ask.state = "none"
  /\ agent \in {"backing off", "first login", "login"} => held = FALSE
  /\ closed = FALSE => authenticated = held

\* How much is left of a lease.
LeaseTimes ==
  /\ ask.state = "granted" /\ agent # "renewal" => ask.left + ask.age >= ask.lease
  /\ ask.state = "granted" /\ agent = "renewal" /\ revoked = FALSE =>
       left + ask.age >= ask.lease
  /\ held = TRUE /\ revoked = FALSE /\ ttl >= 21 =>
       /\ agent = "sleeping" => left >= wait + 5
       /\ agent = "stopped" => left >= 5
       /\ agent = "renewal" => left + ask.age >= 5
       /\ agent = "new login" => left + ask.age >= 3

LeaseInv == LeaseTypes /\ LeaseSteps /\ LeaseTimes

\* How long the loop sleeps with a lease.
LEMMA SleepTime ==
  ASSUME NEW lease \in Nat
  PROVE  /\ Greater(lease - Margin(lease), MinSleep) \in Nat
         /\ lease >= 21 => Greater(lease - Margin(lease), MinSleep) <= lease - 7
<1>1. lease \div 3 \in Nat /\ (lease >= 21 => lease \div 3 >= 7 /\ lease \div 3 < lease)
  OBVIOUS
<1>2. Margin(lease) \in Nat /\ (lease >= 21 => Margin(lease) >= 7)
  BY <1>1 DEF Margin, Greater, MinMargin
<1> QED
  BY <1>2 DEF Greater, MinSleep

\* What a request is made of.
LEMMA AskFields ==
  ASSUME LeaseInv
  PROVE  /\ ask \in Asks /\ ask.state \in {"none", "open", "granted"}
         /\ ask.age \in Nat /\ ask.age <= 2 /\ ask.lease \in Nat /\ ask.left \in Nat
         /\ left \in Nat /\ wait \in Nat /\ ttl \in Nat
<1>1. ask \in Asks /\ left \in Nat /\ wait \in Nat /\ ttl \in Leases \union {0}
  BY DEF LeaseInv, LeaseTypes
<1>2. /\ ask.state \in {"none", "open", "granted"} /\ ask.age \in 0..2
      /\ ask.lease \in Leases \union {0} /\ ask.left \in Nat
  BY <1>1 DEF Asks, Timeout
<1>3. Leases \union {0} \subseteq Nat
  BY LeaseAssumption
<1>4. ttl \in Nat /\ ask.lease \in Nat
  BY <1>1, <1>2, <1>3
<1> QED
  BY <1>1, <1>2, <1>4

LEMMA FreshAsks ==
  /\ NoAsk \in Asks /\ NoAsk.state = "none" /\ NoAsk.age = 0
  /\ NewAsk \in Asks /\ NewAsk.state = "open" /\ NewAsk.age = 0
BY DEF NoAsk, NewAsk, Asks, Timeout

\* What a late answer leaves is enough for the sleep and five ticks more.
LEMMA LateAnswer ==
  ASSUME NEW lease \in Nat, NEW rest \in Nat, NEW age \in Nat, NEW sleep \in Nat,
         age <= 2, rest + age >= lease, sleep <= lease - 7
  PROVE  rest >= sleep + 5
OBVIOUS

LEMMA LeaseInvInit == LeaseInit => LeaseInv
<1> SUFFICES ASSUME LeaseInit PROVE LeaseInv
  OBVIOUS
<1>1. LeaseTypes
  <2>1. MaxBackoff \in Nat /\ MaxBackoff >= 1
    BY LeaseAssumption
  <2>2. ask \in Asks
    BY FreshAsks DEF LeaseInit
  <2>3. backoff = 1 /\ wait = 0 /\ ttl = 0 /\ left = 0
    BY DEF LeaseInit, MinSleep
  <2>4. /\ agent = "first login" /\ held = FALSE /\ authenticated = FALSE
        /\ reachable \in BOOLEAN /\ closed = FALSE /\ revoked = FALSE
    BY DEF LeaseInit
  <2>5. backoff \in 1..MaxBackoff
    BY <2>1, <2>3
  <2>6. wait \in Nat /\ left \in Nat
    BY <2>3
  <2>7. ttl \in Leases \union {0}
    BY <2>3
  <2> QED
    BY <2>2, <2>4, <2>5, <2>6, <2>7 DEF LeaseTypes
<1>2. LeaseSteps
  BY FreshAsks DEF LeaseInit, LeaseSteps
<1>3. LeaseTimes
  BY FreshAsks DEF LeaseInit, LeaseTimes
<1> QED
  BY <1>1, <1>2, <1>3 DEF LeaseInv

LEMMA WakeKeepsLease == ASSUME LeaseInv, Wake PROVE LeaseInv'
<1>1. /\ LeaseTypes /\ LeaseSteps /\ LeaseTimes
      /\ agent \in {"sleeping", "backing off"} /\ wait = 0 /\ ask' = NewAsk
      /\ agent' = CASE agent = "backing off" -> "login"
                    [] agent = "sleeping" /\ held -> "renewal"
                    [] OTHER -> "new login"
      /\ UNCHANGED <<wait, backoff, held, ttl, left, authenticated, reachable,
                     closed, revoked>>
  BY DEF Wake, LeaseInv
<1>2. ask' \in Asks /\ ask'.state = "open" /\ ask'.age = 0
  BY <1>1, FreshAsks
<1>3. \/ agent = "backing off" /\ agent' = "login" /\ held = FALSE
      \/ agent = "sleeping" /\ agent' = "renewal" /\ held = TRUE
      \/ agent = "sleeping" /\ agent' = "new login" /\ held = FALSE
  BY <1>1 DEF LeaseTypes, LeaseSteps
<1>4. LeaseTypes'
  BY <1>1, <1>2, <1>3 DEF LeaseTypes
<1>5. LeaseSteps'
  BY <1>1, <1>2, <1>3 DEF LeaseSteps
<1>6. LeaseTimes'
  <2>1. CASE held = TRUE
    <3>1. agent = "sleeping" /\ agent' = "renewal" /\ left \in Nat
      BY <1>3, <2>1, AskFields
    <3>2. revoked = FALSE /\ ttl >= 21 => left >= 5
      BY <1>1, <2>1, <3>1 DEF LeaseTimes
    <3> QED
      BY <1>1, <1>2, <3>1, <3>2 DEF LeaseTimes
  <2>2. CASE held = FALSE
    BY <1>1, <1>2, <2>2 DEF LeaseTimes
  <2> QED
    BY <1>3, <2>1, <2>2
<1> QED
  BY <1>4, <1>5, <1>6 DEF LeaseInv

LEMMA GrantKeepsLease ==
  ASSUME LeaseInv, NEW lease \in Leases, Grant(lease) PROVE LeaseInv'
<1>1. /\ LeaseTypes /\ LeaseSteps /\ LeaseTimes /\ lease \in Nat
      /\ UNCHANGED <<agent, wait, backoff, held, ttl, authenticated, reachable,
                     closed, revoked>>
  BY LeaseAssumption DEF Grant, LeaseInv
<1>2. CASE GrantLogin(lease)
  <2>1. /\ ask.state = "open" /\ agent # "renewal" /\ left' = left
        /\ ask' = [ask EXCEPT !.state = "granted", !.lease = lease, !.left = lease]
    BY <1>2 DEF GrantLogin
  <2>2. /\ ask' \in Asks /\ ask'.state = "granted" /\ ask'.age = ask.age
        /\ ask'.lease = lease /\ ask'.left = lease
    BY <1>1, <2>1, AskFields DEF Asks
  <2>3. LeaseTypes'
    BY <1>1, <2>1, <2>2 DEF LeaseTypes
  <2>4. LeaseSteps'
    BY <1>1, <2>1, <2>2 DEF LeaseSteps
  <2>5. ask'.left + ask'.age >= ask'.lease
    BY <1>1, <2>2, AskFields
  <2>6. LeaseTimes'
    BY <1>1, <2>1, <2>2, <2>5 DEF LeaseTimes
  <2> QED
    BY <2>3, <2>4, <2>6 DEF LeaseInv
<1>3. CASE GrantRenewal(lease)
  <2>1. /\ ask.state = "open" /\ agent = "renewal" /\ left' = lease
        /\ left > 0 /\ lease >= left
        /\ ask' = [ask EXCEPT !.state = "granted", !.lease = lease]
    BY <1>3 DEF GrantRenewal
  <2>2. /\ ask' \in Asks /\ ask'.state = "granted" /\ ask'.age = ask.age
        /\ ask'.lease = lease
    BY <1>1, <2>1, AskFields DEF Asks
  <2>3. LeaseTypes'
    BY <1>1, <2>1, <2>2 DEF LeaseTypes
  <2>4. LeaseSteps'
    BY <1>1, <2>1, <2>2 DEF LeaseSteps
  <2>5. /\ left' + ask'.age >= ask'.lease
        /\ left + ask.age >= 5 => left' + ask'.age >= 5
    <3>1. left \in Nat /\ ask.age \in Nat
      BY AskFields
    <3> QED
      BY <1>1, <2>1, <2>2, <3>1
  <2>6. LeaseTimes'
    BY <1>1, <2>1, <2>2, <2>5 DEF LeaseTimes
  <2> QED
    BY <2>3, <2>4, <2>6 DEF LeaseInv
<1> QED
  BY <1>2, <1>3 DEF Grant

LEMMA LoggedInKeepsLease == ASSUME LeaseInv, LoggedIn PROVE LeaseInv'
<1>1. /\ LeaseTypes /\ LeaseSteps /\ LeaseTimes
      /\ ask.state = "granted" /\ agent # "renewal"
      /\ agent' = "sleeping" /\ ask' = NoAsk
      /\ wait' = Greater(ask.lease - Margin(ask.lease), MinSleep)
      /\ held' = TRUE /\ authenticated' = TRUE /\ revoked' = FALSE
      /\ ttl' = ask.lease /\ left' = ask.left /\ UNCHANGED <<reachable, closed>>
  BY DEF LoggedIn, SleepWith, LeaseInv
<1>2. /\ ask.lease \in Leases /\ ask.lease \in Nat /\ ask.left \in Nat
      /\ ask.age \in Nat /\ ask.age <= 2 /\ ask.left + ask.age >= ask.lease
  BY <1>1, AskFields DEF LeaseSteps, LeaseTimes
<1>3. wait' \in Nat /\ (ask.lease >= 21 => wait' <= ask.lease - 7)
  BY <1>1, <1>2, SleepTime
<1>4. backoff' \in 1..MaxBackoff
  <2>1. backoff \in 1..MaxBackoff
    BY <1>1 DEF LeaseTypes
  <2>2. backoff' = backoff \/ backoff' = 1
    BY DEF LoggedIn, MinSleep
  <2> QED
    BY <2>1, <2>2, LeaseAssumption
<1>5. ask' \in Asks /\ ask'.state = "none"
  BY <1>1, FreshAsks
<1>6. LeaseTypes'
  BY <1>1, <1>2, <1>3, <1>4, <1>5 DEF LeaseTypes
<1>7. LeaseSteps'
  BY <1>1, <1>5 DEF LeaseSteps
<1>8. ttl' >= 21 => left' >= wait' + 5
  BY <1>1, <1>2, <1>3
<1>9. LeaseTimes'
  BY <1>1, <1>5, <1>8 DEF LeaseTimes
<1> QED
  BY <1>6, <1>7, <1>9 DEF LeaseInv

LEMMA RenewedKeepsLease == ASSUME LeaseInv, Renewed PROVE LeaseInv'
<1>1. /\ LeaseTypes /\ LeaseSteps /\ LeaseTimes
      /\ ask.state = "granted" /\ agent = "renewal" /\ ask' = NoAsk
      /\ ttl' = ask.lease
      /\ UNCHANGED <<held, left, authenticated, backoff, reachable, closed, revoked>>
  BY DEF Renewed, SleepWith, SleepWithout, LeaseInv
<1>2. /\ ask.lease \in Leases /\ ask.lease \in Nat /\ left \in Nat
      /\ ask.age \in Nat /\ ask.age <= 2
      /\ revoked = FALSE => left + ask.age >= ask.lease
  BY <1>1, AskFields DEF LeaseSteps, LeaseTimes
<1>3. ask' \in Asks /\ ask'.state = "none"
  BY <1>1, FreshAsks
<1>4. CASE held = TRUE
  <2>1. agent' = "sleeping" /\ wait' = Greater(ask.lease - Margin(ask.lease), MinSleep)
    BY <1>4 DEF Renewed, SleepWith
  <2>2. wait' \in Nat /\ (ask.lease >= 21 => wait' <= ask.lease - 7)
    BY <1>2, <2>1, SleepTime
  <2>3. LeaseTypes'
    BY <1>1, <1>2, <1>3, <2>1, <2>2 DEF LeaseTypes
  <2>4. LeaseSteps'
    BY <1>1, <1>3, <2>1 DEF LeaseSteps
  <2>5. revoked = FALSE /\ ttl' >= 21 => left' >= wait' + 5
    <3>1. ttl' = ask.lease /\ left' = left
      BY <1>1
    <3>2. ask.lease >= 21 /\ left + ask.age >= ask.lease => left >= wait' + 5
      BY <1>2, <2>2, LateAnswer
    <3> QED
      BY <1>2, <3>1, <3>2
  <2>6. LeaseTimes'
    BY <1>1, <1>3, <2>1, <2>5 DEF LeaseTimes
  <2> QED
    BY <2>3, <2>4, <2>6 DEF LeaseInv
<1>5. CASE held = FALSE
  <2>1. agent' = "backing off" /\ wait' = backoff
    BY <1>5 DEF Renewed, SleepWithout
  <2>2. backoff \in 1..MaxBackoff /\ backoff \in Nat
    BY <1>1, LeaseAssumption DEF LeaseTypes
  <2>3. LeaseTypes'
    BY <1>1, <1>2, <1>3, <2>1, <2>2 DEF LeaseTypes
  <2>4. LeaseSteps'
    BY <1>1, <1>3, <1>5, <2>1 DEF LeaseSteps
  <2>5. LeaseTimes'
    BY <1>1, <1>3, <1>5 DEF LeaseTimes
  <2> QED
    BY <2>3, <2>4, <2>5 DEF LeaseInv
<1> QED
  BY <1>1, <1>4, <1>5 DEF LeaseTypes

\* A login that fails leaves the client without a token, whoever asked for it.
LEMMA LoginFailureKeepsLease ==
  ASSUME LeaseInv, FirstLoginFails \/ LoginFails \/ NewLoginFails
  PROVE  LeaseInv'
<1>1. /\ LeaseTypes /\ LeaseSteps /\ LeaseTimes
      /\ agent' = "backing off" /\ ask' = NoAsk /\ wait' = backoff'
      /\ UNCHANGED <<ttl, left, reachable, closed, revoked>>
  BY DEF FirstLoginFails, LoginFails, NewLoginFails, SleepWithout, LeaseInv
<1>2. backoff \in 1..MaxBackoff /\ MaxBackoff \in Nat /\ 1 <= MaxBackoff
  <2>1. backoff \in 1..MaxBackoff
    BY <1>1 DEF LeaseTypes
  <2>2. MaxBackoff \in Nat /\ 1 <= MaxBackoff
    BY LeaseAssumption
  <2> QED
    BY <2>1, <2>2
<1>3. backoff' \in 1..MaxBackoff /\ backoff' \in Nat
  <2>1. \/ backoff' = backoff \/ backoff' = 1
        \/ backoff' = IF 2 * backoff > MaxBackoff THEN MaxBackoff ELSE 2 * backoff
    BY DEF FirstLoginFails, LoginFails, NewLoginFails, MinSleep
  <2> QED
    BY <1>2, <2>1
<1>4. /\ held' = FALSE /\ authenticated' \in BOOLEAN
      /\ closed = FALSE => authenticated' = FALSE
  BY <1>1 DEF FirstLoginFails, LoginFails, NewLoginFails, LeaseSteps, LeaseTypes
<1>5. ask' \in Asks /\ ask'.state = "none"
  BY <1>1, FreshAsks
<1>6. LeaseTypes'
  BY <1>1, <1>3, <1>4, <1>5 DEF LeaseTypes
<1>7. LeaseSteps'
  BY <1>1, <1>4, <1>5 DEF LeaseSteps
<1>8. LeaseTimes'
  BY <1>1, <1>4, <1>5 DEF LeaseTimes
<1> QED
  BY <1>6, <1>7, <1>8 DEF LeaseInv

LEMMA RenewalFailureKeepsLease == ASSUME LeaseInv, RenewalFails PROVE LeaseInv'
<1>1. /\ LeaseTypes /\ LeaseSteps /\ LeaseTimes
      /\ agent = "renewal" /\ agent' = "new login" /\ ask' = NewAsk
      /\ UNCHANGED <<wait, backoff, held, ttl, left, authenticated, reachable,
                     closed, revoked>>
  BY DEF RenewalFails, LoginInstead, LeaseInv
<1>2. ask' \in Asks /\ ask'.state = "open" /\ ask'.age = 0
  BY <1>1, FreshAsks
<1>3. LeaseTypes'
  BY <1>1, <1>2 DEF LeaseTypes
<1>4. LeaseSteps'
  BY <1>1, <1>2 DEF LeaseSteps
<1>5. LeaseTimes'
  <2>1. left \in Nat /\ ask.age \in Nat /\ ask.age <= 2
    BY AskFields
  <2>2. left + ask.age >= 5 => left + 0 >= 3
    BY <2>1
  <2> QED
    BY <1>1, <1>2, <2>2 DEF LeaseTimes
<1> QED
  BY <1>3, <1>4, <1>5 DEF LeaseInv

LEMMA CloseKeepsLease == ASSUME LeaseInv, Close \/ StopLoop PROVE LeaseInv'
<1>1. LeaseTypes /\ LeaseSteps /\ LeaseTimes
  BY DEF LeaseInv
<1>2. CASE Close
  BY <1>1, <1>2 DEF Close, LeaseInv, LeaseTypes, LeaseSteps, LeaseTimes
<1>3. CASE StopLoop
  <2>1. LeaseTypes' /\ LeaseSteps'
    BY <1>1, <1>3 DEF StopLoop, LeaseTypes, LeaseSteps
  <2>2. LeaseTimes'
    <3>1. /\ closed /\ agent \in {"sleeping", "backing off"} /\ agent' = "stopped"
          /\ UNCHANGED <<wait, backoff, ask, held, ttl, left, authenticated,
                         reachable, closed, revoked>>
      BY <1>3 DEF StopLoop
    <3>2. ask'.state = "none"
      BY <1>1, <3>1 DEF LeaseSteps
    <3>3. left \in Nat /\ wait \in Nat
      BY AskFields
    <3>4. left >= wait + 5 => left >= 5
      BY <3>3
    <3>5. held = TRUE => agent = "sleeping"
      BY <1>1, <3>1 DEF LeaseSteps
    <3> QED
      BY <1>1, <3>1, <3>2, <3>4, <3>5 DEF LeaseTimes
  <2> QED
    BY <2>1, <2>2 DEF LeaseInv
<1> QED
  BY <1>2, <1>3

LEMMA LessTime ==
  ASSUME NEW n \in Nat
  PROVE  Less(n) \in Nat /\ Less(n) >= n - 1 /\ (n > 0 => Less(n) = n - 1)
BY DEF Less

LEMMA TickKeepsLease == ASSUME LeaseInv, Tick PROVE LeaseInv'
<1>1. /\ LeaseTypes /\ LeaseSteps /\ LeaseTimes /\ agent # "stopped"
      /\ agent \in {"sleeping", "backing off"} => wait > 0
      /\ ask.state # "none" => ask.age < 2
      /\ wait' = Less(wait) /\ left' = Less(left)
      /\ ask' = IF ask.state = "none" THEN ask
                ELSE [ask EXCEPT !.age = @ + 1, !.left = Less(@)]
      /\ UNCHANGED <<agent, backoff, held, ttl, authenticated, reachable, closed,
                     revoked>>
  BY DEF Tick, Timeout, LeaseInv
<1>2. \A n \in Nat : Less(n) \in Nat /\ Less(n) >= n - 1
  BY LessTime
<1>3. /\ wait' \in Nat /\ left' \in Nat /\ left' >= left - 1
      /\ wait > 0 => wait' = wait - 1
  <2>1. wait \in Nat /\ left \in Nat
    BY AskFields
  <2> QED
    BY <1>1, <2>1, LessTime
<1>4. CASE ask.state = "none"
  <2>1. ask' = ask
    BY <1>1, <1>4
  <2>2. LeaseTypes'
    BY <1>1, <1>3, <2>1 DEF LeaseTypes
  <2>3. LeaseSteps'
    BY <1>1, <2>1 DEF LeaseSteps
  <2>4. LeaseTimes'
    <3>1. agent \in {"sleeping", "backing off"}
      BY <1>1, <1>4 DEF LeaseSteps
    <3>2. /\ held = TRUE /\ revoked = FALSE /\ ttl >= 21 /\ agent = "sleeping" =>
               left >= wait + 5
      BY <1>1 DEF LeaseTimes
    <3>3. left >= wait + 5 => left' >= wait' + 5
      <4>1. wait \in Nat /\ left \in Nat /\ wait > 0
        BY <1>1, <3>1, AskFields
      <4> QED
        BY <1>3, <4>1
    <3> QED
      BY <1>1, <1>4, <2>1, <3>1, <3>2, <3>3 DEF LeaseTimes
  <2> QED
    BY <2>2, <2>3, <2>4 DEF LeaseInv
<1>5. CASE ask.state # "none"
  <2>1. ask' = [ask EXCEPT !.age = @ + 1, !.left = Less(@)]
    BY <1>1, <1>5
  <2>2. /\ ask'.state = ask.state /\ ask'.lease = ask.lease
        /\ ask'.age = ask.age + 1 /\ ask'.left = Less(ask.left)
    BY <2>1, AskFields DEF Asks
  <2>3. /\ ask.age + 1 \in 0..2 /\ Less(ask.left) \in Nat
        /\ Less(ask.left) >= ask.left - 1
    <3>1. ask.age \in Nat /\ ask.age < 2 /\ ask.left \in Nat
      BY <1>1, <1>5, AskFields
    <3> QED
      BY <1>2, <3>1
  <2>4. ask' \in Asks
    BY <2>1, <2>3, AskFields DEF Asks, Timeout
  <2>5. LeaseTypes'
    BY <1>1, <1>3, <2>4 DEF LeaseTypes
  <2>6. LeaseSteps'
    BY <1>1, <2>2 DEF LeaseSteps
  <2>7. /\ left' + ask'.age >= left + ask.age
        /\ ask'.left + ask'.age >= ask.left + ask.age
        /\ left' + ask'.age \in Nat /\ ask'.left + ask'.age \in Nat
        /\ left + ask.age \in Nat /\ ask.left + ask.age \in Nat
    BY <1>3, <2>2, <2>3, AskFields
  <2>8. agent \notin {"sleeping", "stopped"}
    BY <1>1, <1>5 DEF LeaseSteps
  <2>9. LeaseTimes'
    <3>1. ask.lease \in Nat
      BY AskFields
    <3>2. /\ ask.left + ask.age >= ask.lease => ask'.left + ask'.age >= ask.lease
          /\ left + ask.age >= ask.lease => left' + ask'.age >= ask.lease
          /\ left + ask.age >= 5 => left' + ask'.age >= 5
          /\ left + ask.age >= 3 => left' + ask'.age >= 3
      BY <2>7, <3>1
    <3> QED
      BY <1>1, <2>2, <2>8, <3>2 DEF LeaseTimes
  <2> QED
    BY <2>5, <2>6, <2>9 DEF LeaseInv
<1> QED
  BY <1>4, <1>5

LEMMA WorldKeepsLease == ASSUME LeaseInv, Switch \/ Revoke PROVE LeaseInv'
<1>1. CASE Switch
  BY <1>1 DEF Switch, LeaseInv, LeaseTypes, LeaseSteps, LeaseTimes
<1>2. CASE Revoke
  BY <1>2 DEF Revoke, LeaseInv, LeaseTypes, LeaseSteps, LeaseTimes
<1> QED
  BY <1>1, <1>2

LEMMA LeaseInvStep ==
  ASSUME LeaseInv, [LeaseNext]_leaseVars PROVE LeaseInv'
<1>1. CASE UNCHANGED leaseVars
  BY <1>1 DEF leaseVars, LeaseInv, LeaseTypes, LeaseSteps, LeaseTimes
<1>2. CASE LeaseNext
  BY <1>2, WakeKeepsLease, GrantKeepsLease, LoggedInKeepsLease,
     RenewedKeepsLease, LoginFailureKeepsLease, RenewalFailureKeepsLease,
     CloseKeepsLease, TickKeepsLease, WorldKeepsLease DEF LeaseNext, AgentStep
<1> QED
  BY <1>1, <1>2

\* For any leases OpenBao grants, the client of openbao.go does not hold a
\* token that has run out unless its lease was shorter than 105 s or OpenBao
\* took it back; and its gauge says whether it has one.
THEOREM LeaseIsSound == Spec => []LeaseSound
<1>1. Init => LeaseInv
  BY LeaseInvInit DEF Init
<1>2. LeaseInv /\ [Next]_vars => LeaseInv'
  BY LeaseInvStep, PartsStep
<1>3. LeaseInv => LeaseSound
  <2> SUFFICES ASSUME LeaseInv PROVE LeaseSound
    OBVIOUS
  <2>1. LeaseTypes /\ LeaseSteps /\ LeaseTimes
    BY DEF LeaseInv
  <2>2. left \in Nat /\ wait \in Nat /\ ask.age \in Nat /\ ask.age <= 2
    BY AskFields
  <2>3. /\ left >= wait + 5 => left > 0
        /\ left >= 5 \/ left + ask.age >= 5 \/ left + ask.age >= 3 => left > 0
    BY <2>2
  <2>4. LeaseHeldIsGood
    BY <2>1, <2>3 DEF LeaseTypes, LeaseSteps, LeaseTimes, LeaseHeldIsGood
  <2>5. LeaseGaugeTells
    BY <2>1 DEF LeaseTypes, LeaseSteps, LeaseGaugeTells
  <2> QED
    BY <2>4, <2>5 DEF LeaseSound
<1> QED
  BY <1>1, <1>2, <1>3, PTL DEF Spec

\* Whatever the loops, answers and leases do, every variable of what surrounds
\* the scheduler keeps its type.
THEOREM ExporterTypesKept == Spec => []TypeOK
<1> DEFINE Inv == ShutdownInv /\ WorstInv /\ MatrixInv /\ LeaseInv
<1>1. Init => Inv
  BY ShutdownInvInit, WorstInvInit, MatrixInvInit, LeaseInvInit DEF Init
<1>2. Inv /\ [Next]_vars => Inv'
  BY ShutdownInvStep, WorstInvStep, MatrixInvStep, LeaseInvStep, PartsStep
<1>3. Inv => TypeOK
  <2> SUFFICES ASSUME Inv PROVE TypeOK
    OBVIOUS
  <2>1. LeaseTypes /\ ask \in Asks
    BY DEF LeaseInv, LeaseTypes
  <2>2. ask.state \in {"none", "open", "granted"} /\ ask.age \in 0..Timeout
    BY <2>1 DEF Asks
  <2>3. {held, authenticated, reachable, closed, revoked} \subseteq BOOLEAN
    BY <2>1, Zenon DEF LeaseTypes
  <2>4. LeaseTypeOK
    BY <2>1, <2>2, <2>3 DEF LeaseTypes, LeaseTypeOK
  <2> QED
    BY <2>4 DEF ShutdownInv, WorstInv, MatrixInv, TypeOK
<1> QED
  BY <1>1, <1>2, <1>3, PTL DEF Spec
=============================================================================
