--------------------- MODULE CloudflareSchedulerProofs ---------------------
(***************************************************************************)
(* A scheduler that is called by one goroutine, which never starts a       *)
(* collector twice, keeps what its comments promise, for any number of     *)
(* collectors and loops.  Model checking shows that neither assumption can *)
(* be dropped.                                                             *)
(***************************************************************************)
EXTENDS CloudflareScheduler, TLAPS

\* Loops that are not started yet have not been used.
UnusedLoops == \A l \in Loops : l > started => loop[l] = "none"

\* What caller c holds inside StartCollector.
Holds(c) ==
  /\ call[c] = "found" =>
       /\ arg[c].name \in registered /\ arg[c].loop \in Loops
       /\ loop[arg[c].loop] = "none" /\ arg[c].loop <= started
       /\ cancel[arg[c].name] = 0
  /\ call[c] = "recorded" =>
       /\ arg[c].name \in registered /\ arg[c].loop \in Loops
       /\ loop[arg[c].loop] = "none" /\ arg[c].loop <= started
       /\ cancel[arg[c].name] = arg[c].loop

LifeInv(c) ==
  /\ TypeOK /\ UnusedLoops /\ Holds(c)
  /\ DeregisteredIsStopped /\ AliveCanBeCancelled /\ StopReachesAll

\* The numbers of loops, and the argument of an idle caller.
LEMMA LoopNumbers ==
  /\ MaxLoops \in Nat /\ 0 \in 0..MaxLoops
  /\ \A l \in Loops : l \in 0..MaxLoops /\ l # 0
  /\ \A l \in 0..MaxLoops : l # 0 => l \in Loops
BY SchedulerAssumption DEF Loops

LEMMA Arguments ==
  /\ None \in [name : Names \union {"none"}, loop : 0..MaxLoops]
  /\ \A n \in Names, l \in 0..MaxLoops :
       [name |-> n, loop |-> l] \in [name : Names \union {"none"}, loop : 0..MaxLoops]
BY LoopNumbers DEF None

LEMMA LifeInit ==
  ASSUME NEW c, Callers = {c}, Init
  PROVE  LifeInv(c)
<1>1. TypeOK
  BY LoopNumbers, Arguments DEF Init, TypeOK
<1>2. Alive = {}
  BY DEF Init, Alive
<1> QED
  BY <1>1, <1>2 DEF Init, LifeInv, UnusedLoops, Holds, DeregisteredIsStopped,
                    AliveCanBeCancelled, StopReachesAll

LEMMA LifeStep ==
  ASSUME NEW c, Callers = {c}, ~Restarts, LifeInv(c), [Next]_vars
  PROVE  LifeInv(c)'
<1> USE DEF LifeInv
<1>1. ASSUME NEW n \in Names, Register(c, n) PROVE LifeInv(c)'
  BY <1>1 DEF Register, Idle, TypeOK, UnusedLoops, Holds, DeregisteredIsStopped,
              AliveCanBeCancelled, StopReachesAll, Alive
<1>2. ASSUME NEW n \in Names, Deregister(c, n) PROVE LifeInv(c)'
  <2>1. TypeOK'
    <3>1. cancel[n] \in 0..MaxLoops /\ {cancel[n]} \ {0} \subseteq Loops
      BY LoopNumbers DEF TypeOK
    <3>2. cancelled' \subseteq Loops
      BY <1>2, <3>1 DEF Deregister, TypeOK
    <3>3. cancel' \in [Names -> 0..MaxLoops]
      BY <1>2, LoopNumbers DEF Deregister, TypeOK
    <3> QED
      BY <1>2, <3>2, <3>3 DEF Deregister, TypeOK
  <2>2. Alive' = Alive
    BY <1>2 DEF Deregister, Alive
  <2>3. ASSUME NEW l \in Alive'
        PROVE  \/ l \in cancelled'
               \/ name'[l] \in registered' /\ cancel'[name'[l]] = l
    <3>1. CASE name[l] = n
      BY <1>2, <2>2, <2>3, <3>1
      DEF Deregister, DeregisteredIsStopped, AliveCanBeCancelled, Alive, Loops
    <3>2. CASE name[l] # n
      BY <1>2, <2>2, <2>3, <3>2
      DEF Deregister, DeregisteredIsStopped, AliveCanBeCancelled, TypeOK
    <3> QED
      BY <3>1, <3>2
  <2> QED
    BY <1>2, <2>1, <2>2, <2>3
    DEF Deregister, Idle, UnusedLoops, Holds, DeregisteredIsStopped,
        AliveCanBeCancelled, StopReachesAll
<1>3. ASSUME NEW n \in Names, FindCollector(c, n) PROVE LifeInv(c)'
  <2>1. started + 1 \in Loops /\ loop[started + 1] = "none"
    BY <1>3, SchedulerAssumption DEF FindCollector, TypeOK, UnusedLoops, Loops
  <2>2. TypeOK'
    <3>1. started' \in 0..MaxLoops /\ started + 1 \in 0..MaxLoops
      BY <1>3, <2>1, LoopNumbers DEF FindCollector
    <3>2. arg' \in [Callers -> [name : Names \union {"none"}, loop : 0..MaxLoops]]
      BY <1>3, <3>1, Arguments DEF FindCollector, TypeOK
    <3> QED
      BY <1>3, <3>1, <3>2 DEF FindCollector, TypeOK
  <2>3. /\ call'[c] = "found" /\ arg'[c].name = n /\ arg'[c].loop = started + 1
        /\ cancel[n] = 0 /\ n \in registered
    BY <1>3 DEF FindCollector, TypeOK
  <2>4. Holds(c)'
    BY <1>3, <2>1, <2>3 DEF FindCollector, Holds, TypeOK
  <2> QED
    BY <1>3, <2>2, <2>3, <2>4
    DEF FindCollector, TypeOK, UnusedLoops, DeregisteredIsStopped,
        AliveCanBeCancelled, StopReachesAll, Alive, Loops
<1>4. CASE Start(c)
  <2> DEFINE New == started + 1 .. started + Cardinality(registered)
  <2>1. PICK f \in [New -> registered] :
          /\ \A n \in registered : \E l \in New : f[l] = n
          /\ \A l, m \in New : f[l] = f[m] => l = m
          /\ name' = [l \in Loops |-> IF l \in New THEN f[l] ELSE name[l]]
          /\ cancel' = [n \in Names |->
               IF n \in registered THEN CHOOSE l \in New : f[l] = n ELSE cancel[n]]
    BY <1>4 DEF Start
  <2>2. /\ New \subseteq Loops /\ call[c] = "idle"
        /\ \A n \in registered : cancel[n] = 0
        /\ loop' = [l \in Loops |-> IF l \in New THEN "collecting" ELSE loop[l]]
        /\ started' = started + Cardinality(registered)
        /\ UNCHANGED <<registered, cancelled, call, arg>>
    BY <1>4 DEF Start, Idle
  <2>3. \A l \in New : l > started /\ l <= started' /\ l \in Loops
    BY <2>2 DEF TypeOK, Loops
  <2>4. registered \subseteq Names /\ \A n \in registered : n \in Names
    BY DEF TypeOK
  <2>5. \A l \in New : cancel'[f[l]] = l
    <3> SUFFICES ASSUME NEW l \in New PROVE cancel'[f[l]] = l
      OBVIOUS
    <3>1. f[l] \in registered /\ f[l] \in Names
      BY <2>4
    <3>2. cancel'[f[l]] = CHOOSE m \in New : f[m] = f[l]
      BY <2>1, <3>1
    <3>3. \A m \in New : f[m] = f[l] => m = l
      BY <2>1
    <3> HIDE DEF New
    <3> QED
      BY <3>2, <3>3
  <2>6. \A n \in registered : cancel'[n] \in 0..MaxLoops
    <3> SUFFICES ASSUME NEW n \in registered PROVE cancel'[n] \in 0..MaxLoops
      OBVIOUS
    <3>1. PICK l \in New : f[l] = n
      BY <2>1
    <3>2. cancel'[n] = l
      BY <2>5, <3>1
    <3> QED
      BY <3>2, <2>3 DEF Loops
  <2>7. cancel' \in [Names -> 0..MaxLoops]
    <3> HIDE DEF New
    <3> QED
      BY <2>1, <2>6 DEF TypeOK
  <2>8. started' \in 0..MaxLoops
    <3>1. CASE New = {}
      <4>1. PICK n \in registered : TRUE
        BY <1>4 DEF Start
      <4>2. \E l \in New : f[l] = n
        BY <2>1
      <4> QED
        BY <3>1, <4>2
    <3>2. CASE New # {}
      <4>1. PICK l \in New : TRUE
        BY <3>2
      <4>2. started' \in Int
        BY <4>1, <2>2, <1>4 DEF Start, TypeOK
      <4> QED
        BY <4>1, <4>2, <2>2, SchedulerAssumption DEF TypeOK, Loops
    <3> QED
      BY <3>1, <3>2
  <2>9. name' \in [Loops -> Names \union {"none"}]
    <3> HIDE DEF New
    <3> QED
      BY <2>1, <2>2, <2>4 DEF TypeOK
  <2>10. TypeOK'
    <3>1. loop' \in [Loops -> {"none", "idle", "collecting", "done"}]
      <4> HIDE DEF New
      <4> QED
        BY <2>2 DEF TypeOK
    <3> HIDE DEF New
    <3> QED
      <4>1. UNCHANGED <<registered, cancelled, call, arg>>
        BY <1>4 DEF Start
      <4> QED
        BY <4>1, <2>7, <2>8, <2>9, <3>1 DEF TypeOK
  <2>11. ASSUME NEW l \in Alive'
         PROVE  l \in cancelled' \/ (name'[l] \in registered' /\ cancel'[name'[l]] = l)
    <3>1. CASE l \in New
      <4>1. name'[l] = f[l] /\ f[l] \in registered
        BY <2>1, <2>2, <3>1
      <4> QED
        BY <4>1, <2>2, <2>5, <3>1
    <3>2. CASE l \notin New
      <4>1. l \in Alive
        BY <2>2, <2>11, <3>2 DEF Alive
      <4>2. l \in cancelled
        BY <4>1, <2>2 DEF DeregisteredIsStopped, AliveCanBeCancelled, Alive, Loops
      <4> QED
        BY <4>2, <2>2
    <3> QED
      BY <3>1, <3>2
  <2>12. UnusedLoops'
    <3> SUFFICES ASSUME NEW l \in Loops, l > started' PROVE loop'[l] = "none"
      BY DEF UnusedLoops
    <3>1. l \notin New /\ l > started
      <4>1. /\ l \in Int /\ started \in Int /\ started' \in Int
        BY <2>8 DEF TypeOK, Loops
      <4>2. l \notin New
        BY <2>3, <4>1
      <4>3. started <= started'
        <5>1. PICK m \in New : m > started /\ m <= started'
          <6>1. PICK n \in registered : TRUE
            BY <1>4 DEF Start
          <6>2. PICK m \in New : f[m] = n
            BY <2>1
          <6> QED
            BY <2>3, <6>2
        <5> QED
          BY <5>1, <4>1
      <4> HIDE DEF New
      <4> QED
        BY <4>1, <4>2, <4>3
    <3> QED
      BY <3>1, <2>2 DEF UnusedLoops
  <2> QED
    BY <2>2, <2>10, <2>11, <2>12
    DEF Holds, DeregisteredIsStopped, AliveCanBeCancelled, StopReachesAll
<1>5. CASE RecordCancel(c)
  <2>1. /\ arg[c].name \in registered /\ arg[c].name \in Names
        /\ arg[c].loop \in Loops /\ cancel[arg[c].name] = 0
    BY <1>5 DEF RecordCancel, Holds, TypeOK
  <2>2. TypeOK'
    BY <1>5, <2>1, SchedulerAssumption DEF RecordCancel, TypeOK, Loops
  <2>3. ASSUME NEW l \in Alive
        PROVE  l \in cancelled \/ (name[l] \in registered /\ cancel'[name[l]] = l)
    BY <1>5, <2>1, <2>3
    DEF RecordCancel, DeregisteredIsStopped, AliveCanBeCancelled, Alive, Loops, TypeOK
  <2>4. Holds(c)'
    BY <1>5, <2>1 DEF RecordCancel, Holds, TypeOK
  <2> QED
    BY <1>5, <2>2, <2>3, <2>4
    DEF RecordCancel, UnusedLoops, DeregisteredIsStopped, AliveCanBeCancelled,
        StopReachesAll, Alive
<1>6. CASE Launch(c)
  <2>1. /\ arg[c].name \in registered /\ arg[c].name \in Names
        /\ arg[c].loop \in Loops /\ cancel[arg[c].name] = arg[c].loop
        /\ arg[c].loop <= started /\ call'[c] = "idle"
    BY <1>6 DEF Launch, Holds, TypeOK
  <2>2. TypeOK'
    BY <1>6, <2>1, Arguments DEF Launch, TypeOK
  <2>3. ASSUME NEW l \in Alive'
        PROVE  l \in cancelled \/ (name'[l] \in registered /\ cancel[name'[l]] = l)
    <3>1. CASE l = arg[c].loop
      BY <1>6, <2>1, <3>1 DEF Launch, TypeOK
    <3>2. CASE l # arg[c].loop
      <4>1. l \in Alive /\ name'[l] = name[l]
        BY <1>6, <2>3, <3>2 DEF Launch, TypeOK, Alive
      <4> QED
        BY <4>1 DEF DeregisteredIsStopped, AliveCanBeCancelled
    <3> QED
      BY <3>1, <3>2
  <2>4. UnusedLoops'
    BY <1>6, <2>1 DEF Launch, UnusedLoops, TypeOK, Loops
  <2> QED
    BY <1>6, <2>1, <2>2, <2>3, <2>4
    DEF Launch, Holds, DeregisteredIsStopped, AliveCanBeCancelled, StopReachesAll
<1>7. CASE Stop(c)
  <2>1. TypeOK'
    <3>1. \A n \in Names : cancel[n] \in 0..MaxLoops
      BY DEF TypeOK
    <3>2. {cancel[n] : n \in Names} \ {0} \subseteq Loops
      BY <3>1, LoopNumbers
    <3>3. cancelled' \subseteq Loops
      BY <1>7, <3>2 DEF Stop, TypeOK
    <3> QED
      BY <1>7, <3>3, LoopNumbers DEF Stop, TypeOK
  <2>2. ASSUME NEW l \in Alive PROVE l \in cancelled'
    BY <1>7, <2>2
    DEF Stop, DeregisteredIsStopped, AliveCanBeCancelled, Alive, Loops, TypeOK
  <2>3. Alive' = Alive /\ call'[c] = "waiting" /\ call[c] = "idle"
    BY <1>7 DEF Stop, Alive, Idle, TypeOK
  <2> QED
    BY <1>7, <2>1, <2>2, <2>3
    DEF Stop, UnusedLoops, Holds, DeregisteredIsStopped, AliveCanBeCancelled, StopReachesAll
<1>8. CASE Wait(c)
  BY <1>8 DEF Wait, TypeOK, UnusedLoops, Holds, DeregisteredIsStopped,
              AliveCanBeCancelled, StopReachesAll, Alive
<1>9. ASSUME NEW l \in Loops, EndCollection(l) \/ TickLoop(l) \/ EndLoop(l)
      PROVE  LifeInv(c)'
  <2>1. /\ loop[l] \in {"idle", "collecting"}
        /\ loop' \in [Loops -> {"none", "idle", "collecting", "done"}]
        /\ \A m \in Loops : m # l => loop'[m] = loop[m]
        /\ UNCHANGED <<registered, cancel, name, cancelled, started, call, arg>>
    BY <1>9 DEF EndCollection, TickLoop, EndLoop, TypeOK
  <2>2. Alive' \subseteq Alive /\ l \in Alive
    BY <2>1 DEF Alive
  <2>3. UnusedLoops'
    BY <2>1 DEF UnusedLoops
  <2>4. Holds(c)'
    BY <2>1 DEF Holds
  <2> QED
    BY <2>1, <2>2, <2>3, <2>4
    DEF TypeOK, DeregisteredIsStopped, AliveCanBeCancelled, StopReachesAll
<1>10. CASE UNCHANGED vars
  BY <1>10 DEF vars, TypeOK, UnusedLoops, Holds, DeregisteredIsStopped,
               AliveCanBeCancelled, StopReachesAll, Alive
<1> QED
  BY <1>1, <1>2, <1>3, <1>4, <1>5, <1>6, <1>7, <1>8, <1>9, <1>10 DEF Next

\* "Deregister removes a collector from the scheduler and stops its ticker"
\* (scheduler.go:53) holds of one caller that never restarts a collector.
THEOREM OneCallerDeregisters ==
  ASSUME NEW c, Callers = {c}, ~Restarts
  PROVE  Spec => []DeregisteredIsStopped
<1>1. Init => LifeInv(c)
  BY LifeInit
<1>2. LifeInv(c) /\ [Next]_vars => LifeInv(c)'
  BY LifeStep
<1>3. LifeInv(c) => DeregisteredIsStopped
  BY DEF LifeInv
<1> QED
  BY <1>1, <1>2, <1>3, PTL DEF Spec

\* "Stop cancels all running collectors" (scheduler.go:96): under the same
\* assumptions every loop that Stop waits for has been cancelled.
THEOREM OneCallerStops ==
  ASSUME NEW c, Callers = {c}, ~Restarts
  PROVE  Spec => []StopReachesAll
<1>1. Init => LifeInv(c)
  BY LifeInit
<1>2. LifeInv(c) /\ [Next]_vars => LifeInv(c)'
  BY LifeStep
<1>3. LifeInv(c) => StopReachesAll
  BY DEF LifeInv
<1> QED
  BY <1>1, <1>2, <1>3, PTL DEF Spec
=============================================================================
