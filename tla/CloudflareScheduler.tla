------------------------ MODULE CloudflareScheduler ------------------------
(***************************************************************************)
(* The life of collection loops (internal/scheduler): callers register,    *)
(* start, deregister and stop collectors; every start makes a goroutine    *)
(* that collects until its context is cancelled.  The lock covers each     *)
(* method but StartCollector, which takes it twice, and the wait of Stop,  *)
(* which is outside it.  A loop is a number, in the order of the starts.   *)
(***************************************************************************)
EXTENDS Integers, FiniteSets

CONSTANTS Names,      \* the collectors
          Callers,    \* goroutines that call the scheduler
          MaxLoops,   \* bound on the loops ever started
          Restarts    \* callers start a collector that already runs

ASSUME SchedulerAssumption == MaxLoops \in Nat /\ Restarts \in BOOLEAN

Loops == 1..MaxLoops
None == [name |-> "none", loop |-> 0]

VARIABLES
  registered,  \* Scheduler.collectors
  cancel,      \* Scheduler.cancels: the loop each entry cancels, 0 for none
  loop,        \* what each loop does
  name,        \* whose loop it is
  cancelled,   \* the loops whose context is done
  started,     \* how many contexts were made
  call,        \* where each caller is
  arg          \* the name and the context of its StartCollector

vars == <<registered, cancel, loop, name, cancelled, started, call, arg>>

Alive == {l \in Loops : loop[l] \in {"idle", "collecting"}}

Init ==
  /\ registered = {} /\ cancel = [n \in Names |-> 0]
  /\ loop = [l \in Loops |-> "none"] /\ name = [l \in Loops |-> "none"]
  /\ cancelled = {} /\ started = 0
  /\ call = [c \in Callers |-> "idle"] /\ arg = [c \in Callers |-> None]

Idle(c) == call[c] = "idle"

Register(c, n) ==
  /\ Idle(c) /\ n \notin registered
  /\ registered' = registered \union {n}
  /\ UNCHANGED <<cancel, loop, name, cancelled, started, call, arg>>

\* Mutated form: the ticker of the collector is left running.
DeregisterKeepingTicker(c, n) ==
  /\ Idle(c) /\ n \in registered
  /\ registered' = registered \ {n}
  /\ UNCHANGED <<cancel, loop, name, cancelled, started, call, arg>>

Deregister(c, n) ==
  /\ Idle(c) /\ n \in registered
  /\ registered' = registered \ {n}
  /\ cancelled' = cancelled \union ({cancel[n]} \ {0})
  /\ cancel' = [cancel EXCEPT ![n] = 0]
  /\ UNCHANGED <<loop, name, started, call, arg>>

\* Start: one loop for every registered collector, under the read lock.
Start(c) ==
  LET New == started + 1 .. started + Cardinality(registered) IN
  /\ Idle(c) /\ registered # {} /\ New \subseteq Loops
  /\ Restarts \/ \A n \in registered : cancel[n] = 0
  /\ \E f \in [New -> registered] :
       /\ \A n \in registered : \E l \in New : f[l] = n
       /\ \A l, m \in New : f[l] = f[m] => l = m
       /\ name' = [l \in Loops |-> IF l \in New THEN f[l] ELSE name[l]]
       /\ cancel' = [n \in Names |->
            IF n \in registered THEN CHOOSE l \in New : f[l] = n ELSE cancel[n]]
  /\ loop' = [l \in Loops |-> IF l \in New THEN "collecting" ELSE loop[l]]
  /\ started' = started + Cardinality(registered)
  /\ UNCHANGED <<registered, cancelled, call, arg>>

\* StartCollector looks the collector up and lets the lock go ...
FindCollector(c, n) ==
  /\ Idle(c) /\ n \in registered /\ started < MaxLoops
  /\ Restarts \/ cancel[n] = 0
  /\ call' = [call EXCEPT ![c] = "found"]
  /\ arg' = [arg EXCEPT ![c] = [name |-> n, loop |-> started + 1]]
  /\ started' = started + 1
  /\ UNCHANGED <<registered, cancel, loop, name, cancelled>>

\* ... takes it again to record the cancel function ...
RecordCancel(c) ==
  /\ call[c] = "found"
  /\ cancel' = [cancel EXCEPT ![arg[c].name] = arg[c].loop]
  /\ call' = [call EXCEPT ![c] = "recorded"]
  /\ UNCHANGED <<registered, loop, name, cancelled, started, arg>>

\* ... and starts the loop, whose first collection comes at once.
Launch(c) ==
  /\ call[c] = "recorded"
  /\ loop' = [loop EXCEPT ![arg[c].loop] = "collecting"]
  /\ name' = [name EXCEPT ![arg[c].loop] = arg[c].name]
  /\ call' = [call EXCEPT ![c] = "idle"] /\ arg' = [arg EXCEPT ![c] = None]
  /\ UNCHANGED <<registered, cancel, cancelled, started>>

\* Stop cancels what it knows; the mutated form forgets the last start.
StopWithoutCancel(c) ==
  /\ Idle(c)
  /\ cancel' = [n \in Names |-> 0]
  /\ call' = [call EXCEPT ![c] = "waiting"]
  /\ UNCHANGED <<registered, loop, name, cancelled, started, arg>>
Stop(c) ==
  /\ Idle(c)
  /\ cancelled' = cancelled \union ({cancel[n] : n \in Names} \ {0})
  /\ cancel' = [n \in Names |-> 0]
  /\ call' = [call EXCEPT ![c] = "waiting"]
  /\ UNCHANGED <<registered, loop, name, started, arg>>

\* wg.Wait.
Wait(c) ==
  /\ call[c] = "waiting" /\ Alive = {}
  /\ call' = [call EXCEPT ![c] = "idle"]
  /\ UNCHANGED <<registered, cancel, loop, name, cancelled, started, arg>>

\* The loop: executeCollection ends; the ticker fires; the context is done.  A
\* select with both ready takes either.
EndCollection(l) ==
  /\ loop[l] = "collecting"
  /\ loop' = [loop EXCEPT ![l] = "idle"]
  /\ UNCHANGED <<registered, cancel, name, cancelled, started, call, arg>>

TickLoop(l) ==
  /\ loop[l] = "idle"
  /\ loop' = [loop EXCEPT ![l] = "collecting"]
  /\ UNCHANGED <<registered, cancel, name, cancelled, started, call, arg>>

EndLoop(l) ==
  /\ loop[l] = "idle" /\ l \in cancelled
  /\ loop' = [loop EXCEPT ![l] = "done"]
  /\ UNCHANGED <<registered, cancel, name, cancelled, started, call, arg>>

Next ==
  \/ \E c \in Callers :
       \/ \E n \in Names : Register(c, n) \/ Deregister(c, n) \/ FindCollector(c, n)
       \/ Start(c) \/ RecordCancel(c) \/ Launch(c) \/ Stop(c) \/ Wait(c)
  \/ \E l \in Loops : EndCollection(l) \/ TickLoop(l) \/ EndLoop(l)

Spec == Init /\ [][Next]_vars

\* Collections end, callers go on, and a select that finds both the ticker and
\* the context ready takes the context sooner or later.
FairSpec ==
  /\ Spec
  /\ \A c \in Callers : WF_vars(RecordCancel(c) \/ Launch(c) \/ Wait(c))
  /\ \A l \in Loops : WF_vars(EndCollection(l)) /\ SF_vars(EndLoop(l))

-----------------------------------------------------------------------------
\* The variables have the types of the Go fields.
TypeOK ==
  /\ registered \subseteq Names
  /\ cancel \in [Names -> 0..MaxLoops]
  /\ loop \in [Loops -> {"none", "idle", "collecting", "done"}]
  /\ name \in [Loops -> Names \union {"none"}]
  /\ cancelled \subseteq Loops
  /\ started \in 0..MaxLoops
  /\ call \in [Callers -> {"idle", "found", "recorded", "waiting"}]
  /\ arg \in [Callers -> [name : Names \union {"none"}, loop : 0..MaxLoops]]

\* "Deregister removes a collector from the scheduler and stops its ticker"
\* (scheduler.go:53): a loop that nobody has cancelled is that of a registered
\* collector.
DeregisteredIsStopped ==
  \A l \in Alive : l \in cancelled \/ name[l] \in registered

\* A loop that nobody has cancelled can still be cancelled.
AliveCanBeCancelled ==
  \A l \in Alive : l \in cancelled \/ cancel[name[l]] = l

\* "Stop cancels all running collectors" (scheduler.go:96): no loop that Stop
\* waits for is left out, also one that was registered again in between.
StopReachesAll == \A c \in Callers : call[c] = "waiting" => Alive \subseteq cancelled

\* "... and waits for them to finish" (scheduler.go:96): it returns.
StopReturns == \A c \in Callers : call[c] = "waiting" ~> call[c] = "idle"
=============================================================================
