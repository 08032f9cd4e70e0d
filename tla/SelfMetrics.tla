----------------------------- MODULE SelfMetrics -----------------------------
(***************************************************************************)
(* When cloudflare_exporter's collectors last succeeded, and the worst of  *)
(* those times (RecordCollectionSuccess and updateGlobalLastUpdated):      *)
(* collections that end at the same time store under the lock of a map and *)
(* publish under its read lock, which several may hold.                    *)
(***************************************************************************)
EXTENDS Integers, FiniteSets

CONSTANTS Recorders,   \* collectors
          MaxClock     \* bound on the clock

ASSUME MetricsAssumption == MaxClock \in Nat \ {0} /\ IsFiniteSet(Recorders)

VARIABLES
  clock,
  recorder,          \* a collector's loop: its step and the time it works with
  lastUpdatedTimes,  \* 0 while there is none
  lastUpdatedGlobal

metricsVars == <<clock, recorder, lastUpdatedTimes, lastUpdatedGlobal>>

MetricsInit ==
  /\ clock = 1 /\ lastUpdatedGlobal = 0
  /\ recorder = [c \in Recorders |-> [step |-> "collecting", time |-> 0]]
  /\ lastUpdatedTimes = [c \in Recorders |-> 0]

Pass ==
  /\ clock < MaxClock /\ clock' = clock + 1
  /\ UNCHANGED <<recorder, lastUpdatedTimes, lastUpdatedGlobal>>

Record(c, step, time) ==
  recorder' = [recorder EXCEPT ![c] = [step |-> step, time |-> time]]

\* now, and the metrics of this collector.
Succeed(c) ==
  /\ recorder[c].step = "collecting"
  /\ Record(c, "succeeded", clock)
  /\ UNCHANGED <<clock, lastUpdatedTimes, lastUpdatedGlobal>>

AnyTime == TRUE   \* mutated form: the minimum is published after RUnlock
Unread == \A d \in Recorders : recorder[d].step # "publishing"
Store(c) ==
  /\ recorder[c].step = "succeeded" /\ Unread
  /\ lastUpdatedTimes' = [lastUpdatedTimes EXCEPT ![c] = recorder[c].time]
  /\ Record(c, "stored", 0)
  /\ UNCHANGED <<clock, lastUpdatedGlobal>>

Times == {lastUpdatedTimes[c] : c \in Recorders} \ {0}
Worst == CHOOSE t \in Times : \A u \in Times : t <= u
FindWorst(c) ==
  /\ recorder[c].step = "stored"
  /\ Record(c, "publishing", Worst)
  /\ UNCHANGED <<clock, lastUpdatedTimes, lastUpdatedGlobal>>
Publish(c) ==
  /\ recorder[c].step = "publishing"
  /\ lastUpdatedGlobal' = recorder[c].time
  /\ Record(c, "collecting", 0)
  /\ UNCHANGED <<clock, lastUpdatedTimes>>

MetricsNext ==
  \/ Pass
  \/ \E c \in Recorders :
       Succeed(c) \/ Store(c) \/ FindWorst(c) \/ Publish(c)

-----------------------------------------------------------------------------
MetricsTypeOK ==
  /\ clock \in 1..MaxClock /\ lastUpdatedGlobal \in 0..clock
  /\ lastUpdatedTimes \in [Recorders -> 0..clock]
  /\ \A c \in Recorders :
       /\ recorder[c].step \in {"collecting", "succeeded", "stored", "publishing"}
       /\ recorder[c].time \in 0..clock

\* "Global is the minimum (worst case)" (metrics.go:197) of the collectors
\* that have succeeded, when none is about to publish it: no collection
\* publishes what another's time has made wrong in between.
GlobalIsWorst ==
  (\A c \in Recorders : recorder[c].step \in {"collecting", "succeeded"}) =>
    lastUpdatedGlobal = IF Times = {} THEN 0 ELSE Worst
=============================================================================
