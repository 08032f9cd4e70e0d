------------------------- MODULE CloudflareCounters -------------------------
(***************************************************************************)
(* How a GraphQL collector of cloudflare_exporter turns windows of minutes *)
(* into counters: the window is computed from the clock                    *)
(* (collector.CalculateWindow), every minute of an answer is added to the  *)
(* aggregation store unless it was added before (store.Add), and the       *)
(* memory of what was added is pruned.  One metric of one collector, a     *)
(* series for each zone or account it asks for.                            *)
(*                                                                         *)
(* Time is in ticks, a minute is the number of its first tick divided by   *)
(* Minute.  The process keeps nothing, so a restart is Init at a later     *)
(* time.                                                                   *)
(***************************************************************************)
EXTENDS Integers, FiniteSets

CONSTANTS Sources,      \* zones or accounts
          Minute,       \* ticks in a minute
          Delay,        \* CF_SCRAPE_DELAY_SECONDS
          Window,       \* CF_TIME_WINDOW_SECONDS
          Interval,     \* CF_REFRESH_INTERVAL_SECONDS
          ByMinute,     \* the query filters datetimeMinute, not datetime
          Landing,      \* ticks until the data of a minute is complete
          MaxDuration,  \* bound on the length of a collection
          MaxLate,      \* bound on the delay of the loop behind its ticker
          MaxFaults,    \* bound on failed queries and shed collections
          MaxTime       \* bound on the clock

ASSUME CountersAssumption ==
  /\ Minute \in Nat \ {0} /\ Delay \in Nat /\ Window \in Nat \ {0}
  /\ Interval \in Nat \ {0} /\ ByMinute \in BOOLEAN /\ Landing \in Nat
  /\ MaxDuration \in Nat /\ MaxLate \in Nat /\ MaxFaults \in Nat
  /\ MaxTime \in Nat

VARIABLES
  now,
  fire,     \* when the ticker fires next, 0 before it is made
  pending,  \* since when a tick waits for the loop, 0 for none
  working,  \* a collection is running
  begun,    \* when it computed its window
  todo,     \* the sources it has not asked yet
  applied,  \* Store.applied: when each minute was added, 0 for never
  counted,  \* Store.counters: how often each minute is in the sum
  partial,  \* history: the minutes that were added with a part of their data
  first,    \* history: the first minute of the first window answered
  reached,  \* history: the end of the last window answered, 0 before
  faults

loop == <<fire, pending, working, begun, todo, faults>>
store == <<applied, counted, partial, first, reached>>
vars == <<now, loop, store>>

Minutes == 0..MaxTime
Origin == Delay + Window + Minute
PruneAfter == 2 * Delay

\* CalculateWindow: the first minute after the window, and the tick it starts
\* at; only the end is truncated.
EndWithoutDelay(t) == t \div Minute   \* mutated form
End(t) == (t - Delay) \div Minute
From(t) == End(t) * Minute - Window

\* The minutes that Cloudflare has rows for.  A filter on datetime cuts the
\* first of them, a filter on datetimeMinute takes or leaves it.
ReturnedAfterStart(t) ==   \* mutated form: datetimeMinute_gt
  {i \in Minutes : i < End(t) /\ i * Minute > From(t)}
Returned(t) ==
  {i \in Minutes : /\ i < End(t)
                   /\ IF ByMinute THEN i * Minute >= From(t)
                                  ELSE (i + 1) * Minute > From(t)}

Whole(i) == i * Minute >= From(begun) /\ now >= (i + 1) * Minute + Landing

Init ==
  /\ now \in Origin .. Origin + Minute - 1
  /\ fire = 0 /\ pending = now   \* the first collection is at once
  /\ working = FALSE /\ begun = 0 /\ todo = {}
  /\ applied = [s \in Sources |-> [i \in Minutes |-> 0]]
  /\ counted = [s \in Sources |-> [i \in Minutes |-> 0]]
  /\ partial = [s \in Sources |-> {}]
  /\ first = [s \in Sources |-> 0] /\ reached = [s \in Sources |-> 0]
  /\ faults = 0

\* The ticker is made when the first collection is over.
MakeTicker == fire' = IF fire = 0 THEN now + Interval ELSE fire

Begin ==
  /\ ~working /\ pending > 0
  /\ working' = TRUE /\ begun' = now /\ todo' = Sources /\ pending' = 0
  /\ UNCHANGED <<now, fire, faults, store>>

\* The governor does not allow the collection: it is not made up for.
Shed ==
  /\ ~working /\ pending > 0 /\ faults < MaxFaults
  /\ faults' = faults + 1 /\ pending' = 0 /\ MakeTicker
  /\ UNCHANGED <<now, working, begun, todo, store>>

\* Store.Add for every row of an answer; a minute that is there already keeps
\* its first value.
Add(s, Rows) ==
  LET New == {i \in Rows : applied[s][i] = 0} IN
  /\ applied' = [applied EXCEPT ![s] =
       [i \in Minutes |-> IF i \in New THEN now ELSE @[i]]]
  /\ counted' = [counted EXCEPT ![s] =
       [i \in Minutes |-> IF i \in New THEN @[i] + 1 ELSE @[i]]]
  /\ partial' = [partial EXCEPT ![s] = @ \union {i \in New : ~Whole(i)}]

\* collectZone, collectAccount: one query is answered ...
Answer(s) ==
  /\ s \in todo
  /\ todo' = todo \ {s}
  /\ Add(s, Returned(begun))
  /\ first' = [first EXCEPT ![s] = IF reached[s] = 0
                 THEN (From(begun) + Minute - 1) \div Minute ELSE @]
  /\ reached' = [reached EXCEPT ![s] = End(begun)]
  /\ UNCHANGED <<now, fire, pending, working, begun, faults>>

\* ... or fails, and Collect goes on with the next.
Fail(s) ==
  /\ s \in todo /\ faults < MaxFaults
  /\ todo' = todo \ {s} /\ faults' = faults + 1
  /\ UNCHANGED <<now, fire, pending, working, begun, store>>

EndAtFirstError ==   \* mutated form
  /\ working /\ Cardinality(todo) <= faults
  /\ working' = FALSE /\ MakeTicker
  /\ pending' = IF pending > 0 THEN now ELSE 0
  /\ UNCHANGED <<now, begun, todo, faults, store>>
EndCollection ==
  /\ working /\ todo = {}
  /\ working' = FALSE /\ MakeTicker
  /\ pending' = IF pending > 0 THEN now ELSE 0
  /\ UNCHANGED <<now, begun, todo, faults, store>>

\* Store.Prune, by a loop of its own, at any time.  The mutated form keeps
\* nothing of an earlier tick.
Forget(age) ==
  /\ applied' = [s \in Sources |-> [i \in Minutes |->
       IF applied[s][i] < now - age THEN 0 ELSE applied[s][i]]]
  /\ UNCHANGED <<now, loop, counted, partial, first, reached>>
PruneEarly == Forget(0)
Prune == Forget(PruneAfter)

\* Time passes, no further than the bounds let a collection or a tick wait.
\* The channel of a ticker holds one tick.
Tick ==
  /\ now < MaxTime
  /\ working => now < begun + MaxDuration
  /\ ~working /\ pending > 0 => now < pending + MaxLate
  /\ now' = now + 1
  /\ fire' = IF now' = fire THEN fire + Interval ELSE fire
  /\ pending' = IF now' = fire /\ pending = 0 THEN now' ELSE pending
  /\ UNCHANGED <<working, begun, todo, faults, store>>

Next ==
  \/ Begin \/ Shed \/ EndCollection \/ Prune \/ Tick
  \/ \E s \in Sources : Answer(s) \/ Fail(s)

Spec == Init /\ [][Next]_vars

-----------------------------------------------------------------------------
\* The variables have the types of the Go fields; nothing is older than the clock.
TypeOK ==
  /\ now \in Nat /\ fire \in Nat /\ pending \in 0..now
  /\ working \in BOOLEAN /\ begun \in 0..now
  /\ todo \subseteq Sources /\ (todo # {} => working)
  /\ applied \in [Sources -> [Minutes -> 0..now]]
  /\ counted \in [Sources -> [Minutes -> Nat]]
  /\ partial \in [Sources -> SUBSET Minutes]
  /\ first \in [Sources -> Nat] /\ reached \in [Sources -> Nat]
  /\ faults \in 0..MaxFaults

\* "overlapping windows do not cause double counting" (store.go:27): a minute
\* is in a counter at most once, also after its record was pruned.
CountedOnce == \A s \in Sources : \A i \in Minutes : counted[s][i] <= 1

\* The counter has every minute between the first window and the last one
\* answered: windows overlap enough for what failed in between.
NothingSkipped ==
  \A s \in Sources : \A i \in Minutes :
    first[s] <= i /\ i < reached[s] => counted[s][i] > 0

\* A minute is added with all its data, as a later answer cannot correct it:
\* Store.Add drops what it has (store.go:78), where the documentation has it
\* replaced, see LatestValueCounts.
CountedWhole == \A s \in Sources : partial[s] = {}

\* "If a collection cycle returns a sample with the same labels as an existing
\* entry, the new value replaces the old one" (docs/cloudflare_exporter.md:353):
\* an answer with all the data of a minute would leave nothing partial of it.
\* The code does otherwise.
LatestValueCounts ==
  [][\A s \in todo \ todo' :
       faults' = faults =>
         partial'[s] \intersect {i \in Returned(begun) : Whole(i)} = {}]_vars
=============================================================================
