------------------------- MODULE CloudflareGovernor -------------------------
(***************************************************************************)
(* The rate governor of cloudflare_exporter (internal/governor) and the    *)
(* collection loops that ask it (internal/scheduler): Allow before a       *)
(* collection, Record after it, any number of collections of other loops   *)
(* in between.  One API surface is modelled; the two share nothing.        *)
(*                                                                         *)
(* Time is counted in ticks.  An entry of the bucket is the number of      *)
(* ticks it still counts, so the clock itself needs no bound.  A           *)
(* collection costs 1 (scheduler.go:134) and sends one request per zone.   *)
(***************************************************************************)
EXTENDS Integers, FiniteSets, FiniteSetsExt

CONSTANTS Critical,     \* the collectors of this surface by PriorityClass
          Standard,
          Background,
          Ceiling,      \* bucket.ceiling, the budget of a window
          Window,       \* rollingWindow in ticks
          Slots,        \* names for the entries of one collector
          Zones,        \* requests one collection sends
          Backoffs,     \* Retry-After values a 429 may carry, in ticks
          Reported      \* remaining counts a response header may carry

Collectors == Critical \union Standard \union Background

ASSUME GovernorAssumption ==
  /\ IsFiniteSet(Collectors)
  /\ Critical \intersect Standard = {} /\ Critical \intersect Background = {}
  /\ Standard \intersect Background = {}
  /\ Slots \subseteq Nat
  /\ Ceiling \in Nat \ {0} /\ Window \in Nat \ {0} /\ Zones \in Nat
  /\ Backoffs \subseteq Nat /\ Reported \subseteq Nat

VARIABLES
  left,     \* bucket.entries: the ticks each entry still counts, 0 for none
  working,  \* the collectors between Allow and Record
  asked,    \* how many requests each of them has sent
  calls,    \* history: how many requests have w more ticks in the window
  wait,     \* ticks until bucket.retryAfter
  server    \* bucket.serverRemaining

vars == <<left, working, asked, calls, wait, server>>

NoEntries == [c \in Collectors |-> [s \in Slots |-> 0]]
Live == {e \in Collectors \X Slots : left[e[1]][e[2]] > 0}
Used == Cardinality(Live)

\* remainingLocked
Remaining ==
  IF server >= 0 /\ server < Ceiling - Used THEN server ELSE Ceiling - Used

\* The fraction of the budget below which a class is shed; and its mutated
\* form, which sheds no class.
ShedNever(c) == FALSE
Shedding(c) ==
  \/ c \in Background /\ Remaining * 5 < Ceiling
  \/ c \in Standard /\ Remaining * 20 < Ceiling

\* Mutated form: the last unit of the budget may be spent twice.
AllowOnZero(c) == wait = 0 /\ Remaining >= 0 /\ ~Shedding(c)
Allow(c) == wait = 0 /\ Remaining - 1 >= 0 /\ ~Shedding(c)

Init ==
  /\ left = NoEntries
  /\ working = {} /\ asked = [c \in Collectors |-> 0]
  /\ calls = [w \in 1..Window |-> 0]
  /\ wait = 0 /\ server = -1

\* executeCollection, when the governor allows it; a shed collection changes
\* nothing here.
StartCollection(c) ==
  /\ c \notin working /\ Allow(c)
  /\ working' = working \union {c}
  /\ asked' = [asked EXCEPT ![c] = 0]
  /\ UNCHANGED <<left, calls, wait, server>>

\* Collect asks for one zone after the other.
Request(c) ==
  /\ c \in working /\ asked[c] < Zones
  /\ asked' = [asked EXCEPT ![c] = @ + 1]
  /\ calls' = [calls EXCEPT ![Window] = @ + 1]
  /\ UNCHANGED <<left, working, wait, server>>

\* Collect has returned, with or without an error: Record.
Record(c) ==
  /\ c \in working
  /\ working' = working \ {c}
  /\ \E s \in Slots :
       /\ left[c][s] = 0
       /\ \A t \in Slots : left[c][t] = 0 => s <= t
       /\ left' = [left EXCEPT ![c][s] = Window]
  /\ UNCHANGED <<asked, calls, wait, server>>

\* Time passes; entries older than the window do not count any more.  The
\* mutated form forgets to drop them.
TickKeepingEntries ==
  /\ wait' = IF wait > 0 THEN wait - 1 ELSE 0
  /\ calls' = [w \in 1..Window |-> IF w < Window THEN calls[w + 1] ELSE 0]
  /\ UNCHANGED <<left, working, asked, server>>

\* Mutated form: a back-off that is over leaves a negative wait.
TickUnclamped ==
  /\ wait' = wait - 1
  /\ UNCHANGED <<left, working, asked, calls, server>>
Tick ==
  /\ left' = [c \in Collectors |->
                [s \in Slots |-> IF left[c][s] > 0 THEN left[c][s] - 1 ELSE 0]]
  /\ wait' = IF wait > 0 THEN wait - 1 ELSE 0
  /\ calls' = [w \in 1..Window |-> IF w < Window THEN calls[w + 1] ELSE 0]
  /\ UNCHANGED <<working, asked, server>>

\* UpdateFromHeaders: the remaining count of a response; the reset time that
\* comes with it is parsed and dropped.
UpdateFromHeaders(n) ==
  /\ server' = n
  /\ UNCHANGED <<left, working, asked, calls, wait>>

\* HandleRetryAfter: a 429, with or without a remaining count.  A shorter
\* back-off does not shorten a running one.
HandleRetryAfter(w) ==
  /\ wait' = IF w > wait THEN w ELSE wait
  /\ server' \in {0} \union Reported
  /\ UNCHANGED <<left, working, asked, calls>>

Next ==
  \/ \E c \in Collectors : StartCollection(c) \/ Request(c) \/ Record(c)
  \/ Tick
  \/ \E n \in Reported : UpdateFromHeaders(n)
  \/ \E w \in Backoffs : HandleRetryAfter(w)

Spec == Init /\ [][Next]_vars

\* The clock goes on, the tickers fire, and a collection that has begun ends.
FairSpec ==
  /\ Spec
  /\ WF_vars(Tick)
  /\ \A c \in Collectors : WF_vars(StartCollection(c)) /\ WF_vars(Record(c))

-----------------------------------------------------------------------------
\* The variables have the types of the Go fields.
TypeOK ==
  /\ left \in [Collectors -> [Slots -> 0..Window]]
  /\ working \subseteq Collectors
  /\ asked \in [Collectors -> Nat]
  /\ calls \in [1..Window -> Nat]
  /\ wait \in Nat
  /\ server \in Int /\ server >= -1

\* What the collectors of P have in the window and in flight.
Spent(P) == Cardinality({e \in Live : e[1] \in P}) + Cardinality(working \intersect P)

\* Allow does not consume budget and Record comes after the collection
\* (governor.go:114), so loops that ask at the same time can overshoot the
\* ceiling: by at most one collection for each loop but one.
OvershootBounded == Spent(Collectors) <= Ceiling - 1 + Cardinality(Collectors)

\* The last fifth of the budget is out of reach for background work, and the
\* last twentieth for standard work, but for the loops that ask at once: the
\* thresholds as Allow applies them (governor.go:141 to 153), a class below what
\* the constants' own comments say; see ThresholdsAsCommented.
ReserveKept ==
  LET Yielding == Background \union Standard IN
  /\ 5 * Spent(Background) <= 4 * Ceiling + 5 * Cardinality(Background)
  /\ 20 * Spent(Yielding) <= 19 * Ceiling + 20 * Cardinality(Yielding)

\* Whatever was spent, the window slides on and collections resume: only a
\* back-off, or a server that leaves nothing, may hold all of them back for ever.
\* The second condition is needed, as nothing but the header of a response lifts
\* the 0 that a 429 leaves behind.
BudgetReturns ==
  <>[](wait = 0 /\ server # 0) => []<>(working # {})

\* What the comments of the two constants say instead: 0.20 is the fraction
\* "below which standard-priority requests are rejected" and 0.05 the one "below
\* which even critical-priority requests are rejected" (governor.go:49 to 55).
\* The code does otherwise.
ThresholdsAsCommented ==
  [][\A c \in working' \ working :
       /\ c \in Standard => 5 * Remaining >= Ceiling
       /\ c \in Critical => 20 * Remaining >= Ceiling]_vars

\* "Maximum GraphQL API calls allowed per five-minute sliding window"
\* (docs/cloudflare_exporter.md:194).
CallsWithinBudget == FoldFunction(+, 0, calls) <= Ceiling
=============================================================================
