--------------------- MODULE CloudflareCollectorsProofs ---------------------
(***************************************************************************)
(* Proofs about the collectors of cloudflare_exporter: CloudflareCounters  *)
(* for any number of sources, any clock and any settings that satisfy the  *)
(* stated relation between them (a minute is counted at most once, with    *)
(* all its data, and none is skipped), CloudflareSnapshots for any parts,  *)
(* items, pages and caps.                                                  *)
(***************************************************************************)
EXTENDS CloudflareCounters, CloudflareSnapshots, SequenceTheorems, TLAPS

LEMMA DivBounds ==
  ASSUME NEW x \in Nat, NEW M \in Nat \ {0}
  PROVE  x \div M \in Nat /\ (x \div M) * M <= x /\ x < (x \div M) * M + M
OBVIOUS

LEMMA DivStep ==
  ASSUME NEW x \in Nat, NEW y \in Nat, NEW M \in Nat \ {0}, NEW k \in Nat,
         y <= x + k * M
  PROVE  y \div M <= (x \div M) + k
OBVIOUS

LEMMA TimesMonotone ==
  ASSUME NEW x \in Int, NEW y \in Int, x <= y, NEW M \in Nat
  PROVE  x * M <= y * M /\ x * M \in Int /\ y * M \in Int
OBVIOUS

-----------------------------------------------------------------------------
(* Types *)

TypeInv ==
  /\ TypeOK
  /\ now >= Origin
  /\ working => begun >= Origin

\* A window begins after the epoch and ends before its delay.
LEMMA Windows ==
  ASSUME NEW t \in Nat, t >= Origin
  PROVE  /\ End(t) \in Nat \ {0} /\ From(t) \in Nat
         /\ End(t) * Minute \in Nat
         /\ End(t) * Minute <= t - Delay /\ t - Delay < End(t) * Minute + Minute
         /\ From(t) = End(t) * Minute - Window
<1>1. t - Delay \in Nat /\ t - Delay >= Window + Minute
  BY CountersAssumption DEF Origin
<1>2. /\ End(t) \in Nat /\ End(t) * Minute <= t - Delay
      /\ t - Delay < End(t) * Minute + Minute
  BY <1>1, DivBounds, CountersAssumption DEF End
<1>3. End(t) * Minute \in Nat
  BY <1>2, CountersAssumption
<1>4. From(t) = End(t) * Minute - Window /\ From(t) \in Nat
  BY <1>1, <1>2, <1>3, CountersAssumption DEF From
<1>5. End(t) # 0
  BY <1>1, <1>2, CountersAssumption
<1> QED
  BY <1>2, <1>3, <1>4, <1>5

LEMMA TypeInit == Init => TypeInv
<1> SUFFICES ASSUME Init PROVE TypeInv
  OBVIOUS
<1>1. now \in Nat /\ now >= Origin
  BY CountersAssumption DEF Init, Origin
<1>2. fire \in Nat /\ pending \in 0..now /\ begun \in 0..now /\ faults \in 0..MaxFaults
  BY <1>1, CountersAssumption DEF Init
<1>3. applied \in [Sources -> [Minutes -> 0..now]]
  BY <1>1, CountersAssumption DEF Init
<1>4. /\ counted \in [Sources -> [Minutes -> Nat]]
      /\ partial \in [Sources -> SUBSET Minutes]
      /\ first \in [Sources -> Nat] /\ reached \in [Sources -> Nat]
  BY DEF Init
<1>5. working = FALSE /\ todo = {}
  BY DEF Init
<1> QED
  BY <1>1, <1>2, <1>3, <1>4, <1>5 DEF TypeInv, TypeOK

LEMMA TypeStep == TypeInv /\ [Next]_vars => TypeInv'
<1> SUFFICES ASSUME TypeInv, [Next]_vars PROVE TypeInv'
  OBVIOUS
<1> USE CountersAssumption
<1>1. CASE Begin
  BY <1>1 DEF Begin, TypeInv, TypeOK, store
<1>2. CASE Shed
  BY <1>2 DEF Shed, TypeInv, TypeOK, store, MakeTicker
<1>3. CASE EndCollection
  <2>1. /\ fire' \in Nat /\ pending' \in 0..now' /\ now' = now
        /\ working' = FALSE /\ todo' = {}
    BY <1>3 DEF EndCollection, TypeInv, TypeOK, MakeTicker
  <2> QED
    BY <1>3, <2>1 DEF EndCollection, TypeInv, TypeOK, store
<1>4. CASE Prune
  <2>1. applied' \in [Sources -> [Minutes -> 0..now']]
    BY <1>4 DEF Prune, Forget, TypeInv, TypeOK, loop
  <2> QED
    BY <1>4, <2>1 DEF Prune, Forget, TypeInv, TypeOK, loop
<1>5. CASE Tick
  <2>1. applied' \in [Sources -> [Minutes -> 0..now']]
    BY <1>5 DEF Tick, TypeInv, TypeOK, store
  <2>2. pending' \in 0..now' /\ begun' \in 0..now' /\ now' \in Nat /\ now' >= Origin
    BY <1>5 DEF Tick, TypeInv, TypeOK, Origin
  <2> QED
    BY <1>5, <2>1, <2>2 DEF Tick, TypeInv, TypeOK, store
<1>6. ASSUME NEW s \in Sources, Answer(s) PROVE TypeInv'
  <2>0. working /\ begun \in Nat /\ begun >= Origin /\ now \in Nat
    BY <1>6 DEF Answer, TypeInv, TypeOK
  <2>1. End(begun) \in Nat /\ From(begun) + Minute - 1 \in Nat
    BY <2>0, Windows
  <2>2. (From(begun) + Minute - 1) \div Minute \in Nat
    BY <2>1, DivBounds
  <2>3. first' \in [Sources -> Nat] /\ reached' \in [Sources -> Nat]
    BY <1>6, <2>1, <2>2 DEF Answer, TypeInv, TypeOK
  <2>4. applied' \in [Sources -> [Minutes -> 0..now]]
    BY <1>6 DEF Answer, Add, TypeInv, TypeOK
  <2>5. counted' \in [Sources -> [Minutes -> Nat]]
    BY <1>6 DEF Answer, Add, TypeInv, TypeOK
  <2>6. partial' \in [Sources -> SUBSET Minutes]
    BY <1>6 DEF Answer, Add, Returned, TypeInv, TypeOK
  <2> QED
    BY <1>6, <2>3, <2>4, <2>5, <2>6 DEF Answer, TypeInv, TypeOK
<1>7. ASSUME NEW s \in Sources, Fail(s) PROVE TypeInv'
  BY <1>7 DEF Fail, TypeInv, TypeOK, store
<1>8. CASE UNCHANGED vars
  BY <1>8 DEF vars, loop, store, TypeInv, TypeOK
<1> QED
  BY <1>1, <1>2, <1>3, <1>4, <1>5, <1>6, <1>7, <1>8 DEF Next

\* The variables keep their types, for any settings.
THEOREM CountersTypeCorrect == Spec => []TypeOK
<1>1. TypeInv => TypeOK
  BY DEF TypeInv
<1> QED
  BY <1>1, TypeInit, TypeStep, PTL DEF Spec

-----------------------------------------------------------------------------
(* Each minute once *)

\* A record that was dropped is that of a minute no window can reach any more.
OnceInv ==
  /\ CountedOnce
  /\ working => now <= begun + MaxDuration
  /\ \A s \in Sources : \A i \in Minutes :
       /\ applied[s][i] > 0 => applied[s][i] >= (i + 1) * Minute + Delay
       /\ counted[s][i] > 0 =>
            applied[s][i] > 0 \/ now > (i + 1) * Minute + Delay + PruneAfter

\* When and how long a minute is returned.
LEMMA ReturnedWhen ==
  ASSUME NEW t \in Nat, t >= Origin, NEW i \in Returned(t)
  PROVE  /\ i \in Nat /\ (i + 1) * Minute \in Nat
         /\ (i + 1) * Minute + Delay <= t
         /\ t < (i + 1) * Minute + Delay + Minute + Window
<1> USE CountersAssumption
<1>1. i \in Nat /\ i + 1 <= End(t) /\ End(t) \in Nat
  BY Windows DEF Returned, Minutes
<1>2. (i + 1) * Minute <= End(t) * Minute /\ (i + 1) * Minute \in Nat
  BY <1>1, TimesMonotone
<1>3. (i + 1) * Minute = i * Minute + Minute /\ i * Minute \in Nat
  BY <1>1
<1>4. (i + 1) * Minute > From(t)
  BY <1>1, <1>3, Windows DEF Returned
<1> QED
  BY <1>1, <1>2, <1>4, Windows

LEMMA OnceInit == Init => OnceInv
  BY DEF Init, OnceInv, CountedOnce

LEMMA OnceStep ==
  ASSUME Window + Minute + MaxDuration <= PruneAfter
  PROVE  TypeInv /\ TypeInv' /\ OnceInv /\ [Next]_vars => OnceInv'
<1> SUFFICES ASSUME TypeInv, TypeInv', OnceInv, [Next]_vars PROVE OnceInv'
  OBVIOUS
<1> USE CountersAssumption
<1>a. now \in Nat /\ now' \in Nat /\ PruneAfter \in Nat
  BY DEF TypeInv, TypeOK, PruneAfter
<1>b. \A i \in Minutes : (i + 1) * Minute \in Nat
  BY DEF Minutes
<1>1. CASE UNCHANGED <<now, applied, counted>> /\ (working' => begun' = now \/ (working /\ begun' = begun))
  <2>1. working' => now' <= begun' + MaxDuration
    BY <1>1, <1>a, MaxDuration \in Nat DEF OnceInv
  <2> QED
    BY <1>1, <2>1 DEF OnceInv, CountedOnce
<1>2. CASE Prune
  <2>1. ASSUME NEW s \in Sources, NEW i \in Minutes
        PROVE  /\ applied'[s][i] > 0 => applied'[s][i] >= (i + 1) * Minute + Delay
               /\ counted'[s][i] > 0 =>
                    applied'[s][i] > 0 \/ now' > (i + 1) * Minute + Delay + PruneAfter
    <3>1. /\ now' = now /\ counted' = counted
          /\ applied'[s][i] = IF applied[s][i] < now - PruneAfter THEN 0 ELSE applied[s][i]
      BY <1>2 DEF Prune, Forget
    <3>2. applied[s][i] \in Nat
      BY DEF TypeInv, TypeOK
    <3> QED
      BY <3>1, <3>2, <1>a, <1>b DEF OnceInv
  <2>2. UNCHANGED <<now, counted, working, begun>>
    BY <1>2 DEF Prune, Forget, loop
  <2> QED
    BY <2>1, <2>2 DEF OnceInv, CountedOnce
<1>3. CASE Tick
  <2>1. UNCHANGED <<applied, counted, working, begun>> /\ now' = now + 1
    BY <1>3 DEF Tick, store
  <2>2. working' => now' <= begun' + MaxDuration
    BY <1>3, <2>1, <1>a DEF Tick, TypeInv, TypeOK
  <2>3. ASSUME NEW s \in Sources, NEW i \in Minutes
        PROVE  counted'[s][i] > 0 =>
                 applied'[s][i] > 0 \/ now' > (i + 1) * Minute + Delay + PruneAfter
    BY <2>1, <1>a, <1>b DEF OnceInv
  <2> QED
    BY <2>1, <2>2, <2>3 DEF OnceInv, CountedOnce
<1>4. ASSUME NEW r \in Sources, Answer(r) PROVE OnceInv'
  <2>0. /\ working /\ begun \in Nat /\ begun >= Origin /\ begun <= now
        /\ UNCHANGED <<now, working, begun>> /\ now <= begun + MaxDuration
        /\ now > 0
    BY <1>4 DEF Answer, TypeInv, TypeOK, OnceInv, Origin
  <2>1. ASSUME NEW s \in Sources, NEW i \in Minutes
        PROVE  /\ counted'[s][i] <= 1
               /\ applied'[s][i] > 0 => applied'[s][i] >= (i + 1) * Minute + Delay
               /\ counted'[s][i] > 0 =>
                    applied'[s][i] > 0 \/ now' > (i + 1) * Minute + Delay + PruneAfter
    <3>1. CASE s = r /\ i \in Returned(begun) /\ applied[s][i] = 0
      <4>1. applied'[s][i] = now /\ counted'[s][i] = counted[s][i] + 1
        BY <1>4, <3>1 DEF Answer, Add, TypeInv, TypeOK
      <4>2. now >= (i + 1) * Minute + Delay
        BY <3>1, <2>0, <1>a, ReturnedWhen
      <4>3. now < (i + 1) * Minute + Delay + PruneAfter
        BY <3>1, <2>0, <1>a, <1>b, ReturnedWhen
      <4>4. counted[s][i] = 0
        <5>1. counted[s][i] \in Nat
          BY DEF TypeInv, TypeOK
        <5>2. /\ now \in Nat /\ (i + 1) * Minute \in Nat
              /\ ~ now > (i + 1) * Minute + Delay + PruneAfter
          BY <4>3, <1>a, <1>b
        <5> QED
          BY <3>1, <5>1, <5>2 DEF OnceInv
      <4> QED
        BY <4>1, <4>2, <4>4, <2>0, <1>a
    <3>2. CASE ~(s = r /\ i \in Returned(begun) /\ applied[s][i] = 0)
      <4>1. applied'[s][i] = applied[s][i] /\ counted'[s][i] = counted[s][i]
        BY <1>4, <3>2 DEF Answer, Add, TypeInv, TypeOK
      <4> QED
        BY <4>1, <2>0 DEF OnceInv, CountedOnce
    <3> QED
      BY <3>1, <3>2
  <2> QED
    BY <2>0, <2>1 DEF OnceInv, CountedOnce
<1>5. CASE Begin
  <2>1. UNCHANGED <<now, applied, counted>> /\ begun' = now
    BY <1>5 DEF Begin, store
  <2> QED
    BY <2>1, <1>1
<1>6. CASE Shed \/ EndCollection \/ UNCHANGED vars
  <2>1. UNCHANGED <<now, applied, counted, begun>> /\ (working' => working)
    BY <1>6 DEF Shed, EndCollection, vars, loop, store
  <2> QED
    BY <2>1, <1>1
<1>7. ASSUME NEW s \in Sources, Fail(s) PROVE OnceInv'
  <2>1. UNCHANGED <<now, applied, counted, begun, working>>
    BY <1>7 DEF Fail, store
  <2> QED
    BY <2>1, <1>1
<1> QED
  BY <1>2, <1>3, <1>4, <1>5, <1>6, <1>7 DEF Next

\* Whatever fails and however late collections are, a minute is counted at
\* most once if records are kept for longer than a window and a collection.
THEOREM EachMinuteOnce ==
  ASSUME Window + Minute + MaxDuration <= PruneAfter
  PROVE  Spec => []CountedOnce
<1>1. TypeInv /\ TypeInv' /\ OnceInv /\ [Next]_vars => OnceInv'
  BY OnceStep
<1>2. OnceInv => CountedOnce
  BY DEF OnceInv
<1> QED
  BY <1>1, <1>2, TypeInit, TypeStep, OnceInit, PTL DEF Spec

-----------------------------------------------------------------------------
(* All the data of a minute *)

LEMMA ReturnedWhole ==
  ASSUME NEW t \in Nat, t >= Origin, NEW i \in Returned(t),
         ByMinute \/ \E k \in Nat : Window = k * Minute
  PROVE  i * Minute >= From(t)
<1> USE CountersAssumption
<1>1. CASE ByMinute
  BY <1>1 DEF Returned
<1>2. CASE ~ByMinute
  <2>1. PICK k \in Nat : Window = k * Minute
    BY <1>2
  <2>2. i \in Nat /\ (i + 1) * Minute > From(t) /\ End(t) \in Nat
    BY <1>2, Windows DEF Returned, Minutes
  <2>3. From(t) = (End(t) - k) * Minute
    BY <2>1, <2>2, Windows
  <2>4. i + 1 > End(t) - k
    <3>1. CASE i + 1 <= End(t) - k
      <4>1. (i + 1) * Minute <= (End(t) - k) * Minute
        BY <3>1, <2>2, TimesMonotone
      <4> QED
        BY <4>1, <2>2, <2>3
    <3> QED
      BY <3>1, <2>2
  <2>5. End(t) - k <= i
    BY <2>2, <2>4
  <2> QED
    BY <2>5, <2>2, <2>3, TimesMonotone
<1> QED
  BY <1>1, <1>2

\* A minute is added complete if its data lands within the delay, and the
\* window is one of whole minutes or filtered by minute.
THEOREM MinutesAreWhole ==
  ASSUME Landing <= Delay, ByMinute \/ \E k \in Nat : Window = k * Minute
  PROVE  Spec => []CountedWhole
<1> USE CountersAssumption
<1>1. Init => CountedWhole
  BY DEF Init, CountedWhole
<1>2. TypeInv /\ CountedWhole /\ [Next]_vars => CountedWhole'
  <2> SUFFICES ASSUME TypeInv, CountedWhole, [Next]_vars PROVE CountedWhole'
    OBVIOUS
  <2>1. ASSUME NEW r \in Sources, Answer(r) PROVE CountedWhole'
    <3>1. /\ begun \in Nat /\ begun >= Origin /\ begun <= now /\ now \in Nat
      BY <2>1 DEF Answer, TypeInv, TypeOK
    <3>2. ASSUME NEW i \in Returned(begun) PROVE Whole(i)
      <4>1. i * Minute >= From(begun)
        BY <3>1, ReturnedWhole
      <4>2. (i + 1) * Minute \in Nat /\ (i + 1) * Minute + Delay <= begun
        BY <3>1, ReturnedWhen
      <4> QED
        BY <3>1, <4>1, <4>2 DEF Whole
    <3>3. partial' = partial
      BY <2>1, <3>2 DEF Answer, Add, TypeInv, TypeOK
    <3> QED
      BY <3>3 DEF CountedWhole
  <2>2. CASE UNCHANGED partial
    BY <2>2 DEF CountedWhole
  <2> QED
    BY <2>1, <2>2
    DEF Next, Begin, Shed, EndCollection, Prune, Forget, Tick, Fail, vars, store
<1> QED
  BY <1>1, <1>2, TypeInit, TypeStep, PTL DEF Spec

-----------------------------------------------------------------------------
(* No gaps *)

\* The relation between the ticker, its pending tick and a collection, when a
\* collection is over before the next tick.
ClockInv ==
  /\ working => /\ pending = 0 /\ now <= begun + MaxDuration
                /\ fire > 0 => begun + MaxDuration < fire /\ fire <= begun + Interval
  /\ ~working /\ pending > 0 =>
       /\ now <= pending + MaxLate
       /\ fire > 0 => fire = pending + Interval
  /\ ~working /\ pending = 0 => now < fire

\* The last window answered for s was computed at time a: the next is computed
\* in time, however many of the faults came in between.
Slack == faults * Interval + MaxDuration

InReach(s, a) ==
  /\ reached[s] = End(a) /\ a >= Origin
  /\ fire = 0 => working /\ s \notin todo /\ a = begun
  /\ working /\ s \in todo =>
       /\ begun <= a + Slack + Interval + MaxLate
       /\ fire <= a + Slack + 2 * Interval
  /\ working /\ s \notin todo => fire <= a + Slack + Interval
  /\ ~working /\ pending = 0 => fire <= a + Slack + Interval
  /\ ~working /\ pending > 0 => pending <= a + Slack + Interval

GapInv ==
  /\ ClockInv
  /\ NothingSkipped
  /\ \A s \in Sources : \A i \in Minutes : applied[s][i] > 0 => counted[s][i] > 0
  /\ \A s \in Sources : reached[s] > 0 => \E a \in Nat : InReach(s, a)

LEMMA GapInit == Init => GapInv
<1> USE CountersAssumption
<1> SUFFICES ASSUME Init PROVE GapInv
  OBVIOUS
<1>1. ClockInv
  BY DEF Init, ClockInv, Origin
<1>2. NothingSkipped
  BY DEF Init, NothingSkipped, Minutes
<1> QED
  BY <1>1, <1>2 DEF Init, GapInv

LEMMA ClockStep ==
  ASSUME MaxLate + MaxDuration < Interval
  PROVE  TypeInv /\ ClockInv /\ [Next]_vars => ClockInv'
<1> USE CountersAssumption
<1> SUFFICES ASSUME TypeInv, ClockInv, [Next]_vars PROVE ClockInv'
  OBVIOUS
<1>a. now \in Nat /\ fire \in Nat /\ pending \in Nat /\ pending <= now /\ begun \in Nat
  BY DEF TypeInv, TypeOK
<1>1. CASE Begin
  <2>1. /\ ~working /\ pending > 0 /\ working' = TRUE /\ begun' = now /\ pending' = 0
        /\ UNCHANGED <<now, fire>>
    BY <1>1 DEF Begin
  <2> QED
    BY <2>1, <1>a DEF ClockInv
<1>2. CASE Shed
  <2>1. /\ ~working /\ pending > 0 /\ working' = working /\ now' = now /\ pending' = 0
        /\ fire' = IF fire = 0 THEN now + Interval ELSE fire
    BY <1>2 DEF Shed, MakeTicker
  <2>2. now' < fire'
    BY <2>1, <1>a DEF ClockInv
  <2> QED
    BY <2>1, <2>2 DEF ClockInv
<1>3. CASE EndCollection
  <2>1. /\ working /\ working' = FALSE /\ now' = now
        /\ fire' = IF fire = 0 THEN now + Interval ELSE fire
        /\ pending' = IF pending > 0 THEN now ELSE 0
    BY <1>3 DEF EndCollection, MakeTicker
  <2>2. pending' = 0 /\ now' < fire'
    BY <2>1, <1>a DEF ClockInv
  <2> QED
    BY <2>1, <2>2 DEF ClockInv
<1>4. CASE Tick
  <2>1. /\ working => now < begun + MaxDuration
        /\ ~working /\ pending > 0 => now < pending + MaxLate
        /\ now' = now + 1
        /\ fire' = IF now' = fire THEN fire + Interval ELSE fire
        /\ pending' = IF now' = fire /\ pending = 0 THEN now' ELSE pending
        /\ UNCHANGED <<working, begun>>
    BY <1>4 DEF Tick
  <2>2. CASE working
    BY <2>1, <2>2, <1>a DEF ClockInv
  <2>3. CASE ~working /\ pending > 0
    BY <2>1, <2>3, <1>a DEF ClockInv
  <2>4. CASE ~working /\ pending = 0
    BY <2>1, <2>4, <1>a DEF ClockInv
  <2> QED
    BY <2>2, <2>3, <2>4, <1>a
<1>5. CASE UNCHANGED <<now, fire, pending, working, begun>>
  BY <1>5 DEF ClockInv
<1> QED
  BY <1>1, <1>2, <1>3, <1>4, <1>5 DEF Next, Prune, Forget, Answer, Fail, vars, loop

LEMMA ReachStep ==
  ASSUME MaxLate + MaxDuration < Interval,
         TypeInv, TypeInv', ClockInv, ClockInv', [Next]_vars, NEW s \in Sources,
         reached[s] > 0 => \E a \in Nat : InReach(s, a), reached'[s] > 0
  PROVE  \E a \in Nat : InReach(s, a)'
<1> USE CountersAssumption
<1>a. /\ now \in Nat /\ fire \in Nat /\ pending \in Nat /\ pending <= now
      /\ begun \in Nat /\ faults \in Nat /\ working \in BOOLEAN /\ begun <= now
      /\ now' \in Nat /\ fire' \in Nat /\ pending' \in Nat /\ faults' \in Nat
  BY DEF TypeInv, TypeOK
<1>b. /\ Slack \in Nat /\ Slack >= MaxDuration
      /\ faults' = faults => Slack' = Slack
      /\ faults' = faults + 1 => Slack' = Slack + Interval
  <2>1. faults * Interval \in Nat /\ (faults + 1) * Interval = faults * Interval + Interval
    BY <1>a
  <2>2. Slack = faults * Interval + MaxDuration /\ Slack' = faults' * Interval + MaxDuration
    BY DEF Slack
  <2> QED
    BY <2>1, <2>2
<1>1. CASE Answer(s)
  <2>1. /\ working /\ working' = working /\ todo' = todo \ {s}
        /\ UNCHANGED <<now, fire, pending, begun, faults>>
        /\ reached'[s] = End(begun)
    BY <1>1 DEF Answer, TypeInv, TypeOK
  <2>2. fire' <= begun + Slack' + Interval
    BY <2>1, <1>a, <1>b DEF ClockInv
  <2>3. begun >= Origin
    BY <2>1 DEF TypeInv
  <2>4. PICK a \in Nat : a = begun
    BY <1>a
  <2>5. InReach(s, a)'
    BY <2>1, <2>2, <2>3, <2>4 DEF InReach
  <2> QED
    BY <2>5
<1>2. CASE reached'[s] = reached[s]
  <2>1. PICK a \in Nat : InReach(s, a)
    BY <1>2
  <2>2. reached'[s] = End(a) /\ a >= Origin
    BY <1>2, <2>1 DEF InReach
  <2>3. CASE Begin
    <3>1. /\ ~working /\ pending > 0 /\ working' = TRUE /\ begun' = now /\ pending' = 0
          /\ todo' = Sources /\ UNCHANGED <<fire, faults>>
      BY <2>3 DEF Begin
    <3>2. pending <= a + Slack + Interval /\ fire # 0
      BY <2>1, <3>1 DEF InReach
    <3>3. begun' <= a + Slack' + Interval + MaxLate /\ fire' <= a + Slack' + 2 * Interval
      BY <3>1, <3>2, <1>a, <1>b DEF ClockInv
    <3> QED
      BY <2>2, <3>1, <3>2, <3>3 DEF InReach
  <2>4. CASE Shed
    <3>1. /\ ~working /\ pending > 0 /\ working' = working /\ pending' = 0
          /\ faults' = faults + 1 /\ fire' = IF fire = 0 THEN now + Interval ELSE fire
      BY <2>4 DEF Shed, MakeTicker
    <3>2. pending <= a + Slack + Interval /\ fire # 0
      BY <2>1, <3>1 DEF InReach
    <3>3. fire' <= a + Slack' + Interval /\ fire' # 0
      BY <3>1, <3>2, <1>a, <1>b DEF ClockInv
    <3> QED
      BY <2>2, <3>1, <3>3 DEF InReach
  <2>5. CASE EndCollection
    <3>1. /\ working /\ working' = FALSE /\ todo = {} /\ faults' = faults
          /\ fire' = IF fire = 0 THEN now + Interval ELSE fire
          /\ pending' = IF pending > 0 THEN now ELSE 0
      BY <2>5 DEF EndCollection, MakeTicker
    <3>2. pending' = 0 /\ now <= begun + MaxDuration
      BY <3>1 DEF ClockInv
    <3>3. fire' <= a + Slack' + Interval /\ fire' # 0
      <4>1. CASE fire = 0
        BY <4>1, <2>1, <3>1, <3>2, <1>a, <1>b DEF InReach
      <4>2. CASE fire # 0
        BY <4>2, <2>1, <3>1, <1>b DEF InReach
      <4> QED
        BY <4>1, <4>2
    <3> QED
      BY <2>2, <3>1, <3>2, <3>3 DEF InReach
  <2>6. CASE Tick
    <3>1. /\ working => now < begun + MaxDuration
          /\ ~working /\ pending > 0 => now < pending + MaxLate
          /\ now' = now + 1
          /\ fire' = IF now' = fire THEN fire + Interval ELSE fire
          /\ pending' = IF now' = fire /\ pending = 0 THEN now' ELSE pending
          /\ UNCHANGED <<working, begun, todo, faults>>
      BY <2>6 DEF Tick
    <3>2. CASE now' = fire
      <4>1. ~working /\ pending = 0 /\ fire # 0
        BY <3>1, <3>2, <1>a DEF ClockInv
      <4>2. pending' = fire /\ fire <= a + Slack + Interval /\ fire' # 0 /\ ~working' /\ pending' # 0
        BY <3>1, <3>2, <4>1, <2>1, <1>a DEF InReach
      <4> QED
        BY <2>2, <4>2, <3>1, <1>b DEF InReach
    <3>3. CASE now' # fire
      <4>1. UNCHANGED <<fire, pending, working, begun, todo>> /\ Slack' = Slack
        BY <3>1, <3>3, <1>b
      <4> QED
        BY <4>1, <2>1, <2>2 DEF InReach
    <3> QED
      BY <3>2, <3>3
  <2>7. ASSUME NEW r \in Sources, Fail(r) PROVE InReach(s, a)'
    <3>1. /\ UNCHANGED <<fire, pending, working, begun>> /\ todo' = todo \ {r}
          /\ faults' = faults + 1 /\ r \in todo /\ working
      BY <2>7 DEF Fail, TypeInv, TypeOK
    <3>2. CASE s \in todo
      <4>1. fire # 0 /\ begun <= a + Slack + Interval + MaxLate /\ fire <= a + Slack + 2 * Interval
        BY <2>1, <3>1, <3>2 DEF InReach
      <4>2. /\ begun' <= a + Slack' + Interval + MaxLate /\ fire' <= a + Slack' + 2 * Interval
            /\ fire' <= a + Slack' + Interval /\ fire' # 0
        BY <3>1, <4>1, <1>a, <1>b
      <4> QED
        BY <2>2, <3>1, <4>2 DEF InReach
    <3>3. CASE s \notin todo
      <4>1. fire' <= a + Slack' + Interval
        BY <2>1, <3>1, <3>3, <1>a, <1>b DEF InReach
      <4> QED
        BY <2>1, <2>2, <3>1, <3>3, <4>1 DEF InReach
    <3> QED
      BY <3>2, <3>3
  <2>8. ASSUME NEW r \in Sources, Answer(r), r # s PROVE InReach(s, a)'
    <3>1. /\ UNCHANGED <<fire, pending, working, begun>> /\ todo' = todo \ {r} /\ Slack' = Slack
      BY <2>8, <1>b DEF Answer
    <3>2. s \in todo' <=> s \in todo
      BY <3>1, <2>8
    <3> QED
      BY <2>1, <2>2, <3>1, <3>2 DEF InReach
  <2>9. CASE UNCHANGED <<fire, pending, working, begun, todo, faults>>
    <3>1. Slack' = Slack
      BY <2>9, <1>b
    <3> QED
      BY <2>1, <2>2, <2>9, <3>1 DEF InReach
  <2>10. ASSUME NEW r \in Sources, Answer(r), r = s PROVE \E b \in Nat : InReach(s, b)'
    BY <2>10, <1>1
  <2> QED
    BY <2>3, <2>4, <2>5, <2>6, <2>7, <2>8, <2>9, <2>10 DEF Next, Prune, Forget, vars, loop
<1>3. ASSUME ~Answer(s) PROVE reached'[s] = reached[s]
  <2>1. ASSUME NEW r \in Sources, Answer(r), r # s PROVE reached'[s] = reached[s]
    BY <2>1 DEF Answer, TypeInv, TypeOK
  <2> QED
    BY <1>3, <2>1
    DEF Next, Begin, Shed, EndCollection, Prune, Forget, Tick, Fail, vars, store
<1> QED
  BY <1>1, <1>2, <1>3

\* The rows that follow an answer close on those before it.
LEMMA GapStep ==
  ASSUME MaxLate + MaxDuration < Interval, ByMinute,
         NEW k \in Nat, Window = k * Minute,
         MaxFaults * Interval + MaxDuration + Interval + MaxLate <= Window
  PROVE  TypeInv /\ TypeInv' /\ GapInv /\ [Next]_vars => GapInv'
<1> USE CountersAssumption
<1> SUFFICES ASSUME TypeInv, TypeInv', GapInv, [Next]_vars PROVE GapInv'
  OBVIOUS
<1>1. ClockInv'
  BY ClockStep DEF GapInv
<1>2. \A s \in Sources : reached'[s] > 0 => \E a \in Nat : InReach(s, a)'
  BY <1>1, ReachStep DEF GapInv
<1>3. ASSUME NEW r \in Sources, Answer(r)
      PROVE  /\ \A s \in Sources : \A i \in Minutes : applied'[s][i] > 0 => counted'[s][i] > 0
             /\ NothingSkipped'
  <2>0. /\ working /\ begun \in Nat /\ begun >= Origin /\ now \in Nat /\ now > 0
        /\ r \in todo /\ faults \in Nat /\ faults <= MaxFaults
    <3>1. r \in todo /\ working
      BY <1>3 DEF Answer, TypeInv, TypeOK
    <3>2. begun >= Origin /\ now >= Origin
      BY <3>1 DEF TypeInv
    <3>3. now \in Nat /\ begun \in 0..now /\ faults \in 0..MaxFaults
      BY DEF TypeInv, TypeOK
    <3> QED
      BY <3>1, <3>2, <3>3 DEF Origin
  <2>1. ASSUME NEW s \in Sources, NEW i \in Minutes
        PROVE  /\ applied'[s][i] > 0 => counted'[s][i] > 0
               /\ counted[s][i] > 0 => counted'[s][i] > 0
               /\ s = r /\ i \in Returned(begun) => counted'[s][i] > 0
    <3>0. counted[s][i] \in Nat /\ applied[s][i] \in Nat
      BY DEF TypeInv, TypeOK
    <3>1. CASE s = r /\ i \in Returned(begun) /\ applied[s][i] = 0
      <4>1. counted'[s][i] = counted[s][i] + 1
        BY <1>3, <3>1 DEF Answer, Add, TypeInv, TypeOK
      <4> QED
        BY <4>1, <3>0
    <3>2. CASE ~(s = r /\ i \in Returned(begun) /\ applied[s][i] = 0)
      <4>1. applied'[s][i] = applied[s][i] /\ counted'[s][i] = counted[s][i]
        BY <1>3, <3>2 DEF Answer, Add, TypeInv, TypeOK
      <4> QED
        BY <4>1, <3>0, <3>2 DEF GapInv
    <3> QED
      BY <3>1, <3>2
  <2>2. ASSUME NEW s \in Sources, NEW i \in Minutes, first'[s] <= i, i < reached'[s]
        PROVE  counted'[s][i] > 0
    <3>1. CASE s # r
      <4>1. first'[s] = first[s] /\ reached'[s] = reached[s]
        BY <1>3, <3>1 DEF Answer, TypeInv, TypeOK
      <4> QED
        BY <4>1, <2>1, <2>2 DEF GapInv, NothingSkipped
    <3>2. CASE s = r
      <4>1. /\ reached'[s] = End(begun)
            /\ first'[s] = IF reached[s] = 0 THEN (From(begun) + Minute - 1) \div Minute ELSE first[s]
        BY <1>3, <3>2 DEF Answer, TypeInv, TypeOK
      <4>2. /\ i \in Nat /\ i * Minute \in Nat /\ End(begun) \in Nat /\ From(begun) \in Nat
            /\ reached[s] \in Nat
        BY <2>0, Windows DEF Minutes, TypeInv, TypeOK
      <4>3. CASE reached[s] = 0
        <5>1. (From(begun) + Minute - 1) \div Minute <= i
          BY <4>1, <4>3, <2>2
        <5>2. From(begun) + Minute - 1 \in Nat
          BY <4>2
        <5> DEFINE q == (From(begun) + Minute - 1) \div Minute
        <5>3. q \in Nat /\ From(begun) + Minute - 1 < q * Minute + Minute
          BY <5>2, DivBounds
        <5>4. q * Minute <= i * Minute /\ q * Minute \in Int
          BY <5>1, <5>3, <4>2, TimesMonotone
        <5>5. From(begun) <= i * Minute
          BY <5>3, <5>4, <4>2
        <5> QED
          BY <5>5, <4>1, <4>2, <2>1, <2>2, <3>2 DEF Returned
      <4>4. CASE reached[s] > 0 /\ i < reached[s]
        BY <4>1, <4>4, <2>1, <2>2 DEF GapInv, NothingSkipped
      <4>5. CASE reached[s] > 0 /\ i >= reached[s]
        <5>1. PICK a \in Nat : InReach(s, a)
          BY <4>5 DEF GapInv
        <5>2. /\ reached[s] = End(a) /\ a >= Origin
              /\ begun <= a + Slack + Interval + MaxLate
          BY <5>1, <2>0, <3>2 DEF InReach
        <5>3. faults * Interval <= MaxFaults * Interval /\ faults * Interval \in Int
          BY <2>0, TimesMonotone
        <5>4. begun <= a + k * Minute
          BY <5>2, <5>3, <2>0 DEF Slack
        <5>5. begun - Delay \in Nat /\ a - Delay \in Nat
          BY <5>2, <2>0 DEF Origin
        <5>6. End(begun) <= End(a) + k
          <6>1. k * Minute \in Nat /\ begun - Delay <= (a - Delay) + k * Minute
            BY <5>4, <2>0
          <6> QED
            BY <5>5, <6>1, DivStep DEF End
        <5>7. End(begun) - k <= i
          BY <5>2, <5>6, <4>2, <4>5
        <5>8. (End(begun) - k) * Minute <= i * Minute
          BY <5>7, <4>2, TimesMonotone
        <5>9. From(begun) = (End(begun) - k) * Minute
          BY <2>0, <4>2, Windows
        <5> QED
          BY <5>8, <5>9, <4>1, <2>1, <2>2, <3>2 DEF Returned
      <4> QED
        BY <4>2, <4>3, <4>4, <4>5
    <3> QED
      BY <3>1, <3>2
  <2> QED
    BY <2>1, <2>2 DEF NothingSkipped
<1>4. ASSUME UNCHANGED <<counted, first, reached>>
      PROVE  NothingSkipped'
  BY <1>4 DEF GapInv, NothingSkipped
<1>5. ASSUME UNCHANGED <<applied, counted>>
      PROVE  \A s \in Sources : \A i \in Minutes : applied'[s][i] > 0 => counted'[s][i] > 0
  BY <1>5 DEF GapInv
<1>6. ASSUME Prune
      PROVE  \A s \in Sources : \A i \in Minutes : applied'[s][i] > 0 => counted'[s][i] > 0
  BY <1>6 DEF Prune, Forget, GapInv
<1>7. /\ \A s \in Sources : \A i \in Minutes : applied'[s][i] > 0 => counted'[s][i] > 0
      /\ NothingSkipped'
  BY <1>3, <1>4, <1>5, <1>6
  DEF Next, Begin, Shed, EndCollection, Prune, Forget, Tick, Fail, vars, store
<1> QED
  BY <1>1, <1>2, <1>7 DEF GapInv

\* A window that spans the interval once for every fault, plus the time the
\* loop may be late, leaves no minute out.
THEOREM NoMinuteIsSkipped ==
  ASSUME MaxLate + MaxDuration < Interval, ByMinute,
         \E k \in Nat : Window = k * Minute,
         MaxFaults * Interval + MaxDuration + Interval + MaxLate <= Window
  PROVE  Spec => []NothingSkipped
<1>1. TypeInv /\ TypeInv' /\ GapInv /\ [Next]_vars => GapInv'
  BY GapStep
<1>2. GapInv => NothingSkipped
  BY DEF GapInv
<1> QED
  BY <1>1, <1>2, TypeInit, TypeStep, GapInit, PTL DEF Spec
-----------------------------------------------------------------------------
\* The REST collectors.  Of a part that has not changed, the draft holds
\* exactly the pages before the one to be asked for next.
SnapshotTypes ==
  /\ inventory \in BOOLEAN /\ busy \in BOOLEAN
  /\ remote \in [Parts -> Seq(Items)] /\ draft \in [Parts -> Seq(Items)]
  /\ page \in [Parts -> 1..MaxPages]
  /\ steady \subseteq Parts /\ unasked \subseteq Parts /\ failed \subseteq Parts
  /\ failed \intersect unasked = {}
  /\ published \in [Parts -> Seq(Items)] /\ totals \in [Parts -> Nat]

ReadBefore(s) == (page[s] - 1) * PageSize

UnaskedReadSoFar ==
  \A s \in Parts :
    busy /\ s \in unasked =>
      /\ inventory => page[s] = 1
      /\ s \in steady => /\ ReadBefore(s) <= Len(remote[s])
                         /\ draft[s] = SubSeq(remote[s], 1, ReadBefore(s))

SnapshotsInv ==
  SnapshotTypes /\ UnaskedReadSoFar /\ SteadyIsComplete /\ TotalsAgree

LEMMA PageIsSeq ==
  ASSUME NEW list \in Seq(Items), NEW p \in 1..MaxPages
  PROVE  Page(list, p) \in Seq(Items)
<1> DEFINE k == (p - 1) * PageSize + 1
           n == IF inventory \/ p * PageSize > Len(list) THEN Len(list) ELSE p * PageSize
<1>1. k \in Nat \ {0} /\ n \in Nat /\ n <= Len(list)
  BY SnapshotsAssumption, LenProperties
<1>2. \A i \in k..n : list[i] \in Items
  BY <1>1, LenProperties
<1>3. Page(list, p) = SubSeq(list, k, n)
  BY DEF Page
<1> HIDE DEF k, n
<1> QED
  BY <1>1, <1>2, <1>3, SubSeqProperties

\* A page read after those before it leaves no gap and no overlap.
LEMMA PageFollows ==
  ASSUME NEW list \in Seq(Items), NEW p \in 1..MaxPages,
         inventory => p = 1, (p - 1) * PageSize <= Len(list)
  PROVE  /\ SubSeq(list, 1, (p - 1) * PageSize) \o Page(list, p) =
              SubSeq(list, 1, IF More(list, p) THEN p * PageSize ELSE Len(list))
         /\ More(list, p) => p * PageSize <= Len(list)
<1> DEFINE k == (p - 1) * PageSize
           n == IF More(list, p) THEN p * PageSize ELSE Len(list)
<1>1. k \in Nat /\ p * PageSize \in Nat /\ p * PageSize = k + PageSize /\ PageSize \in Nat \ {0}
  BY SnapshotsAssumption
<1>2. Len(list) \in Nat
  BY LenProperties
<1>3. n \in Nat /\ k <= n /\ n <= Len(list)
  BY <1>1, <1>2 DEF More
<1>4. Page(list, p) = SubSeq(list, k + 1, n)
  <2>1. (IF inventory \/ p * PageSize > Len(list) THEN Len(list) ELSE p * PageSize) = n
    BY <1>1, <1>2 DEF More
  <2> QED
    BY <2>1 DEF Page
<1>5. SubSeq(list, 1, k) \o SubSeq(list, k + 1, n) = SubSeq(list, 1, n)
  <2>1. 1 \in 1..Len(list) + 1 /\ k \in 1 - 1..Len(list) /\ n \in k..Len(list)
    BY <1>1, <1>2, <1>3
  <2> HIDE DEF k, n
  <2> QED
    BY <2>1, ConcatAdjacentSubSeq
<1>6. More(list, p) => p * PageSize <= Len(list)
  BY <1>1, <1>2 DEF More
<1> QED
  BY <1>4, <1>5, <1>6

LEMMA SnapshotsInvInit == SnapshotsInit => SnapshotsInv
<1> SUFFICES ASSUME SnapshotsInit PROVE SnapshotsInv
  OBVIOUS
<1>1. <<>> \in Seq(Items) /\ \A i \in Items : <<i>> \in Seq(Items)
  OBVIOUS
<1>2. remote \in [Parts -> Seq(Items)] /\ Nothing \in [Parts -> Seq(Items)]
  BY <1>1 DEF SnapshotsInit, Nothing
<1>3. 1 \in 1..MaxPages
  BY SnapshotsAssumption
<1>4. SnapshotTypes /\ TotalsAgree
  BY <1>2, <1>3 DEF SnapshotsInit, SnapshotTypes, TotalsAgree, Nothing
<1> QED
  BY <1>4 DEF SnapshotsInit, SnapshotsInv, UnaskedReadSoFar, SteadyIsComplete

\* A part that changes is no longer among those the invariant speaks of.
LEMMA ChangeKeepsSnapshots ==
  ASSUME SnapshotsInv, NEW s \in Parts, NEW list \in Seq(Items), Change(s, list)
  PROVE  SnapshotsInv'
<1> USE DEF SnapshotsInv, Change, work, shown
<1>1. SnapshotTypes'
  BY DEF SnapshotTypes
<1>2. \A r \in steady' : remote'[r] = remote[r] /\ r \in steady
  BY DEF SnapshotTypes
<1>3. UnaskedReadSoFar' /\ SteadyIsComplete'
  BY <1>2 DEF UnaskedReadSoFar, SteadyIsComplete, ReadBefore
<1> QED
  BY <1>1, <1>3 DEF TotalsAgree

LEMMA CreateKeepsSnapshots ==
  ASSUME SnapshotsInv, NEW s \in Parts, NEW i \in Items, Create(s, i)
  PROVE  SnapshotsInv'
<1>1. remote[s] \in Seq(Items) /\ <<i>> \in Seq(Items)
  BY DEF SnapshotsInv, SnapshotTypes
<1>2. <<i>> \o remote[s] \in Seq(Items)
  BY <1>1, ConcatProperties
<1> QED
  BY <1>2, ChangeKeepsSnapshots DEF Create

LEMMA DeleteKeepsSnapshots ==
  ASSUME SnapshotsInv, NEW s \in Parts, NEW k \in DOMAIN remote[s], Delete(s, k)
  PROVE  SnapshotsInv'
<1> DEFINE list == remote[s]
<1>1. list \in Seq(Items)
  BY DEF SnapshotsInv, SnapshotTypes
<1>2. Len(list) \in Nat /\ k \in 1..Len(list) /\ \A i \in 1..Len(list) : list[i] \in Items
  BY <1>1, LenProperties
<1>3. SubSeq(list, 1, k - 1) \in Seq(Items) /\ SubSeq(list, k + 1, Len(list)) \in Seq(Items)
  <2>1. (\A i \in 1..k - 1 : list[i] \in Items) /\ \A i \in k + 1..Len(list) : list[i] \in Items
    BY <1>2
  <2>2. k - 1 \in Int /\ k + 1 \in Int /\ Len(list) \in Int /\ 1 \in Int
    BY <1>2
  <2> HIDE DEF list
  <2>3. SubSeq(list, 1, k - 1) \in Seq(Items)
    BY <2>1, <2>2, SubSeqProperties
  <2>4. SubSeq(list, k + 1, Len(list)) \in Seq(Items)
    BY <2>1, <2>2, SubSeqProperties
  <2> QED
    BY <2>3, <2>4
<1>4. RemoveAt(list, k) \in Seq(Items)
  <2> HIDE DEF list
  <2> QED
    BY <1>3, ConcatProperties DEF RemoveAt
<1> QED
  BY <1>4, ChangeKeepsSnapshots DEF Delete

LEMMA BeginKeepsSnapshots == ASSUME SnapshotsInv, BeginSnapshot PROVE SnapshotsInv'
<1> USE DEF SnapshotsInv, BeginSnapshot, shown
<1>1. <<>> \in Seq(Items) /\ 1 \in 1..MaxPages
  BY SnapshotsAssumption
<1>2. SnapshotTypes'
  BY <1>1 DEF SnapshotTypes, Nothing
<1>3. ASSUME NEW s \in Parts
      PROVE  /\ page'[s] = 1 /\ ReadBefore(s)' = 0 /\ draft'[s] = <<>>
             /\ 0 <= Len(remote[s]) /\ SubSeq(remote[s], 1, 0) = <<>>
  <2>1. remote[s] \in Seq(Items) /\ PageSize \in Nat
    BY SnapshotsAssumption DEF SnapshotTypes
  <2>2. SubSeq(remote[s], 1, 0) = <<>>
    BY SubSeqEmpty
  <2>3. Len(remote[s]) \in Nat
    BY <2>1, LenProperties
  <2> QED
    BY <2>1, <2>2, <2>3 DEF Nothing, ReadBefore
<1>4. UnaskedReadSoFar'
  BY <1>3 DEF UnaskedReadSoFar, ReadBefore
<1>5. SteadyIsComplete'
  BY DEF SteadyIsComplete
<1> QED
  BY <1>2, <1>4, <1>5 DEF TotalsAgree

\* What one answer adds to the draft of a part.
LEMMA AnswerExtendsDraft ==
  ASSUME SnapshotsInv, NEW s \in Parts, Turn(s)
  PROVE  /\ draft[s] \o Page(remote[s], page[s]) \in Seq(Items)
         /\ s \in steady =>
              /\ draft[s] \o Page(remote[s], page[s]) =
                   SubSeq(remote[s], 1, IF More(remote[s], page[s])
                                        THEN page[s] * PageSize ELSE Len(remote[s]))
              /\ More(remote[s], page[s]) => page[s] * PageSize <= Len(remote[s])
<1>1. s \in unasked /\ s \in Parts /\ busy /\ page[s] \in 1..MaxPages
  BY DEF Turn, SnapshotsInv, SnapshotTypes
<1>2. draft[s] \in Seq(Items) /\ remote[s] \in Seq(Items)
  BY <1>1 DEF SnapshotsInv, SnapshotTypes
<1>3. draft[s] \o Page(remote[s], page[s]) \in Seq(Items)
  BY <1>1, <1>2, PageIsSeq, ConcatProperties
<1>4. ASSUME s \in steady
      PROVE  /\ inventory => page[s] = 1
             /\ (page[s] - 1) * PageSize <= Len(remote[s])
             /\ draft[s] = SubSeq(remote[s], 1, (page[s] - 1) * PageSize)
  BY <1>1, <1>4 DEF SnapshotsInv, UnaskedReadSoFar, ReadBefore
<1> QED
  BY <1>1, <1>2, <1>3, <1>4, PageFollows

LEMMA NextPageKeepsSnapshots ==
  ASSUME SnapshotsInv, NEW s \in Parts, NextPage(s)
  PROVE  SnapshotsInv'
<1> USE DEF SnapshotsInv, NextPage, shown
<1>1. SnapshotTypes'
  <2>1. draft' \in [Parts -> Seq(Items)]
    BY AnswerExtendsDraft DEF SnapshotTypes
  <2>2. page' \in [Parts -> 1..MaxPages]
    BY SnapshotsAssumption DEF SnapshotTypes
  <2> QED
    BY <2>1, <2>2 DEF SnapshotTypes
<1>2. /\ ~inventory /\ page'[s] = page[s] + 1 /\ ReadBefore(s)' = page[s] * PageSize
      /\ draft'[s] = draft[s] \o Page(remote[s], page[s])
      /\ \A r \in Parts \ {s} : page'[r] = page[r] /\ draft'[r] = draft[r]
  BY SnapshotsAssumption DEF SnapshotTypes, More, ReadBefore
<1>3. s \in steady =>
        /\ ReadBefore(s)' <= Len(remote'[s])
        /\ draft'[s] = SubSeq(remote'[s], 1, ReadBefore(s)')
  BY <1>2, AnswerExtendsDraft
<1>4. UnaskedReadSoFar'
  BY <1>2, <1>3 DEF UnaskedReadSoFar, ReadBefore
<1>5. SteadyIsComplete'
  BY <1>2 DEF SteadyIsComplete, Turn
<1> QED
  BY <1>1, <1>4, <1>5 DEF TotalsAgree

LEMMA LastPageKeepsSnapshots ==
  ASSUME SnapshotsInv, NEW s \in Parts, LastPage(s)
  PROVE  SnapshotsInv'
<1> USE DEF SnapshotsInv, LastPage, PublishPart
<1>1. /\ draft'[s] = draft[s] \o Page(remote[s], page[s])
      /\ \A r \in Parts \ {s} : draft'[r] = draft[r]
  BY DEF SnapshotTypes
<1>2. SnapshotTypes'
  BY <1>1, AnswerExtendsDraft DEF SnapshotTypes
<1>3. ASSUME s \in steady
      PROVE  /\ draft'[s] = SubSeq(remote[s], 1, Len(draft'[s]))
             /\ Len(draft'[s]) = Len(remote[s]) \/ Len(draft'[s]) = PageSize * MaxPages
  <2> DEFINE n == IF More(remote[s], page[s]) THEN page[s] * PageSize ELSE Len(remote[s])
  <2>1. /\ draft'[s] = SubSeq(remote[s], 1, n)
        /\ More(remote[s], page[s]) => page[s] * PageSize <= Len(remote[s])
    BY <1>1, <1>3, AnswerExtendsDraft
  <2>2. remote[s] \in Seq(Items) /\ Len(remote[s]) \in Nat /\ page[s] \in 1..MaxPages
    BY LenProperties DEF SnapshotTypes
  <2>3. n \in Nat /\ n <= Len(remote[s])
    BY <2>1, <2>2, SnapshotsAssumption
  <2>4. Len(draft'[s]) = n
    <3>1. \A i \in 1..n : remote[s][i] \in Items
      BY <2>2, <2>3, LenProperties
    <3> HIDE DEF n
    <3> QED
      BY <2>1, <2>3, <3>1, SubSeqProperties
  <2>5. n = Len(remote[s]) \/ n = PageSize * MaxPages
    BY <2>2, SnapshotsAssumption
  <2> QED
    BY <2>1, <2>4, <2>5
<1>4. UnaskedReadSoFar'
  BY <1>1 DEF UnaskedReadSoFar, ReadBefore, SnapshotTypes
<1>5. SteadyIsComplete'
  BY <1>1, <1>3 DEF SteadyIsComplete
<1>6. TotalsAgree'
  BY DEF TotalsAgree
<1> QED
  BY <1>2, <1>4, <1>5, <1>6

LEMMA LeaveOutKeepsSnapshots ==
  ASSUME SnapshotsInv, NEW s \in Parts, LeaveOut(s)
  PROVE  SnapshotsInv'
<1> USE DEF SnapshotsInv, LeaveOut, shown
<1>1. <<>> \in Seq(Items) /\ \A r \in Parts \ {s} : draft'[r] = draft[r]
  BY DEF SnapshotTypes
<1>2. SnapshotTypes'
  BY <1>1 DEF SnapshotTypes
<1>3. UnaskedReadSoFar' /\ SteadyIsComplete'
  BY <1>1 DEF UnaskedReadSoFar, SteadyIsComplete, ReadBefore
<1> QED
  BY <1>2, <1>3 DEF TotalsAgree

LEMMA SwapKeepsSnapshots == ASSUME SnapshotsInv, Swap PROVE SnapshotsInv'
<1> USE DEF SnapshotsInv, Swap, shown
<1>1. \A s \in Parts : Len(draft[s]) \in Nat
  BY LenProperties DEF SnapshotTypes
<1>2. SnapshotTypes'
  BY <1>1 DEF SnapshotTypes
<1>3. TotalsAgree'
  BY DEF TotalsAgree
<1> QED
  BY <1>2, <1>3 DEF UnaskedReadSoFar, SteadyIsComplete

LEMMA SnapshotsInvStep ==
  ASSUME SnapshotsInv, [SnapshotsNext]_snapshotsVars
  PROVE  SnapshotsInv'
<1>1. CASE UNCHANGED snapshotsVars
  BY <1>1 DEF snapshotsVars, work, shown, SnapshotsInv, SnapshotTypes, UnaskedReadSoFar,
              ReadBefore, SteadyIsComplete, TotalsAgree
<1> QED
  BY <1>1, CreateKeepsSnapshots, DeleteKeepsSnapshots, BeginKeepsSnapshots,
     NextPageKeepsSnapshots, LastPageKeepsSnapshots, LeaveOutKeepsSnapshots,
     SwapKeepsSnapshots DEF SnapshotsNext

\* A part that did not change while it was read is complete, or cut at the
\* cap, and the two families of the DNS records agree (dns_records.go:151).
THEOREM SnapshotsAreComplete == SnapshotsSpec => []SnapshotsComplete
<1>1. SnapshotsInv => SnapshotsComplete
  BY DEF SnapshotsInv, SnapshotsComplete
<1> QED
  BY <1>1, SnapshotsInvInit, SnapshotsInvStep, PTL DEF SnapshotsSpec

\* The tunnel inventory keeps the series of an account that fails, as the
\* documentation says of every collector (docs/cloudflare_exporter.md:384).
THEOREM InventoryKeepsFailed ==
  SnapshotsSpec => [][inventory => \A s \in failed' : published'[s] = published[s]]_snapshotsVars
<1>1. ASSUME SnapshotsInv, SnapshotsNext, inventory, NEW s \in failed'
      PROVE  published'[s] = published[s]
  <2>1. CASE \E r \in Parts : LastPage(r)
    BY <1>1, <2>1 DEF SnapshotsInv, SnapshotTypes, LastPage, PublishPart, Turn
  <2>2. CASE ~\E r \in Parts : LastPage(r)
    BY <1>1, <2>2 DEF SnapshotsNext, BeginSnapshot, Swap, NextPage, LeaveOut, Create, Delete,
                      Change, shown
  <2> QED
    BY <2>1, <2>2
<1>2. SnapshotsInv /\ [SnapshotsNext]_snapshotsVars =>
        [inventory => \A s \in failed' : published'[s] = published[s]]_snapshotsVars
  BY <1>1
<1> QED
  BY <1>2, SnapshotsInvInit, SnapshotsInvStep, PTL DEF SnapshotsSpec
=============================================================================
