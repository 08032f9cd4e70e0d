---------------------- MODULE CloudflareGovernorProofs ----------------------
(***************************************************************************)
(* How far concurrent collections can overshoot the budget of a window,    *)
(* and how much of it work of a lower class leaves alone: for any number   *)
(* of collectors, any ceiling and window, and whatever headers and 429s    *)
(* the server sends.                                                       *)
(***************************************************************************)
EXTENDS CloudflareGovernor, FiniteSetTheorems, TLAPS

LiveOf(P) == {e \in Live : e[1] \in P}

\* The bucket never holds infinitely many entries.
FiniteInv == TypeOK /\ IsFiniteSet(Live)

\* One element more, one element less.
LEMMA OneMore ==
  ASSUME NEW S, IsFiniteSet(S), NEW x
  PROVE  /\ IsFiniteSet(S \union {x})
         /\ Cardinality(S \union {x}) \in Nat /\ Cardinality(S) \in Nat
         /\ Cardinality(S \union {x}) <= Cardinality(S) + 1
<1>1. Cardinality(S) \in Nat
  BY FS_CardinalityType
<1>2. /\ IsFiniteSet(S \union {x})
      /\ Cardinality(S \union {x}) = IF x \in S THEN Cardinality(S) ELSE Cardinality(S) + 1
  BY FS_AddElement
<1> QED
  BY <1>1, <1>2

LEMMA OneLess ==
  ASSUME NEW S, IsFiniteSet(S), NEW x \in S
  PROVE  Cardinality(S \ {x}) = Cardinality(S) - 1
BY FS_RemoveElement

\* A subset of the collectors and what it has in the window are finite.
LEMMA FiniteParts ==
  ASSUME FiniteInv, NEW P \in SUBSET Collectors
  PROVE  /\ IsFiniteSet(P) /\ IsFiniteSet(LiveOf(P))
         /\ IsFiniteSet(working \intersect P)
         /\ Cardinality(P) \in Nat /\ Used \in Nat
         /\ Cardinality(LiveOf(P)) \in Nat /\ Cardinality(LiveOf(P)) <= Used
         /\ Cardinality(working \intersect P) \in Nat
         /\ Cardinality(working \intersect P) <= Cardinality(P)
         /\ Spent(P) = Cardinality(LiveOf(P)) + Cardinality(working \intersect P)
         /\ Spent(P) \in Nat
<1>1. IsFiniteSet(P)
  BY FS_Subset, GovernorAssumption
<1>2. IsFiniteSet(working \intersect P) /\ Cardinality(working \intersect P) <= Cardinality(P)
  BY <1>1, FS_Subset
<1>3. LiveOf(P) \subseteq Live /\ IsFiniteSet(Live)
  BY DEF LiveOf, FiniteInv
<1>4. IsFiniteSet(LiveOf(P)) /\ Cardinality(LiveOf(P)) <= Used
  BY <1>3, FS_Subset DEF Used
<1>5. /\ Cardinality(P) \in Nat /\ Used \in Nat
      /\ Cardinality(LiveOf(P)) \in Nat /\ Cardinality(working \intersect P) \in Nat
  BY <1>1, <1>2, <1>3, <1>4, FS_CardinalityType DEF Used
<1>6. Spent(P) = Cardinality(LiveOf(P)) + Cardinality(working \intersect P)
  BY DEF Spent, LiveOf
<1> QED
  BY <1>1, <1>2, <1>4, <1>5, <1>6

\* The entries after a Record: one more, of collector c.
LEMMA RecordEntries ==
  ASSUME FiniteInv, NEW c \in Collectors, NEW s \in Slots, left[c][s] = 0,
         left' = [left EXCEPT ![c][s] = Window]
  PROVE  Live' = Live \union {<<c, s>>} /\ <<c, s>> \notin Live
<1>1. \A d \in Collectors, t \in Slots :
        left'[d][t] = IF d = c /\ t = s THEN Window ELSE left[d][t]
  BY DEF FiniteInv, TypeOK
<1>2. \A e \in Collectors \X Slots : e \in Live' <=> e \in Live \/ e = <<c, s>>
  <2> SUFFICES ASSUME NEW d \in Collectors, NEW t \in Slots
               PROVE  <<d, t>> \in Live' <=> <<d, t>> \in Live \/ <<d, t>> = <<c, s>>
    OBVIOUS
  <2> QED
    BY <1>1, GovernorAssumption DEF Live
<1> QED
  BY <1>2 DEF Live

\* The entries after a Tick are some of those before it.
LEMMA TickEntries ==
  ASSUME FiniteInv, Tick
  PROVE  Live' \subseteq Live
<1> SUFFICES ASSUME NEW d \in Collectors, NEW t \in Slots, left'[d][t] > 0
             PROVE  left[d][t] > 0
  BY DEF Live
<1>1. left'[d][t] = IF left[d][t] > 0 THEN left[d][t] - 1 ELSE 0
  BY DEF Tick
<1> QED
  BY <1>1 DEF FiniteInv, TypeOK

\* The types of the variables, and the finiteness of the bucket.
LEMMA FiniteInit == Init => FiniteInv
<1> SUFFICES ASSUME Init PROVE FiniteInv
  OBVIOUS
<1>1. TypeOK
  BY GovernorAssumption DEF Init, TypeOK, NoEntries
<1>2. Live = {}
  BY DEF Init, NoEntries, Live
<1> QED
  BY <1>1, <1>2, FS_EmptySet DEF FiniteInv

LEMMA FiniteStep ==
  ASSUME FiniteInv, [Next]_vars
  PROVE  FiniteInv'
<1> USE DEF FiniteInv
<1>1. ASSUME NEW c \in Collectors, StartCollection(c) PROVE FiniteInv'
  BY <1>1 DEF StartCollection, TypeOK, Live
<1>2. ASSUME NEW c \in Collectors, Request(c) PROVE FiniteInv'
  BY <1>2, GovernorAssumption DEF Request, TypeOK, Live
<1>3. ASSUME NEW c \in Collectors, Record(c) PROVE FiniteInv'
  <2>1. PICK s \in Slots : left[c][s] = 0 /\ left' = [left EXCEPT ![c][s] = Window]
    BY <1>3 DEF Record
  <2>2. IsFiniteSet(Live')
    <3>1. Live' = Live \union {<<c, s>>}
      BY <1>3, <2>1, RecordEntries
    <3> HIDE DEF FiniteInv
    <3> QED
      BY <3>1, OneMore DEF FiniteInv
  <2>3. TypeOK'
    BY <1>3, <2>1, GovernorAssumption DEF Record, TypeOK
  <2> QED
    BY <2>2, <2>3
<1>4. CASE Tick
  <2>1. IsFiniteSet(Live')
    BY <1>4, TickEntries, FS_Subset
  <2>2. /\ left' \in [Collectors -> [Slots -> 0..Window]]
        /\ wait' \in Nat
    BY <1>4, GovernorAssumption DEF Tick, TypeOK
  <2>3. calls' \in [1..Window -> Nat]
    BY <1>4, GovernorAssumption DEF Tick, TypeOK
  <2> QED
    BY <1>4, <2>1, <2>2, <2>3 DEF Tick, TypeOK
<1>5. ASSUME NEW n \in Reported, UpdateFromHeaders(n) PROVE FiniteInv'
  BY <1>5, GovernorAssumption DEF UpdateFromHeaders, TypeOK, Live
<1>6. ASSUME NEW w \in Backoffs, HandleRetryAfter(w) PROVE FiniteInv'
  BY <1>6, GovernorAssumption DEF HandleRetryAfter, TypeOK, Live
<1>7. CASE UNCHANGED vars
  BY <1>7 DEF vars, TypeOK, Live
<1> QED
  BY <1>1, <1>2, <1>3, <1>4, <1>5, <1>6, <1>7 DEF Next

\* The variables keep the types of the Go fields.
THEOREM GovernorTypeCorrect == Spec => []TypeOK
<1>1. FiniteInv => TypeOK
  BY DEF FiniteInv
<1> QED
  BY <1>1, FiniteInit, FiniteStep, PTL DEF Spec

\* A step spends more for the collectors of P only by starting one of them,
\* and then no more than what the window held plus one each.
LEMMA SpentStep ==
  ASSUME FiniteInv, FiniteInv', [Next]_vars, NEW P \in SUBSET Collectors
  PROVE  \/ Spent(P)' <= Spent(P)
         \/ \E c \in P : Allow(c) /\ Spent(P)' <= Used + Cardinality(P)
<1>a. /\ IsFiniteSet(LiveOf(P)) /\ IsFiniteSet(working \intersect P)
      /\ Cardinality(LiveOf(P)) <= Used
      /\ Spent(P) = Cardinality(LiveOf(P)) + Cardinality(working \intersect P)
      /\ Cardinality(P) \in Nat /\ Used \in Nat /\ Cardinality(LiveOf(P)) \in Nat
      /\ Cardinality(working \intersect P) \in Nat /\ Spent(P) \in Nat
  BY FiniteParts
<1>b. /\ IsFiniteSet(P) /\ IsFiniteSet(working' \intersect P)
  BY FS_Subset, GovernorAssumption
<1>c. Spent(P)' = Cardinality(LiveOf(P)') + Cardinality(working' \intersect P)
  BY DEF Spent, LiveOf
<1>d. /\ Cardinality(working' \intersect P) \in Nat
      /\ Cardinality(working' \intersect P) <= Cardinality(P)
  BY <1>b, FS_Subset, FS_CardinalityType
<1>1. ASSUME NEW c \in Collectors, StartCollection(c)
      PROVE  \/ Spent(P)' <= Spent(P)
             \/ \E d \in P : Allow(d) /\ Spent(P)' <= Used + Cardinality(P)
  <2>1. LiveOf(P)' = LiveOf(P)
    BY <1>1 DEF StartCollection, LiveOf, Live
  <2>2. CASE c \in P
    <3>1. Allow(c)
      BY <1>1, <2>2 DEF StartCollection
    <3>2. Spent(P)' = Cardinality(LiveOf(P)) + Cardinality(working' \intersect P)
      BY <2>1, <1>c
    <3>3. Spent(P)' <= Used + Cardinality(P)
      BY <3>2, <1>a, <1>d
    <3> QED
      BY <2>2, <3>1, <3>3
  <2>3. CASE c \notin P
    <3>1. working' \intersect P = working \intersect P
      BY <1>1, <2>3 DEF StartCollection
    <3>2. Spent(P)' = Spent(P)
      BY <2>1, <3>1, <1>a, <1>c
    <3>3. Spent(P)' <= Spent(P)
      BY <3>2, <1>a
    <3> QED
      BY <3>3
  <2> QED
    BY <2>2, <2>3
<1>2. ASSUME NEW c \in Collectors, Record(c)
      PROVE  Spent(P)' <= Spent(P)
  <2>1. working' = working \ {c} /\ c \in working
    BY <1>2 DEF Record
  <2>2. CASE c \in P
    <3>0. c \in Collectors
      BY <2>2
    <3>1. PICK s \in Slots : left[c][s] = 0 /\ left' = [left EXCEPT ![c][s] = Window]
      BY <1>2, <3>0, GovernorAssumption DEF Record
    <3>2. LiveOf(P)' = LiveOf(P) \union {<<c, s>>}
      <4>1. Live' = Live \union {<<c, s>>}
        BY <3>0, <3>1, RecordEntries
      <4> QED
        BY <4>1, <2>2 DEF LiveOf
    <3>3. Cardinality(LiveOf(P)') <= Cardinality(LiveOf(P)) + 1
      BY <1>a, <3>2, OneMore
    <3>4. working' \intersect P = (working \intersect P) \ {c} /\ c \in working \intersect P
      BY <2>1, <2>2
    <3>5. Cardinality(working' \intersect P) = Cardinality(working \intersect P) - 1
      BY <3>4, <1>a, OneLess
    <3>6. Cardinality(LiveOf(P)') \in Nat
      BY <3>2, <1>a, OneMore
    <3> QED
      BY <3>3, <3>5, <3>6, <1>a, <1>c
  <2>3. CASE c \notin P
    <3>1. working' \intersect P = working \intersect P
      BY <2>1, <2>3
    <3>2. LiveOf(P)' = LiveOf(P)
      <4>1. PICK s \in Slots : left[c][s] = 0 /\ left' = [left EXCEPT ![c][s] = Window]
        BY <1>2 DEF Record
      <4>2. Live' = Live \union {<<c, s>>}
        BY <4>1, RecordEntries
      <4> QED
        BY <4>2, <2>3 DEF LiveOf
    <3>3. Spent(P)' = Spent(P)
      BY <3>1, <3>2, <1>a, <1>c
    <3> QED
      BY <3>3, <1>a
  <2> QED
    BY <2>2, <2>3
<1>3. CASE Tick
  <2>1. LiveOf(P)' \subseteq LiveOf(P)
    BY <1>3, TickEntries DEF LiveOf
  <2>2. Cardinality(LiveOf(P)') <= Cardinality(LiveOf(P)) /\ Cardinality(LiveOf(P)') \in Nat
    BY <2>1, <1>a, FS_Subset, FS_CardinalityType
  <2>3. working' = working
    BY <1>3 DEF Tick
  <2> QED
    BY <2>2, <2>3, <1>a, <1>c
<1>4. CASE UNCHANGED <<left, working>>
  <2>1. LiveOf(P)' = LiveOf(P) /\ working' = working
    BY <1>4 DEF LiveOf, Live
  <2>2. Spent(P)' = Spent(P)
    BY <2>1, <1>a, <1>c
  <2> QED
    BY <2>2, <1>a
<1> QED
  BY <1>1, <1>2, <1>3, <1>4
  DEF Next, Request, UpdateFromHeaders, HandleRetryAfter, vars

\* What an admission says about the window.
LEMMA Admission ==
  ASSUME FiniteInv, NEW c \in Collectors, Allow(c)
  PROVE  /\ Used <= Ceiling - 1
         /\ c \in Background => 5 * Used <= 4 * Ceiling
         /\ c \in Standard => 20 * Used <= 19 * Ceiling
<1>1. Used \in Nat /\ Ceiling \in Nat /\ server \in Int
  BY FiniteParts, GovernorAssumption DEF FiniteInv, TypeOK
<1>2. Remaining <= Ceiling - Used /\ Remaining \in Int
  BY <1>1 DEF Remaining
<1>3. /\ Remaining - 1 >= 0
      /\ c \in Background => ~(Remaining * 5 < Ceiling)
      /\ c \in Standard => ~(Remaining * 20 < Ceiling)
  BY DEF Allow, Shedding
<1> QED
  BY <1>1, <1>2, <1>3

BudgetInv == FiniteInv /\ OvershootBounded /\ ReserveKept

LEMMA BudgetInit == Init => BudgetInv
<1> SUFFICES ASSUME Init PROVE BudgetInv
  OBVIOUS
<1>1. FiniteInv
  BY FiniteInit
<1>2. ASSUME NEW P \in SUBSET Collectors PROVE Spent(P) = 0 /\ Cardinality(P) \in Nat
  <2>1. LiveOf(P) = {} /\ working \intersect P = {}
    BY DEF Init, NoEntries, Live, LiveOf
  <2> QED
    BY <1>1, <2>1, FiniteParts, FS_EmptySet
<1>3. /\ Collectors \in SUBSET Collectors /\ Background \in SUBSET Collectors
      /\ Background \union Standard \in SUBSET Collectors
  BY DEF Collectors
<1> QED
  BY <1>1, <1>2, <1>3, GovernorAssumption DEF BudgetInv, OvershootBounded, ReserveKept

LEMMA BudgetStep ==
  ASSUME BudgetInv, [Next]_vars
  PROVE  BudgetInv'
<1>1. FiniteInv /\ FiniteInv'
  BY FiniteStep DEF BudgetInv
<1>2. ASSUME NEW P \in SUBSET Collectors
      PROVE  Spent(P) \in Nat /\ Spent(P)' \in Nat /\ Cardinality(P) \in Nat
  <2>1. Spent(P) \in Nat /\ Cardinality(P) \in Nat
    BY <1>1, FiniteParts
  <2>2. /\ IsFiniteSet(LiveOf(P)') /\ IsFiniteSet(working' \intersect P)
        /\ Spent(P)' = Cardinality(LiveOf(P)') + Cardinality(working' \intersect P)
    <3>1. LiveOf(P)' \subseteq Live' /\ IsFiniteSet(Live')
      BY <1>1 DEF LiveOf, FiniteInv
    <3> QED
      BY <3>1, FS_Subset, GovernorAssumption DEF Spent, LiveOf
  <2> QED
    BY <2>1, <2>2, FS_CardinalityType
<1>3. /\ Collectors \in SUBSET Collectors /\ Background \in SUBSET Collectors
      /\ Background \union Standard \in SUBSET Collectors
      /\ Ceiling \in Nat /\ Used \in Nat
  BY <1>1, FiniteParts, GovernorAssumption DEF Collectors
<1>4. OvershootBounded'
  <2>1. CASE Spent(Collectors)' <= Spent(Collectors)
    BY <2>1, <1>2, <1>3 DEF BudgetInv, OvershootBounded
  <2>2. ASSUME NEW c \in Collectors, Allow(c),
               Spent(Collectors)' <= Used + Cardinality(Collectors)
        PROVE  OvershootBounded'
    <3>1. Used <= Ceiling - 1
      BY <1>1, <2>2, Admission
    <3> QED
      BY <2>2, <3>1, <1>2, <1>3 DEF OvershootBounded
  <2> QED
    BY <2>1, <2>2, <1>1, <1>3, SpentStep
<1>5. 5 * Spent(Background)' <= 4 * Ceiling + 5 * Cardinality(Background)
  <2>1. CASE Spent(Background)' <= Spent(Background)
    BY <2>1, <1>2, <1>3 DEF BudgetInv, ReserveKept
  <2>2. ASSUME NEW c \in Background, Allow(c),
               Spent(Background)' <= Used + Cardinality(Background)
        PROVE  5 * Spent(Background)' <= 4 * Ceiling + 5 * Cardinality(Background)
    <3>1. 5 * Used <= 4 * Ceiling
      BY <1>1, <2>2, Admission DEF Collectors
    <3> QED
      BY <2>2, <3>1, <1>2, <1>3
  <2> QED
    BY <2>1, <2>2, <1>1, <1>3, SpentStep
<1>6. 20 * Spent(Background \union Standard)'
        <= 19 * Ceiling + 20 * Cardinality(Background \union Standard)
  <2> DEFINE P == Background \union Standard
  <2>1. CASE Spent(P)' <= Spent(P)
    BY <2>1, <1>2, <1>3 DEF BudgetInv, ReserveKept
  <2>2. ASSUME NEW c \in P, Allow(c), Spent(P)' <= Used + Cardinality(P)
        PROVE  20 * Spent(P)' <= 19 * Ceiling + 20 * Cardinality(P)
    <3>1. 5 * Used <= 4 * Ceiling \/ 20 * Used <= 19 * Ceiling
      BY <1>1, <2>2, Admission DEF Collectors
    <3>2. 20 * Used <= 19 * Ceiling
      BY <3>1, <1>3
    <3>3. Spent(P)' \in Nat /\ Cardinality(P) \in Nat
      BY <1>2, <1>3
    <3> HIDE DEF P
    <3> QED
      BY <2>2, <3>2, <3>3, <1>3
  <2> QED
    BY <2>1, <2>2, <1>1, <1>3, SpentStep
<1> QED
  BY <1>1, <1>4, <1>5, <1>6, GovernorAssumption DEF BudgetInv, ReserveKept

\* Loops that ask before any of them has recorded overshoot the ceiling by at
\* most one collection each but one.
THEOREM OvershootIsBounded == Spec => []OvershootBounded
<1>1. BudgetInv => OvershootBounded
  BY DEF BudgetInv
<1> QED
  BY <1>1, BudgetInit, BudgetStep, PTL DEF Spec

\* Background work leaves a fifth of the budget to the others, and background
\* and standard work together leave a twentieth, but for one collection each.
THEOREM ReserveIsKept == Spec => []ReserveKept
<1>1. BudgetInv => ReserveKept
  BY DEF BudgetInv
<1> QED
  BY <1>1, BudgetInit, BudgetStep, PTL DEF Spec
=============================================================================
