------------------------ MODULE HostExportersProofs ------------------------
(***************************************************************************)
(* What runs on a host, for any callers, permits, scrapes, domains and     *)
(* tables: the permits and the answers of relay_exporter, the responses of *)
(* openbao_exporter, the statistics of libvirt_exporter, and the series of *)
(* the collectors that read the tables of the kernel or ask charon.        *)
(***************************************************************************)
EXTENDS HostExporters, FiniteSetTheorems, SequenceTheorems, TLAPS

\* One exporter moves at a time.
LEMMA ExportersStep ==
  ASSUME [Next]_vars
  PROVE  [RelayNext]_relayVars /\ [OpenbaoNext]_openbaoVars /\ [LibvirtNext]_libvirtVars
BY DEF Next, vars

-----------------------------------------------------------------------------
\* The relay.  A handler that has not returned has not answered.
Holders == {r \in Requests : handler[r] \in Holding}

RelayInv ==
  /\ RelayTypeOK /\ RelaySound
  /\ \A r \in Requests : handler[r] # "idle" => answer[r] = "none"

\* What holds of the permits when one handler moves.
LEMMA PermitsOfMove ==
  ASSUME RelayInv, NEW r \in Requests, NEW at, Goto(r, at)
  PROVE  /\ IsFiniteSet(Holders) /\ Cardinality(Holders) = sem
         /\ handler' = [handler EXCEPT ![r] = at]
         /\ r \in Holders /\ at \in Holding => Holders' = Holders
         /\ r \notin Holders /\ at \notin Holding => Holders' = Holders
         /\ r \notin Holders /\ at \in Holding =>
              Cardinality(Holders') = sem + 1
         /\ r \in Holders /\ at \notin Holding =>
              Cardinality(Holders') = sem - 1 /\ sem # 0
<1>1. IsFiniteSet(Holders) /\ Cardinality(Holders) = sem
  BY FS_Subset, RelayAssumption
     DEF Holders, RelayInv, RelaySound, RelayPermitsInFlight
<1>2. /\ handler' = [handler EXCEPT ![r] = at]
      /\ \A q \in Requests : handler'[q] = IF q = r THEN at ELSE handler[q]
  BY DEF Goto, RelayInv, RelayTypeOK
<1>3. Holders' = IF at \in Holding THEN Holders \union {r} ELSE Holders \ {r}
  BY <1>2 DEF Holders
<1>4. r \notin Holders /\ at \in Holding => Cardinality(Holders') = sem + 1
  BY <1>1, <1>3, FS_AddElement
<1>5. ASSUME r \in Holders, at \notin Holding
      PROVE  Cardinality(Holders') = sem - 1 /\ sem # 0
  <2>1. Cardinality(Holders') = sem - 1
    BY <1>1, <1>3, <1>5, FS_RemoveElement
  <2>2. sem # 0
    BY <1>1, <1>5, FS_EmptySet
  <2> QED
    BY <2>1, <2>2
<1> QED
  BY <1>1, <1>2, <1>3, <1>4, <1>5

LEMMA RelayInvInit == RelayInit => RelayInv
<1> SUFFICES ASSUME RelayInit PROVE RelayInv
  OBVIOUS
<1>1. {r \in Requests : handler[r] \in Holding} = {}
  BY DEF RelayInit, Holding
<1>2. RelayPermitsInFlight
  BY <1>1, FS_EmptySet DEF RelayInit, RelayPermitsInFlight
<1>3. RelayTypeOK
  BY RelayAssumption DEF RelayInit, RelayTypeOK, Silent
<1>4. RelaySuccessWasRead /\ \A r \in Requests : answer[r] = "none"
  BY DEF RelayInit, RelaySuccessWasRead
<1> QED
  BY <1>2, <1>3, <1>4 DEF RelayInv, RelaySound

\* One permit less, one permit more.
LEMMA PermitCount ==
  ASSUME RelayInv
  PROVE  /\ sem # 0 => sem - 1 \in 0..Permits
         /\ sem < Permits => sem + 1 \in 0..Permits
<1>1. sem \in 0..Permits /\ Permits \in Nat
  BY RelayAssumption DEF RelayInv, RelayTypeOK
<1> QED
  BY <1>1

\* A handler that returns gives its permit back if it has one.
LEMMA ReplyKeepsRelay ==
  ASSUME RelayInv, NEW r \in Requests, NEW a, Reply(r, a),
         a \in {"forbidden", "too many", "bad", "success", "failure"},
         a = "success" => /\ target[r].status = "200"
                          /\ target[r].body \in {"whole", "limit"},
         \/ handler[r] \in Holding /\ Release(r)
         \/ handler[r] \notin Holding /\ UNCHANGED sem
  PROVE  RelayInv'
<1>1. /\ Goto(r, "idle") /\ answer' = [answer EXCEPT ![r] = a]
      /\ UNCHANGED <<process, target>> /\ "idle" \notin Holding
  BY DEF Reply, Holding
<1>2. /\ handler' = [handler EXCEPT ![r] = "idle"]
      /\ r \notin Holders => Cardinality(Holders') = sem
      /\ r \in Holders => Cardinality(Holders') = sem - 1 /\ sem # 0
  BY <1>1, PermitsOfMove
<1>3. Cardinality(Holders') = sem' /\ sem' \in 0..Permits
  <2>1. sem \in 0..Permits /\ Permits \in Nat
    BY RelayAssumption DEF RelayInv, RelayTypeOK
  <2>2. r \in Holders <=> handler[r] \in Holding
    BY DEF Holders
  <2>3. CASE handler[r] \in Holding /\ Release(r)
    <3>1. Cardinality(Holders') = sem - 1 /\ sem # 0 /\ sem' = sem - 1
      BY <1>2, <2>2, <2>3 DEF Release
    <3> QED
      BY <3>1, PermitCount
  <2>4. CASE handler[r] \notin Holding /\ UNCHANGED sem
    BY <1>2, <2>1, <2>2, <2>4
  <2> QED
    BY <2>3, <2>4
<1>4. RelayTypeOK'
  BY <1>1, <1>2, <1>3 DEF RelayInv, RelayTypeOK
<1>5. \A q \in Requests \ {r} : answer'[q] = answer[q] /\ handler'[q] = handler[q]
  BY <1>1, <1>2 DEF RelayInv, RelayTypeOK
<1>6. answer'[r] = a /\ handler'[r] = "idle"
  BY <1>1, <1>2 DEF RelayInv, RelayTypeOK
<1>7. RelaySuccessWasRead'
  BY <1>1, <1>5, <1>6 DEF RelayInv, RelaySound, RelaySuccessWasRead
<1>8. RelayPermitsInFlight'
  BY <1>3 DEF RelayPermitsInFlight, Holders
<1> QED
  BY <1>4, <1>5, <1>6, <1>7, <1>8 DEF RelayInv, RelaySound

\* A handler that goes on takes a permit or keeps what it has, and answers
\* nothing; only Accept touches what was answered before.
LEMMA MoveKeepsRelay ==
  ASSUME RelayInv, NEW r \in Requests, NEW at, Goto(r, at),
         at \in {"accepted"} \union Holding,
         \/ handler[r] \notin Holding /\ at \in Holding /\ sem < Permits /\ sem' = sem + 1
         \/ (handler[r] \in Holding <=> at \in Holding) /\ UNCHANGED sem,
         process' = process,
         target' \in [Requests -> [status : {"none", "200", "500"},
                                   body : {"none", "part", "whole", "limit"}]],
         \A q \in Requests \ {r} : target'[q] = target[q] /\ answer'[q] = answer[q],
         answer' \in [Requests -> {"none", "forbidden", "too many", "bad",
                                   "success", "failure"}],
         answer'[r] = "none"
  PROVE  RelayInv'
<1>1. /\ handler' = [handler EXCEPT ![r] = at] /\ Cardinality(Holders) = sem
      /\ r \notin Holders /\ at \in Holding => Cardinality(Holders') = sem + 1
      /\ (r \in Holders <=> at \in Holding) => Holders' = Holders
  BY PermitsOfMove
<1>2. Cardinality(Holders') = sem' /\ sem' \in 0..Permits
  <2>1. sem \in 0..Permits /\ Permits \in Nat
    BY RelayAssumption DEF RelayInv, RelayTypeOK
  <2>2. r \in Holders <=> handler[r] \in Holding
    BY DEF Holders
  <2>3. CASE handler[r] \notin Holding /\ at \in Holding /\ sem < Permits /\ sem' = sem + 1
    <3>1. Cardinality(Holders') = sem + 1 /\ sem' = sem + 1
      BY <1>1, <2>2, <2>3
    <3> QED
      BY <2>3, <3>1, PermitCount
  <2>4. CASE (handler[r] \in Holding <=> at \in Holding) /\ UNCHANGED sem
    BY <1>1, <2>1, <2>2, <2>4
  <2> QED
    BY <2>3, <2>4
<1>3. RelayTypeOK'
  BY <1>1, <1>2 DEF RelayInv, RelayTypeOK, Holding
<1>4. RelaySuccessWasRead'
  BY DEF RelayInv, RelaySound, RelaySuccessWasRead
<1>5. RelayPermitsInFlight'
  BY <1>2 DEF RelayPermitsInFlight, Holders
<1>6. \A q \in Requests : handler'[q] # "idle" => answer'[q] = "none"
  BY <1>1 DEF RelayInv, RelayTypeOK
<1> QED
  BY <1>3, <1>4, <1>5, <1>6 DEF RelayInv, RelaySound

LEMMA HandlerKeepsRelay ==
  ASSUME RelayInv, NEW r \in Requests,
         \/ Accept(r) \/ Handle(r)
         \/ \E status \in {"200", "500"} : Header(r, status)
         \/ \E part \in {"part", "whole", "limit"} : Body(r, part)
  PROVE  RelayInv'
<1>0. /\ handler \in [Requests -> {"idle", "accepted"} \union Holding]
      /\ target \in [Requests -> [status : {"none", "200", "500"},
                                  body : {"none", "part", "whole", "limit"}]]
      /\ answer \in [Requests -> {"none", "forbidden", "too many", "bad",
                                  "success", "failure"}]
      /\ handler[r] # "idle" => answer[r] = "none"
  BY DEF RelayInv, RelayTypeOK
<1>1. CASE Accept(r)
  <2>1. /\ Goto(r, "accepted") /\ handler[r] = "idle" /\ UNCHANGED <<process, sem>>
        /\ target' = [target EXCEPT ![r] = Silent]
        /\ answer' = [answer EXCEPT ![r] = "none"]
    BY <1>1 DEF Accept
  <2>2. target' \in [Requests -> [status : {"none", "200", "500"},
                                  body : {"none", "part", "whole", "limit"}]]
    BY <1>0, <2>1 DEF Silent
  <2> QED
    BY <1>0, <2>1, <2>2, MoveKeepsRelay DEF Holding
<1>2. CASE Forbid(r) \/ TooMany(r)
  BY <1>2, ReplyKeepsRelay DEF Forbid, TooMany, Holding
<1>3. CASE BadRequest(r) \/ Fail(r)
  BY <1>3, ReplyKeepsRelay DEF BadRequest, Fail, Holding
<1>4. CASE Finish(r)
  BY <1>4, ReplyKeepsRelay DEF Finish, Holding
<1>5. CASE TakePermit(r)
  BY <1>0, <1>5, MoveKeepsRelay DEF TakePermit, Holding
<1>6. CASE Ask(r)
  BY <1>0, <1>6, MoveKeepsRelay DEF Ask, Holding
<1>7. ASSUME NEW status \in {"200", "500"}, Header(r, status)
      PROVE  RelayInv'
  <2>1. /\ target' = [target EXCEPT ![r].status = status]
        /\ Goto(r, "reading") /\ handler[r] = "asking"
        /\ UNCHANGED <<process, sem, answer>>
    BY <1>7 DEF Header
  <2> QED
    BY <1>0, <2>1, MoveKeepsRelay DEF Holding
<1>8. ASSUME NEW part \in {"part", "whole", "limit"}, Body(r, part)
      PROVE  RelayInv'
  <2>1. /\ target' = [target EXCEPT ![r].body = part] /\ handler[r] = "reading"
        /\ UNCHANGED <<process, handler, sem, answer>>
    BY <1>8 DEF Body
  <2>2. Goto(r, "reading")
    BY <1>0, <2>1 DEF Goto
  <2> QED
    BY <1>0, <2>1, <2>2, MoveKeepsRelay DEF Holding
<1> QED
  BY <1>1, <1>2, <1>3, <1>4, <1>5, <1>6, <1>7, <1>8 DEF Handle

LEMMA RelayInvStep ==
  ASSUME RelayInv, [RelayNext]_relayVars PROVE RelayInv'
<1>1. CASE UNCHANGED relayVars \/ Signal \/ Exit
  <2>1. /\ UNCHANGED <<handler, sem, target, answer>>
        /\ process' \in {process, "closing", "exited"}
    BY <1>1 DEF relayVars, Signal, Exit
  <2> QED
    BY <2>1 DEF RelayInv, RelayTypeOK, RelaySound, RelayPermitsInFlight,
                RelaySuccessWasRead
<1>2. CASE RelayNext /\ ~(Signal \/ Exit)
  BY <1>2, HandlerKeepsRelay DEF RelayNext
<1> QED
  BY <1>1, <1>2

\* For any number of callers and permits, each permit of proxyHandler's channel
\* belongs to a request in flight, and success was read to its end.
THEOREM RelayIsSound == Spec => []RelaySound
<1>1. Init => RelayInv
  BY RelayInvInit DEF Init
<1>2. RelayInv /\ [Next]_vars => RelayInv'
  BY RelayInvStep, ExportersStep
<1>3. RelayInv => RelaySound
  BY DEF RelayInv
<1> QED
  BY <1>1, <1>2, <1>3, PTL DEF Spec

-----------------------------------------------------------------------------
\* The scrapes of OpenBao.  Any two that run overlap, so neither began before
\* the other's floor; what one is about to store is no older than itself.
Nodes == {m.node : m \in UNION Configs}
Responses ==
  [step : {"idle", "health", "members", "leaders", "fetch", "store", "serve"},
   begun : Nat, floor : Nat, copy : Configs \union {{}}, text : Nat,
   up : BOOLEAN, peers : Nat, leaders : SUBSET Nodes, served : Nat]

OpenbaoTypes ==
  /\ time \in Nat /\ native \in Nat /\ members \in Configs \union {{}}
  /\ scrape \in [Scrapes -> Responses]

Overlapping ==
  \A s \in Running :
    /\ scrape[s].floor <= scrape[s].begun /\ scrape[s].begun <= time
    /\ \A t \in Running : scrape[s].floor <= scrape[t].begun

FreshSince(n, floor) == n = 0 \/ n >= floor
FreshTexts ==
  \A s \in Scrapes :
    /\ scrape[s].step = "store" => FreshSince(scrape[s].text, scrape[s].begun)
    /\ scrape[s].step = "serve" /\ scrape[s].up = TRUE =>
         FreshSince(native, scrape[s].floor)
    /\ scrape[s].step = "idle" /\ scrape[s].up = TRUE =>
         FreshSince(scrape[s].served, scrape[s].floor)

Peers(list) == IF list = {} THEN 1 ELSE Cardinality(list)
Matching(r) ==
  \E c \in Configs \union {{}} : r.leaders = LeadersOf(c) /\ r.peers = Peers(c)
PeersKept ==
  \A s \in Scrapes :
    /\ scrape[s].step = "leaders" => scrape[s].peers = Peers(scrape[s].copy)
    /\ scrape[s].step \in {"fetch", "store"} => Matching(scrape[s])
    /\ scrape[s].step \in {"serve", "idle"} /\ scrape[s].up = TRUE =>
         Matching(scrape[s])

OpenbaoInv == OpenbaoTypes /\ Overlapping /\ FreshTexts /\ PeersKept

\* A set of numbers that is not empty has a least one.
LEMMA LeastNumber ==
  ASSUME NEW S \in SUBSET Nat, S # {}
  PROVE  \E t \in S : \A u \in S : t <= u
<1> DEFINE Below(t) == {u \in S : u < t}
           Belows == {Below(t) : t \in S}
<1>1. Belows \subseteq FiniteSubsetsOf(S)
  <2>1. ASSUME NEW t \in S PROVE Below(t) \in FiniteSubsetsOf(S)
    <3>1. t \in Nat /\ S \subseteq Nat
      OBVIOUS
    <3>2. Below(t) \in SUBSET Nat
      BY <3>1
    <3>3. \A u \in Below(t) : u <= t
      BY <3>1
    <3>4. IsFiniteSet(Below(t))
      BY <3>1, <3>2, <3>3, FS_BoundedSetOfNaturals
    <3> QED
      BY <3>4 DEF FiniteSubsetsOf
  <2> QED
    BY <2>1
<1>2. Belows # {}
  OBVIOUS
<1>3. \E B \in Belows : \A C \in Belows : ~(<<C, B>> \in StrictSubsetOrdering(S))
  BY <1>1, <1>2, FS_StrictSubsetOrderingWellFounded, WFMin
<1>4. PICK t \in S : \A C \in Belows : ~(<<C, Below(t)>> \in StrictSubsetOrdering(S))
  BY <1>3
<1>5. ASSUME NEW u \in S, ~(t <= u) PROVE FALSE
  <2>1. u < t /\ u \in Nat /\ t \in Nat
    BY <1>5
  <2>2. Below(u) \subseteq Below(t)
    <3>1. \A v \in S : v \in Nat
      OBVIOUS
    <3>2. \A v \in Nat : v < u => v < t
      BY <2>1
    <3> QED
      BY <3>1, <3>2
  <2>3. u \in Below(t)
    BY <2>1
  <2>4. u \notin Below(u)
    BY <2>1
  <2>5. Below(u) \in SUBSET S /\ Below(t) \in SUBSET S /\ Below(u) \in Belows
    OBVIOUS
  <2>6. Below(u) # Below(t)
    BY <2>3, <2>4
  <2> HIDE DEF Below, Belows
  <2>7. <<Below(u), Below(t)>> \in StrictSubsetOrdering(S)
    BY <2>2, <2>5, <2>6 DEF StrictSubsetOrdering
  <2> QED
    BY <1>4, <2>5, <2>7
<1> QED
  BY <1>5

\* What changes when a scrape takes a step.
LEMMA OnlyOneChanges ==
  ASSUME OpenbaoInv, NEW s \in Scrapes, NEW r \in Responses, Become(s, r)
  PROVE  /\ scrape' \in [Scrapes -> Responses] /\ scrape'[s] = r
         /\ \A t \in Scrapes \ {s} : scrape'[t] = scrape[t]
BY DEF Become, OpenbaoInv, OpenbaoTypes

\* A step within a scrape leaves its time, and that it runs, as they are.
LEMMA StepKeepsOverlapping ==
  ASSUME OpenbaoInv, NEW s \in Running, NEW r \in Responses, Become(s, r),
         r.begun = scrape[s].begun, r.floor = scrape[s].floor, time' = time
  PROVE  Overlapping'
<1>1. s \in Scrapes /\ Overlapping
  BY DEF Running, OpenbaoInv
<1>2. /\ scrape'[s] = r
      /\ \A t \in Scrapes \ {s} : scrape'[t] = scrape[t]
  BY <1>1, OnlyOneChanges
<1>3. Running' \subseteq Running
  BY <1>1, <1>2 DEF Running
<1>4. \A t \in Running : /\ scrape'[t].begun = scrape[t].begun
                         /\ scrape'[t].floor = scrape[t].floor
  BY <1>1, <1>2 DEF Running
<1> QED
  BY <1>1, <1>3, <1>4 DEF Overlapping

LEMMA OpenbaoInvInit == OpenbaoInit => OpenbaoInv
<1> SUFFICES ASSUME OpenbaoInit PROVE OpenbaoInv
  OBVIOUS
<1>1. Idle \in Responses /\ Idle.step = "idle" /\ Idle.up = FALSE
  BY DEF Idle, Responses
<1>2. time = 1 /\ members = {} /\ native = 0 /\ \A s \in Scrapes : scrape[s] = Idle
  BY DEF OpenbaoInit
<1>3. scrape \in [Scrapes -> Responses]
  BY <1>1 DEF OpenbaoInit
<1> QED
  BY <1>1, <1>2, <1>3
     DEF OpenbaoInv, OpenbaoTypes, Overlapping, Running, FreshTexts, PeersKept

LEMMA StartKeepsOpenbao ==
  ASSUME OpenbaoInv, NEW s \in Scrapes, StartScrape(s) PROVE OpenbaoInv'
<1> DEFINE begins == {scrape[t].begun : t \in Running} \union {time}
           r == [Idle EXCEPT !.step = "health", !.begun = time,
                             !.floor = Least(begins)]
<1>1. /\ OpenbaoTypes /\ Overlapping /\ FreshTexts /\ PeersKept
      /\ scrape[s].step = "idle" /\ Become(s, r)
      /\ UNCHANGED <<time, members, native>>
  BY DEF StartScrape, OpenbaoInv
<1>2. begins \in SUBSET Nat /\ time \in begins /\ time \in Nat
  BY <1>1 DEF OpenbaoTypes, Responses, Running
<1>3. Least(begins) \in begins /\ \A b \in begins : Least(begins) <= b
  <2>1. \E x \in begins : \A y \in begins : x <= y
    BY <1>2, LeastNumber
  <2> HIDE DEF begins
  <2> QED
    BY <2>1 DEF Least
<1>4. /\ r \in Responses /\ r.step = "health" /\ r.begun = time
      /\ r.floor = Least(begins)
  <2>1. Least(begins) \in Nat
    BY <1>2, <1>3
  <2> HIDE DEF begins
  <2> QED
    BY <1>2, <2>1 DEF Idle, Responses
<1>5. /\ scrape' \in [Scrapes -> Responses] /\ scrape'[s] = r
      /\ \A t \in Scrapes \ {s} : scrape'[t] = scrape[t]
  <2> HIDE DEF r
  <2> QED
    BY <1>1, <1>4, OnlyOneChanges
<1>6. Running' = Running \union {s} /\ s \notin Running
  <2> HIDE DEF r
  <2> QED
    BY <1>1, <1>4, <1>5 DEF Running
<1>7. Overlapping'
  <2>1. \A t \in Running : scrape'[t] = scrape[t] /\ scrape[t].begun \in begins
    BY <1>5, <1>6 DEF Running
  <2>2. \A t \in Running : /\ scrape[t].floor \in Nat /\ scrape[t].begun \in Nat
    BY <1>1 DEF OpenbaoTypes, Responses, Running
  <2>3. \A t \in Running : /\ scrape[t].floor <= time /\ r.floor <= scrape[t].begun
    <3> HIDE DEF r, begins
    <3> QED
      BY <1>1, <1>2, <1>3, <1>4, <2>1, <2>2 DEF Overlapping
  <2>4. r.floor <= time /\ r.begun = time
    <3> HIDE DEF r, begins
    <3> QED
      BY <1>2, <1>3, <1>4
  <2> HIDE DEF r, begins
  <2> QED
    BY <1>1, <1>2, <1>5, <1>6, <2>1, <2>3, <2>4 DEF Overlapping
<1>8. FreshTexts' /\ PeersKept' /\ OpenbaoTypes'
  <2> HIDE DEF r
  <2> QED
    BY <1>1, <1>4, <1>5 DEF FreshTexts, PeersKept, OpenbaoTypes
<1> QED
  BY <1>7, <1>8 DEF OpenbaoInv

\* A step that stores no text and changes no list: only its own scrape moves.
LEMMA StepKeepsOpenbao ==
  ASSUME OpenbaoInv, NEW s \in Scrapes, NEW r \in Responses, Become(s, r),
         UNCHANGED <<time, members, native>>, scrape[s].step # "idle",
         r.begun = scrape[s].begun, r.floor = scrape[s].floor,
         r.step = "store" => FreshSince(r.text, r.begun),
         r.step = "serve" /\ r.up = TRUE => FreshSince(native, r.floor),
         r.step = "idle" /\ r.up = TRUE => FreshSince(r.served, r.floor),
         r.step = "leaders" => r.peers = Peers(r.copy),
         r.step \in {"fetch", "store"} => Matching(r),
         r.step \in {"serve", "idle"} /\ r.up = TRUE => Matching(r)
  PROVE  OpenbaoInv'
<1>1. /\ scrape' \in [Scrapes -> Responses] /\ scrape'[s] = r
      /\ \A t \in Scrapes \ {s} : scrape'[t] = scrape[t]
  BY OnlyOneChanges
<1>2. OpenbaoTypes /\ FreshTexts /\ PeersKept
  BY DEF OpenbaoInv
<1>3. OpenbaoTypes'
  BY <1>1, <1>2 DEF OpenbaoTypes
<1>4. Overlapping'
  BY StepKeepsOverlapping DEF Running
<1>5. FreshTexts'
  BY <1>1, <1>2 DEF FreshTexts
<1>6. PeersKept'
  <2> HIDE DEF Matching, Peers
  <2>1. \A t \in Scrapes \ {s} : Matching(scrape'[t]) <=> Matching(scrape[t])
    BY <1>1
  <2>2. Matching(scrape'[s]) <=> Matching(r)
    BY <1>1
  <2> QED
    BY <1>1, <1>2, <2>1, <2>2 DEF PeersKept
<1> QED
  BY <1>3, <1>4, <1>5, <1>6 DEF OpenbaoInv

LEMMA HealthKeepsOpenbao ==
  ASSUME OpenbaoInv, NEW s \in Scrapes, NEW up \in BOOLEAN, Health(s, up)
  PROVE  OpenbaoInv'
<1> DEFINE r == [scrape[s] EXCEPT !.up = up,
                                 !.step = IF up THEN "members" ELSE "serve"]
<1>1. scrape[s] \in Responses
  BY DEF OpenbaoInv, OpenbaoTypes
<1>2. /\ r \in Responses /\ r.begun = scrape[s].begun /\ r.floor = scrape[s].floor
      /\ r.step = IF up THEN "members" ELSE "serve"
      /\ r.up = up
  BY <1>1 DEF Responses
<1>3. /\ scrape[s].step = "health" /\ Become(s, r)
      /\ UNCHANGED <<time, members, native>>
  BY DEF Health
<1> HIDE DEF r
<1> QED
  BY <1>2, <1>3, StepKeepsOpenbao

LEMMA ReadMembersKeepsOpenbao ==
  ASSUME OpenbaoInv, NEW s \in Scrapes, ReadMembers(s) PROVE OpenbaoInv'
<1> DEFINE r == [scrape[s] EXCEPT !.copy = members, !.step = "leaders",
                                 !.peers = Peers(members)]
<1>1. scrape[s] \in Responses /\ members \in Configs \union {{}}
  BY DEF OpenbaoInv, OpenbaoTypes
<1>2. Peers(members) \in Nat
  <2>1. IsFiniteSet(members)
    BY <1>1, OpenbaoAssumption, FS_EmptySet
  <2>2. Cardinality(members) \in Nat
    BY <2>1, FS_CardinalityType
  <2> QED
    BY <2>2 DEF Peers
<1>3. /\ r \in Responses /\ r.begun = scrape[s].begun /\ r.floor = scrape[s].floor
      /\ r.step = "leaders" /\ r.copy = members /\ r.peers = Peers(members)
  BY <1>1, <1>2 DEF Responses
<1>4. /\ scrape[s].step = "members" /\ Become(s, r)
      /\ UNCHANGED <<time, members, native>>
  BY DEF ReadMembers, Peers
<1> HIDE DEF r
<1> QED
  BY <1>3, <1>4, StepKeepsOpenbao

LEMMA EmitLeadersKeepsOpenbao ==
  ASSUME OpenbaoInv, NEW s \in Scrapes, EmitLeaders(s) PROVE OpenbaoInv'
<1> DEFINE r == [scrape[s] EXCEPT !.leaders = Leaders(s), !.copy = {},
                                 !.step = "fetch"]
<1>1. scrape[s] \in Responses /\ scrape[s].copy \in Configs \union {{}}
  BY DEF OpenbaoInv, OpenbaoTypes, Responses
<1>2. Leaders(s) = LeadersOf(scrape[s].copy) /\ Leaders(s) \in SUBSET Nodes
  BY <1>1 DEF Leaders, LeadersOf, Nodes
<1>3. /\ r \in Responses /\ r.begun = scrape[s].begun /\ r.floor = scrape[s].floor
      /\ r.step = "fetch" /\ r.leaders = Leaders(s) /\ r.peers = scrape[s].peers
  BY <1>1, <1>2 DEF Responses
<1>4. /\ scrape[s].step = "leaders" /\ Become(s, r)
      /\ UNCHANGED <<time, members, native>>
  BY DEF EmitLeaders
<1> HIDE DEF r
<1>5. scrape[s].peers = Peers(scrape[s].copy)
  BY <1>4 DEF OpenbaoInv, PeersKept
<1>6. Matching(r)
  BY <1>1, <1>2, <1>3, <1>5 DEF Matching
<1> QED
  BY <1>3, <1>4, <1>6, StepKeepsOpenbao

LEMMA FetchKeepsOpenbao ==
  ASSUME OpenbaoInv, NEW s \in Scrapes, FetchText(s) \/ FetchFails(s)
  PROVE  OpenbaoInv'
<1>1. /\ scrape[s] \in Responses /\ scrape[s].step = "fetch" /\ time \in Nat
      /\ UNCHANGED <<time, members, native>>
  BY DEF OpenbaoInv, OpenbaoTypes, FetchText, FetchFails
<1>2. scrape[s].begun <= time
  BY <1>1 DEF OpenbaoInv, Overlapping, Running
<1>3. Matching(scrape[s])
  BY <1>1 DEF OpenbaoInv, PeersKept
<1>4. PICK text \in {time, 0} :
        Become(s, [scrape[s] EXCEPT !.text = text, !.step = "store"])
  BY DEF FetchText, FetchFails
<1> DEFINE r == [scrape[s] EXCEPT !.text = text, !.step = "store"]
<1>5. /\ r \in Responses /\ r.begun = scrape[s].begun /\ r.floor = scrape[s].floor
      /\ r.step = "store" /\ r.text = text
      /\ r.leaders = scrape[s].leaders /\ r.peers = scrape[s].peers
  <2>1. text \in Nat
    BY <1>1
  <2> QED
    BY <1>1, <2>1 DEF Responses
<1> HIDE DEF r
<1>6. FreshSince(r.text, r.begun)
  BY <1>1, <1>2, <1>4, <1>5 DEF FreshSince, Responses
<1>7. Matching(r)
  BY <1>3, <1>5 DEF Matching
<1>8. Become(s, r)
  BY <1>4 DEF r
<1> QED
  BY <1>1, <1>5, <1>6, <1>7, <1>8, StepKeepsOpenbao

\* What is stored is new enough for every scrape that will serve it.
LEMMA StoreKeepsOpenbao ==
  ASSUME OpenbaoInv, NEW s \in Scrapes, StoreText(s) PROVE OpenbaoInv'
<1> DEFINE r == [scrape[s] EXCEPT !.text = 0, !.step = "serve"]
<1>1. /\ scrape[s] \in Responses /\ scrape[s].step = "store" /\ Become(s, r)
      /\ native' = scrape[s].text /\ UNCHANGED <<time, members>>
      /\ OpenbaoTypes /\ Overlapping /\ FreshTexts /\ PeersKept
  BY DEF OpenbaoInv, OpenbaoTypes, StoreText, Stored
<1>2. /\ r \in Responses /\ r.begun = scrape[s].begun /\ r.floor = scrape[s].floor
      /\ r.step = "serve" /\ r.leaders = scrape[s].leaders
      /\ r.peers = scrape[s].peers
  BY <1>1 DEF Responses
<1> HIDE DEF r
<1>3. /\ scrape' \in [Scrapes -> Responses] /\ scrape'[s] = r
      /\ \A t \in Scrapes \ {s} : scrape'[t] = scrape[t]
  BY <1>1, <1>2, OnlyOneChanges
<1>4. OpenbaoTypes'
  BY <1>1, <1>3 DEF OpenbaoTypes, Responses
<1>5. Overlapping'
  BY <1>1, <1>2, StepKeepsOverlapping DEF Running
<1>6. \A t \in Running : FreshSince(native', scrape[t].floor)
  <2> SUFFICES ASSUME NEW t \in Running PROVE FreshSince(native', scrape[t].floor)
    OBVIOUS
  <2>1. /\ scrape[t].floor \in Nat /\ scrape[s].begun \in Nat /\ scrape[s].text \in Nat
    BY <1>1 DEF OpenbaoTypes, Responses, Running
  <2>2. scrape[t].floor <= scrape[s].begun
    BY <1>1 DEF Overlapping, Running
  <2>3. FreshSince(scrape[s].text, scrape[s].begun)
    BY <1>1 DEF FreshTexts
  <2> QED
    BY <1>1, <2>1, <2>2, <2>3 DEF FreshSince
<1>7. FreshTexts'
  BY <1>1, <1>2, <1>3, <1>6 DEF FreshTexts, Running
<1>8. PeersKept'
  <2>1. Matching(r) <=> Matching(scrape[s])
    BY <1>2 DEF Matching
  <2> QED
    BY <1>1, <1>2, <1>3, <2>1 DEF PeersKept
<1> QED
  BY <1>4, <1>5, <1>7, <1>8 DEF OpenbaoInv

LEMMA ServeKeepsOpenbao ==
  ASSUME OpenbaoInv, NEW s \in Scrapes, ServeText(s) PROVE OpenbaoInv'
<1> DEFINE r == [scrape[s] EXCEPT !.served = native, !.step = "idle"]
<1>1. /\ scrape[s] \in Responses /\ scrape[s].step = "serve" /\ Become(s, r)
      /\ native \in Nat /\ UNCHANGED <<time, members, native>>
  BY DEF OpenbaoInv, OpenbaoTypes, ServeText
<1>2. /\ r \in Responses /\ r.begun = scrape[s].begun /\ r.floor = scrape[s].floor
      /\ r.step = "idle" /\ r.served = native /\ r.up = scrape[s].up
      /\ r.leaders = scrape[s].leaders /\ r.peers = scrape[s].peers
  BY <1>1 DEF Responses
<1> HIDE DEF r
<1>3. r.up = TRUE => FreshSince(r.served, r.floor)
  BY <1>1, <1>2 DEF OpenbaoInv, FreshTexts
<1>4. r.up = TRUE => Matching(r)
  <2>1. Matching(r) <=> Matching(scrape[s])
    BY <1>2 DEF Matching
  <2> QED
    BY <1>1, <1>2, <2>1 DEF OpenbaoInv, PeersKept
<1> QED
  BY <1>1, <1>2, <1>3, <1>4, StepKeepsOpenbao

\* Discovery replaces a list no scrape looks at again; time goes on.
LEMMA WorldKeepsOpenbao ==
  ASSUME OpenbaoInv, (\E c \in Configs : Discover(c)) \/ Pass
  PROVE  OpenbaoInv'
<1>1. /\ UNCHANGED <<native, scrape>> /\ members' \in Configs \union {{}}
      /\ time' = time \/ time' = time + 1
  BY DEF Discover, Pass, OpenbaoInv, OpenbaoTypes
<1>2. /\ time \in Nat /\ time' \in Nat /\ time <= time'
      /\ scrape \in [Scrapes -> Responses]
  BY <1>1 DEF OpenbaoInv, OpenbaoTypes
<1>3. Running' = Running
  BY <1>1 DEF Running
<1>4. \A s \in Running : scrape[s].begun \in Nat
  BY <1>2 DEF Running, Responses
<1>5. Overlapping'
  BY <1>1, <1>2, <1>3, <1>4 DEF OpenbaoInv, Overlapping
<1> QED
  BY <1>1, <1>2, <1>5 DEF OpenbaoInv, OpenbaoTypes, FreshTexts, PeersKept

LEMMA OpenbaoInvStep ==
  ASSUME OpenbaoInv, [OpenbaoNext]_openbaoVars PROVE OpenbaoInv'
<1>1. CASE UNCHANGED openbaoVars
  BY <1>1 DEF openbaoVars, OpenbaoInv, OpenbaoTypes, Overlapping, Running,
              FreshTexts, PeersKept
<1>2. CASE OpenbaoNext
  BY <1>2, StartKeepsOpenbao, HealthKeepsOpenbao, ReadMembersKeepsOpenbao,
     EmitLeadersKeepsOpenbao, FetchKeepsOpenbao, StoreKeepsOpenbao,
     ServeKeepsOpenbao, WorldKeepsOpenbao DEF OpenbaoNext
<1> QED
  BY <1>1, <1>2

\* However many scrapes overlap, and whenever discovery replaces the members,
\* what openbao_exporter serves is no older than the scrapes a response
\* overlapped with, and its peers are those of one list (openbao.go, Collect).
THEOREM ResponsesBelongTogether == Spec => []OpenbaoResponses
<1>1. Init => OpenbaoInv
  BY OpenbaoInvInit DEF Init
<1>2. OpenbaoInv /\ [Next]_vars => OpenbaoInv'
  BY OpenbaoInvStep, ExportersStep
<1>3. OpenbaoInv => OpenbaoResponses
  <2> SUFFICES ASSUME OpenbaoInv PROVE OpenbaoResponses
    OBVIOUS
  <2>1. FreshTexts /\ PeersKept
    BY DEF OpenbaoInv
  <2>2. OpenbaoServesFresh
    BY <2>1 DEF FreshTexts, FreshSince, OpenbaoServesFresh
  <2>3. OpenbaoPeersMatch
    BY <2>1 DEF PeersKept, Matching, Peers, OpenbaoPeersMatch
  <2> QED
    BY <2>2, <2>3 DEF OpenbaoResponses
<1> QED
  BY <1>1, <1>2, <1>3, PTL DEF Spec

-----------------------------------------------------------------------------
\* The scrapes of libvirt.  A domain that has run since a scrape began is in
\* what was listed, then among those to go with the series of the calls
\* before this one, and then has them all.
HasSeries(d, kind) ==
  [kind |-> kind, uuid |-> d.uuid, name |-> d.name, from |-> d] \in series
KindsBefore ==
  {"state"} \union (IF step # "memory" THEN {"memory"} ELSE {})
            \union (IF step = "interface" THEN {"block"} ELSE {})
HasAllSeries(d) ==
  \A kind \in {"state", "memory", "block", "interface"} : HasSeries(d, kind)
Waiting(d) ==
  \E i \in 1..Len(todo) :
    /\ todo[i] = d /\ HasSeries(d, "state")
    /\ i = 1 => \A kind \in KindsBefore : HasSeries(d, kind)

LibvirtTypes ==
  /\ daemon \in BOOLEAN /\ present \subseteq Domains
  /\ steady \subseteq running /\ running \subseteq present
  /\ step \in {"idle", "host", "list", "extract", "memory", "block",
               "interface"}
  /\ todo \in Seq(Domains) /\ (Asking <=> todo # <<>>)
  /\ opened \in {0, 1} /\ found \subseteq Domains

\* Connections, and what a call found.
LibvirtCalls ==
  /\ step \in {"idle", "host", "list"} => opened = 0
  /\ step = "extract" => opened = 1 /\ steady \subseteq found
  /\ Asking /\ opened = 1 => found = {Head(todo)}
  /\ daemon = FALSE => steady = {}

LibvirtProgress ==
  /\ step \in {"host", "list", "extract"} => series = {}
  /\ Asking => \A d \in steady : HasAllSeries(d) \/ Waiting(d)
  /\ step = "idle" /\ series # {} => \A d \in steady : HasAllSeries(d)

LibvirtInv ==
  LibvirtTypes /\ LibvirtCalls /\ LibvirtProgress /\ LibvirtOwnStatistics

LEMMA LibvirtInvInit == LibvirtInit => LibvirtInv
<1> SUFFICES ASSUME LibvirtInit PROVE LibvirtInv
  OBVIOUS
<1>1. <<>> \in Seq(Domains)
  BY EmptySeq
<1> QED
  BY <1>1 DEF LibvirtInit, LibvirtInv, LibvirtTypes, LibvirtCalls,
              LibvirtProgress, LibvirtOwnStatistics, Asking

\* What happens to the host: fewer domains are steady, and nothing that was
\* found or emitted changes.
LEMMA HostKeepsLibvirt ==
  ASSUME LibvirtInv, \/ \E d \in Domains : Define(d) \/ Start(d) \/ Stop(d) \/ Destroy(d)
                     \/ \E up \in BOOLEAN : Daemon(up)
  PROVE  LibvirtInv'
<1>1. UNCHANGED <<step, todo, opened, found, series>>
  BY DEF Define, Start, Stop, Destroy, Daemon, scraping
<1>2. LibvirtTypes /\ LibvirtCalls /\ LibvirtProgress /\ LibvirtOwnStatistics
  BY DEF LibvirtInv
<1>3. /\ daemon' \in BOOLEAN /\ present' \subseteq Domains
      /\ steady' \subseteq running' /\ running' \subseteq present'
      /\ steady' \subseteq steady /\ (daemon' = FALSE => steady' = {})
  BY <1>2 DEF LibvirtTypes, LibvirtCalls, Define, Start, Stop, Destroy, Daemon
<1>4. \A d : (HasAllSeries(d))' = HasAllSeries(d) /\ (Waiting(d))' = Waiting(d)
  BY <1>1 DEF HasAllSeries, Waiting, HasSeries, KindsBefore
<1>5. LibvirtTypes' /\ LibvirtCalls' /\ LibvirtOwnStatistics'
  BY <1>1, <1>2, <1>3 DEF LibvirtTypes, LibvirtCalls, LibvirtOwnStatistics, Asking
<1>6. LibvirtProgress'
  BY <1>1, <1>2, <1>3, <1>4 DEF LibvirtProgress, Asking
<1> QED
  BY <1>5, <1>6 DEF LibvirtInv

LEMMA ListingKeepsLibvirt ==
  ASSUME LibvirtInv, Available \/ HostMetrics \/ ListAll \/ ListFails
  PROVE  LibvirtInv'
<1> USE DEF LibvirtInv, LibvirtTypes, LibvirtCalls, LibvirtProgress,
            LibvirtOwnStatistics, Asking
<1>1. CASE Available
  BY <1>1 DEF Available
<1>2. CASE HostMetrics
  BY <1>2 DEF HostMetrics, world
<1>3. CASE ListAll
  BY <1>3 DEF ListAll, world
<1>4. CASE ListFails
  BY <1>4 DEF ListFails, world
<1> QED
  BY <1>1, <1>2, <1>3, <1>4

\* The domains that have answered are put in some order, all of them.
LEMMA OrderIsComplete ==
  ASSUME NEW S, IsFiniteSet(S), S \subseteq Domains,
         NEW order \in [1..Cardinality(S) -> S],
         \A i, j \in DOMAIN order : i # j => order[i] # order[j]
  PROVE  /\ order \in Seq(Domains) /\ Len(order) = Cardinality(S)
         /\ \A d \in S : \E i \in 1..Len(order) : order[i] = d
         /\ order = <<>> <=> Len(order) = 0
<1>1. Cardinality(S) \in Nat
  BY FS_CardinalityType
<1>2. order \in Seq(S) /\ Len(order) = Cardinality(S)
  <2>1. order \in UNION {[1..n -> S] : n \in Nat}
    BY <1>1
  <2>2. order \in Seq(S)
    BY <2>1, SeqDef
  <2>3. DOMAIN order = 1..Len(order) /\ DOMAIN order = 1..Cardinality(S) /\ Len(order) \in Nat
    BY <2>2, LenProperties
  <2> QED
    BY <1>1, <2>2, <2>3
<1>3. order \in Seq(Domains)
  BY <1>2, SeqMonotonic
<1>4. order \in Injection(1..Cardinality(S), S)
  BY DEF Injection, IsInjective
<1>5. Cardinality(1..Cardinality(S)) = Cardinality(S)
  BY <1>1, FS_Interval
<1>6. order \in Surjection(1..Cardinality(S), S)
  BY <1>4, <1>5, FS_Injection
<1>7. \A d \in S : \E i \in 1..Cardinality(S) : order[i] = d
  BY <1>6 DEF Surjection
<1>8. order = <<>> <=> Len(order) = 0
  BY <1>3, EmptySeq
<1> QED
  BY <1>2, <1>3, <1>7, <1>8

LEMMA ExtractKeepsLibvirt == ASSUME LibvirtInv, Extract PROVE LibvirtInv'
<1>1. /\ LibvirtTypes /\ LibvirtCalls /\ LibvirtProgress /\ LibvirtOwnStatistics
      /\ step = "extract" /\ opened' = opened - 1 /\ found' = {}
      /\ UNCHANGED <<daemon, present, running>>
  BY DEF Extract, LibvirtInv
<1>2. PICK told \in SUBSET found :
        /\ \E order \in [1..Cardinality(told) -> told] :
             /\ \A i, j \in DOMAIN order : i # j => order[i] # order[j]
             /\ todo' = order
             /\ step' = IF order = <<>> THEN "idle" ELSE "memory"
             /\ series' = {Base(d) : d \in {order[i] : i \in DOMAIN order}}
        /\ steady' = steady \ (found \ told)
  BY DEF Extract
<1>3. PICK order \in [1..Cardinality(told) -> told] :
        /\ \A i, j \in DOMAIN order : i # j => order[i] # order[j]
        /\ todo' = order
        /\ step' = IF order = <<>> THEN "idle" ELSE "memory"
        /\ series' = {Base(d) : d \in {order[i] : i \in DOMAIN order}}
  BY <1>2
<1>4. told \subseteq Domains /\ IsFiniteSet(told)
  BY <1>1, LibvirtAssumption, FS_Subset DEF LibvirtTypes
<1>5. /\ order \in Seq(Domains)
      /\ \A d \in told : \E i \in 1..Len(order) : order[i] = d
      /\ order = <<>> <=> Len(order) = 0
  BY <1>3, <1>4, OrderIsComplete
<1>6. DOMAIN order = 1..Len(order) /\ Len(order) \in Nat
  BY <1>5, LenProperties
<1>7. steady' \subseteq told /\ steady' \subseteq steady
  BY <1>1, <1>2 DEF LibvirtTypes, LibvirtCalls
<1>8. LibvirtTypes'
  BY <1>1, <1>3, <1>5, <1>7 DEF LibvirtTypes, LibvirtCalls, Asking
<1>9. LibvirtCalls'
  BY <1>1, <1>3, <1>7 DEF LibvirtCalls, LibvirtTypes, Asking
<1>10. LibvirtOwnStatistics'
  BY <1>3 DEF Base, LibvirtOwnStatistics
<1>11. ASSUME NEW d \in steady' PROVE order # <<>> /\ Waiting(d)'
  <2>1. PICK i \in 1..Len(order) : order[i] = d
    BY <1>5, <1>7
  <2>2. order # <<>>
    BY <1>5, <1>6, <2>1
  <2>3. step' = "memory" /\ todo' = order
    BY <1>3, <2>2
  <2>4. HasSeries(d, "state")'
    BY <1>3, <1>6, <2>1 DEF HasSeries, Base
  <2>5. KindsBefore' = {"state"}
    BY <2>3 DEF KindsBefore
  <2> QED
    BY <2>1, <2>2, <2>3, <2>4, <2>5 DEF Waiting
<1>12. LibvirtProgress'
  BY <1>1, <1>3, <1>11 DEF LibvirtProgress, Asking
<1> QED
  BY <1>8, <1>9, <1>10, <1>12 DEF LibvirtInv

\* Where the calls of a domain stand.
LEMMA IndexOfCall ==
  /\ step = "memory" => CallIndex = 1
  /\ step = "block" => CallIndex = 2
  /\ step = "interface" => CallIndex = 3
  /\ Calls[2] = "block" /\ Calls[3] = "interface"
<1>1. Calls[1] = "memory" /\ Calls[2] = "block" /\ Calls[3] = "interface"
  BY DEF Calls
<1>2. \A i \in 1..3 : i = 1 \/ i = 2 \/ i = 3
  OBVIOUS
<1> QED
  BY <1>1, <1>2 DEF CallIndex

\* A call is over: its series are there if its domain is steady.
LEMMA NextCallKeepsLibvirt ==
  ASSUME LibvirtInv, Asking, NextCall, UNCHANGED world,
         opened' = 0, found' \subseteq Domains,
         LibvirtOwnStatistics', series \subseteq series',
         Head(todo) \in steady =>
           [kind |-> step, uuid |-> Head(todo).uuid, name |-> Head(todo).name,
            from |-> Head(todo)] \in series'
  PROVE  LibvirtInv'
<1>1. /\ LibvirtTypes /\ LibvirtCalls /\ LibvirtProgress
      /\ UNCHANGED <<daemon, present, running, steady>>
  BY DEF LibvirtInv, world
<1>2. /\ todo \in Seq(Domains) /\ todo # <<>> /\ Len(todo) \in Nat \ {0}
      /\ Head(todo) = todo[1] /\ Tail(todo) \in Seq(Domains)
      /\ Len(Tail(todo)) = Len(todo) - 1
      /\ \A i \in 1..Len(Tail(todo)) : Tail(todo)[i] = todo[i + 1]
  BY <1>1, EmptySeq, HeadTailProperties DEF LibvirtTypes
<1>3. \A d, kind : HasSeries(d, kind) => HasSeries(d, kind)'
  BY DEF HasSeries
<1>4. \A d : HasAllSeries(d) => HasAllSeries(d)'
  BY <1>3 DEF HasAllSeries
<1>5. CASE step \in {"memory", "block"}
  <2>1. /\ todo' = todo
        /\ \/ step = "memory" /\ step' = "block"
           \/ step = "block" /\ step' = "interface"
    BY <1>5, IndexOfCall DEF NextCall
  <2>2. LibvirtTypes' /\ LibvirtCalls'
    BY <1>1, <2>1 DEF LibvirtTypes, LibvirtCalls, Asking
  <2>3. \A d \in steady : Waiting(d) => Waiting(d)'
    <3> SUFFICES ASSUME NEW d \in steady, Waiting(d) PROVE Waiting(d)'
      OBVIOUS
    <3>1. PICK i \in 1..Len(todo) :
            /\ todo[i] = d /\ HasSeries(d, "state")
            /\ i = 1 => \A kind \in KindsBefore : HasSeries(d, kind)
      BY DEF Waiting
    <3>2. KindsBefore' = KindsBefore \union {step}
      BY <2>1 DEF KindsBefore
    <3>3. i = 1 => [kind |-> step, uuid |-> d.uuid, name |-> d.name, from |-> d]
                     \in series'
      BY <1>2, <3>1
    <3>4. i = 1 => \A kind \in KindsBefore \union {step} : HasSeries(d, kind)'
      BY <1>3, <3>1, <3>3 DEF HasSeries
    <3> QED
      BY <1>3, <2>1, <3>1, <3>2, <3>4 DEF Waiting
  <2>4. LibvirtProgress'
    BY <1>1, <1>4, <2>1, <2>3 DEF LibvirtProgress, Asking
  <2> QED
    BY <2>2, <2>4 DEF LibvirtInv
<1>6. CASE step = "interface"
  <2>1. todo' = Tail(todo) /\ step' = IF Len(todo) = 1 THEN "idle" ELSE "memory"
    BY <1>6, IndexOfCall DEF NextCall
  <2>2. todo' \in Seq(Domains) /\ (todo' = <<>> <=> Len(todo) = 1)
    BY <1>2, <2>1, EmptySeq
  <2>3. LibvirtTypes' /\ LibvirtCalls'
    BY <1>1, <2>1, <2>2 DEF LibvirtTypes, LibvirtCalls, Asking
  <2>4. ASSUME NEW d \in steady, Waiting(d)
        PROVE  HasAllSeries(d)' \/ (Len(todo) # 1 /\ Waiting(d)')
    <3>1. PICK i \in 1..Len(todo) :
            /\ todo[i] = d /\ HasSeries(d, "state")
            /\ i = 1 => \A kind \in KindsBefore : HasSeries(d, kind)
      BY <2>4 DEF Waiting
    <3>2. CASE i = 1
      <4>1. KindsBefore = {"state", "memory", "block"}
        BY <1>6 DEF KindsBefore
      <4>2. [kind |-> "interface", uuid |-> d.uuid, name |-> d.name, from |-> d]
              \in series'
        BY <1>2, <1>6, <3>1, <3>2
      <4> QED
        BY <1>3, <3>1, <3>2, <4>1, <4>2 DEF HasAllSeries, HasSeries
    <3>3. CASE i # 1
      <4>1. Len(todo) # 1 /\ i - 1 \in 1..Len(Tail(todo)) /\ (i - 1) + 1 = i
        BY <1>2, <3>1, <3>3
      <4>2. Tail(todo)[i - 1] = d
        BY <1>2, <3>1, <4>1
      <4>3. KindsBefore' = {"state"}
        BY <2>1, <4>1 DEF KindsBefore
      <4>4. HasSeries(d, "state")'
        BY <1>3, <3>1
      <4> QED
        BY <2>1, <4>1, <4>2, <4>3, <4>4 DEF Waiting
    <3> QED
      BY <3>2, <3>3
  <2>5. LibvirtProgress'
    BY <1>1, <1>4, <2>1, <2>4 DEF LibvirtProgress, Asking
  <2> QED
    BY <2>3, <2>5 DEF LibvirtInv
<1> QED
  BY <1>5, <1>6 DEF Asking

\* A domain that is steady is found again, being the only one of its UUID.
LEMMA SteadyIsFound ==
  ASSUME LibvirtInv, Asking
  PROVE  /\ Head(todo) \in Domains /\ Lookup(Head(todo)) \subseteq {Head(todo)}
         /\ Head(todo) \in steady => /\ Lookup(Head(todo)) = {Head(todo)}
                                     /\ Head(todo) \in running /\ daemon = TRUE
<1>1. LibvirtTypes /\ LibvirtCalls /\ todo # <<>>
  BY DEF LibvirtInv, LibvirtTypes
<1>2. Head(todo) \in Domains
  BY <1>1, HeadTailProperties DEF LibvirtTypes
<1>3. Lookup(Head(todo)) \subseteq {Head(todo)}
  BY <1>1, <1>2, LibvirtAssumption DEF Lookup, LibvirtTypes
<1> QED
  BY <1>1, <1>2, <1>3 DEF Lookup, LibvirtTypes, LibvirtCalls

LEMMA CallKeepsLibvirt ==
  ASSUME LibvirtInv, Find \/ NotFound \/ Statistics \/ StatisticsFail
  PROVE  LibvirtInv'
<1>1. /\ Asking /\ LibvirtTypes /\ LibvirtCalls /\ LibvirtProgress
      /\ LibvirtOwnStatistics /\ UNCHANGED world
  BY DEF Find, NotFound, Statistics, StatisticsFail, LibvirtInv
<1>2. /\ Head(todo) \in Domains /\ Lookup(Head(todo)) \subseteq {Head(todo)}
      /\ Head(todo) \in steady => /\ Lookup(Head(todo)) = {Head(todo)}
                                  /\ Head(todo) \in running /\ daemon = TRUE
  BY <1>1, SteadyIsFound
<1>3. CASE Find
  <2>1. /\ opened' = 1 /\ found' = {Head(todo)}
        /\ UNCHANGED <<daemon, present, running, steady, step, todo, series>>
    BY <1>1, <1>2, <1>3 DEF Find, world
  <2>2. \A d : HasAllSeries(d)' = HasAllSeries(d) /\ Waiting(d)' = Waiting(d)
    BY <2>1 DEF HasAllSeries, Waiting, HasSeries, KindsBefore
  <2>3. LibvirtTypes' /\ LibvirtCalls' /\ LibvirtOwnStatistics'
    BY <1>1, <1>2, <2>1 DEF LibvirtTypes, LibvirtCalls, LibvirtOwnStatistics, Asking
  <2>4. LibvirtProgress'
    BY <1>1, <2>1, <2>2 DEF LibvirtProgress, Asking
  <2> QED
    BY <2>3, <2>4 DEF LibvirtInv
<1>4. CASE NotFound
  <2>1. /\ NextCall /\ opened = 0 /\ UNCHANGED <<opened, found, series>>
        /\ Head(todo) \notin steady
    BY <1>2, <1>4 DEF NotFound, AfterError
  <2> QED
    BY <1>1, <2>1, NextCallKeepsLibvirt DEF LibvirtTypes, LibvirtOwnStatistics
<1>5. CASE StatisticsFail
  <2>1. /\ NextCall /\ opened' = 0 /\ found' = {} /\ UNCHANGED series
        /\ Head(todo) \notin steady
    BY <1>1, <1>2, <1>5 DEF StatisticsFail, AfterError, LibvirtCalls
  <2> QED
    BY <1>1, <2>1, NextCallKeepsLibvirt DEF LibvirtOwnStatistics
<1>6. CASE Statistics
  <2>1. /\ NextCall /\ opened' = 0 /\ found' = {} /\ found = {Head(todo)}
        /\ series' = series \union
             {[kind |-> step, uuid |-> Head(todo).uuid, name |-> Head(todo).name,
               from |-> e] : e \in found}
    BY <1>1, <1>6 DEF Statistics, LibvirtCalls
  <2>2. series' = series \union
          {[kind |-> step, uuid |-> Head(todo).uuid, name |-> Head(todo).name,
            from |-> Head(todo)]}
    BY <2>1
  <2>3. LibvirtOwnStatistics'
    BY <1>1, <2>2 DEF LibvirtOwnStatistics
  <2> QED
    BY <1>1, <2>1, <2>2, <2>3, NextCallKeepsLibvirt
<1> QED
  BY <1>3, <1>4, <1>5, <1>6

LEMMA LibvirtInvStep ==
  ASSUME LibvirtInv, [LibvirtNext]_libvirtVars PROVE LibvirtInv'
<1>1. CASE UNCHANGED libvirtVars
  <2>1. UNCHANGED <<daemon, present, running, steady, step, todo, opened, found,
                    series>>
    BY <1>1 DEF libvirtVars, world
  <2>2. \A d : HasAllSeries(d)' = HasAllSeries(d) /\ Waiting(d)' = Waiting(d)
    BY <2>1 DEF HasAllSeries, Waiting, HasSeries, KindsBefore
  <2> QED
    BY <2>1, <2>2 DEF LibvirtInv, LibvirtTypes, LibvirtCalls, LibvirtProgress,
                      LibvirtOwnStatistics, Asking
<1>2. CASE LibvirtNext
  BY <1>2, HostKeepsLibvirt, ListingKeepsLibvirt, ExtractKeepsLibvirt,
     CallKeepsLibvirt DEF LibvirtNext
<1> QED
  BY <1>1, <1>2

\* Whatever domains are defined, renamed, stopped or destroyed during a scrape
\* (libvirt.go, client.go), what is published under a UUID is that domain's,
\* no connection is left, and one that ran all along has all its series.
THEOREM ScrapeIsRight == Spec => []LibvirtScrapeRight
<1>1. Init => LibvirtInv
  BY LibvirtInvInit DEF Init
<1>2. LibvirtInv /\ [Next]_vars => LibvirtInv'
  BY LibvirtInvStep, ExportersStep
<1>3. LibvirtInv => LibvirtScrapeRight
  BY DEF LibvirtInv, LibvirtCalls, LibvirtProgress, HasAllSeries, HasSeries,
         LibvirtScrapeRight, LibvirtNoneLeftOpen, LibvirtOthersUnaffected
<1> QED
  BY <1>1, <1>2, <1>3, PTL DEF Spec
-----------------------------------------------------------------------------
\* The collectors that read tables of the host.
ReadBy(c) == {Reads[c][i] : i \in DOMAIN Reads[c]}
SocketTables == {"tcp", "tcp6", "udp", "udp6"}

LEMMA ConntrackReads == Reads["conntrack"] = <<"tcp", "tcp6", "udp", "udp6", "flows">>
<1> DEFINE files == <<"tcp", "tcp6", "udp", "udp6">>
           T == SocketTables \union {"flows"}
           all == <<"tcp", "tcp6", "udp", "udp6", "flows">>
<1>1. files \in Seq(T) /\ Len(files) = 4
  BY DEF SocketTables
<1>2. <<"flows">> \in Seq(T) /\ Len(<<"flows">>) = 1
  BY DEF SocketTables
<1>3. all \in Seq(T) /\ Len(all) = 5
  BY DEF SocketTables
<1>4. /\ files \o <<"flows">> \in Seq(T)
      /\ Len(files \o <<"flows">>) = Len(files) + Len(<<"flows">>)
      /\ \A i \in 1..Len(files) + Len(<<"flows">>) :
           (files \o <<"flows">>)[i] =
             IF i <= Len(files) THEN files[i] ELSE <<"flows">>[i - Len(files)]
  <2> HIDE DEF files, T
  <2> QED
    BY <1>1, <1>2, ConcatProperties
<1>5. \A i \in 1..5 : (files \o <<"flows">>)[i] = all[i]
  BY <1>1, <1>2, <1>4
<1>6. files \o <<"flows">> = all
  <2> HIDE DEF files, T, all
  <2> QED
    BY <1>1, <1>2, <1>3, <1>4, <1>5, SeqEqual
<1> QED
  BY <1>6 DEF Reads, SocketFiles

LEMMA WhatIsRead ==
  /\ Collectors = {"arp", "iface", "netgraph", "conntrack", "tcpstate", "firewall", "ipsec"}
  /\ ReadBy("arp") = {"neighbors", "devices"}
  /\ ReadBy("iface") = {"links", "masters"}
  /\ ReadBy("netgraph") = SocketTables
  /\ ReadBy("conntrack") = SocketTables \union {"flows"}
  /\ ReadBy("tcpstate") = {"tcp", "tcp6"}
  /\ ReadBy("firewall") = {"rules", "policies"}
  /\ ReadBy("ipsec") = {"available", "sas", "stats"}
<1>2. Collectors = {"arp", "iface", "netgraph", "conntrack", "tcpstate", "firewall", "ipsec"}
  BY DEF Collectors, Reads
<1>3. ReadBy("arp") = {"neighbors", "devices"}
  BY DEF ReadBy, Reads
<1>4. ReadBy("iface") = {"links", "masters"}
  BY DEF ReadBy, Reads
<1>5. ReadBy("netgraph") = SocketTables
  BY DEF ReadBy, Reads, SocketFiles, SocketTables
<1>6. ReadBy("conntrack") = SocketTables \union {"flows"}
  BY ConntrackReads DEF ReadBy, SocketTables
<1>7. ReadBy("tcpstate") = {"tcp", "tcp6"}
  BY DEF ReadBy, Reads
<1>8. ReadBy("firewall") = {"rules", "policies"}
  BY DEF ReadBy, Reads
<1>9. ReadBy("ipsec") = {"available", "sas", "stats"}
  BY DEF ReadBy, Reads
<1> QED
  BY <1>2, <1>3, <1>4, <1>5, <1>6, <1>7, <1>8, <1>9

LEMMA ReadsAreTables ==
  /\ SocketTables \union {"neighbors", "devices", "links", "masters", "flows", "rules",
                          "policies", "available", "sas", "stats"} \subseteq Tables
  /\ \A c \in Collectors : /\ ReadBy(c) \subseteq Tables
                           /\ Reads[c] \in Seq(ReadBy(c)) /\ Reads[c] # <<>>
<1>1. \A c \in Collectors : ReadBy(c) \subseteq Tables
  BY DEF Tables, ReadBy
<1>2. \A c \in Collectors : Reads[c] \in Seq(ReadBy(c)) /\ Reads[c] # <<>>
  <2>2. Reads["conntrack"] \in Seq(ReadBy("conntrack")) /\ Reads["conntrack"] # <<>>
    BY ConntrackReads, WhatIsRead DEF SocketTables
  <2>3. /\ Reads["arp"] \in Seq(ReadBy("arp")) /\ Reads["iface"] \in Seq(ReadBy("iface"))
        /\ Reads["arp"] # <<>> /\ Reads["iface"] # <<>>
    BY WhatIsRead DEF Reads
  <2>4. /\ Reads["netgraph"] \in Seq(ReadBy("netgraph")) /\ Reads["netgraph"] # <<>>
        /\ Reads["tcpstate"] \in Seq(ReadBy("tcpstate")) /\ Reads["tcpstate"] # <<>>
    BY WhatIsRead DEF Reads, SocketFiles, SocketTables
  <2>5. /\ Reads["firewall"] \in Seq(ReadBy("firewall")) /\ Reads["firewall"] # <<>>
        /\ Reads["ipsec"] \in Seq(ReadBy("ipsec")) /\ Reads["ipsec"] # <<>>
    BY WhatIsRead DEF Reads
  <2> QED
    BY <2>2, <2>3, <2>4, <2>5, WhatIsRead
<1>3. SocketTables \union {"neighbors", "devices", "links", "masters", "flows", "rules",
                           "policies", "available", "sas", "stats"} \subseteq Tables
  BY <1>1, WhatIsRead
<1> QED
  BY <1>1, <1>2, <1>3
TablesRead ==
  /\ table = [t \in Tables |-> table[t]]
  /\ \A t \in Tables : table[t] \in Readings(t)

LEMMA ReadingsAreContents ==
  ASSUME TablesRead
  PROVE  /\ \A t \in Tables : table[t] \subseteq Contents(t)
         /\ \A f \in SocketTables : table[f] \subseteq Sockets
         /\ table["neighbors"] \subseteq Neighbors /\ table["sas"] \subseteq SAs
         /\ \A a, b \in table["links"] : a.name = b.name => a = b
         /\ \A a, b \in table["masters"] : a.name = b.name => a = b
<1>1. \A t \in Tables : table[t] \subseteq Contents(t)
  BY DEF TablesRead, Readings
<1>2. /\ \A f \in SocketTables : Contents(f) \subseteq Sockets
      /\ Contents("neighbors") = Neighbors /\ Contents("sas") = SAs
  BY DEF Contents, SocketTables, SocketRows
<1>3. /\ \A a, b \in table["links"] : a.name = b.name => a = b
      /\ \A a, b \in table["masters"] : a.name = b.name => a = b
  BY ReadsAreTables DEF TablesRead, Readings
<1> QED
  BY <1>1, <1>2, <1>3, ReadsAreTables

\* The series depend on what was read alone.
LEMMA SameTablesSameSeries ==
  ASSUME table' = table, NEW c
  PROVE  Eligible(c)' = Eligible(c)
<1>1. SocketsRead' = SocketsRead
  BY DEF SocketsRead
<1>2. /\ ArpEntries' = ArpEntries /\ IfaceSeries' = IfaceSeries
      /\ RuleSeries' = RuleSeries /\ SASeries' = SASeries
  BY DEF ArpEntries, Named, IfaceSeries, MasterType, RuleSeries, DropRejectRules, SASeries
<1>3. ListeningPorts' = ListeningPorts
  BY <1>1 DEF ListeningPorts
<1>4. Edges' = Edges /\ TcpSeries' = TcpSeries
  BY <1>1, <1>3 DEF Edges, GraphSockets, EdgeOf, Served, TcpSeries
<1>5. PortSeries' = PortSeries /\ FlowSeries' = FlowSeries
  BY <1>1, <1>3 DEF PortSeries, Served, FlowSeries
<1> QED
  BY <1>2, <1>4, <1>5 DEF Eligible

\* A collector that stops at a limit counts a finite table.
LEMMA ImageIsFinite ==
  ASSUME NEW S, NEW f, DOMAIN f = S, IsFiniteSet(S)
  PROVE  IsFiniteSet({f[x] : x \in S})
<1>1. [x \in S |-> f[x]] \in Surjection(S, {f[x] : x \in S})
  BY DEF Surjection
<1> QED
  BY <1>1, FS_Surjection

LEMMA LimitedIsFinite ==
  ASSUME TablesRead, NEW c \in Limited
  PROVE  IsFiniteSet(Eligible(c))
<1>1. SocketsRead \subseteq Sockets
  BY ReadingsAreContents DEF SocketsRead, SocketTables
<1>2. IsFiniteSet(ArpEntries)
  <2> DEFINE S == {m \in Named : m.v4}
             f == [n \in S |-> Series("arp", <<n.ip, n.device>>, n)]
  <2>1. IsFiniteSet(S)
    BY ReadingsAreContents, HostAssumption, FS_Subset DEF Named
  <2>2. ArpEntries = {f[n] : n \in S}
    BY DEF ArpEntries
  <2> QED
    BY <2>1, <2>2, ImageIsFinite
<1>3. IsFiniteSet(Edges)
  <2> DEFINE f == [s \in GraphSockets |-> Series("edge", EdgeOf(s), EdgeOf(s))]
  <2>1. IsFiniteSet(GraphSockets)
    BY <1>1, HostAssumption, FS_Subset DEF GraphSockets
  <2>2. Edges = {f[s] : s \in GraphSockets}
    BY DEF Edges
  <2> QED
    BY <2>1, <2>2, ImageIsFinite
<1>4. IsFiniteSet(TcpSeries)
  <2> DEFINE S == {x \in SocketsRead : /\ x.state \in States
                                       /\ ~({x.laddr, x.raddr} \subseteq
                                            {"0.0.0.0", "127.0.0.1", "::1", "::"})}
             f == [s \in S |-> Series("tcp", <<s.laddr, s.lport, s.raddr, s.rport, s.state>>, s)]
  <2>1. IsFiniteSet(S)
    BY <1>1, HostAssumption, FS_Subset
  <2>2. TcpSeries = {f[s] : s \in S}
    BY DEF TcpSeries
  <2> HIDE DEF S, f
  <2>3. DOMAIN f = S
    BY DEF f
  <2> QED
    BY <2>1, <2>2, <2>3, ImageIsFinite
<1> QED
  BY <1>2, <1>3, <1>4 DEF Limited, Eligible

Distinct(S) == \A a, b \in S : a.metric = b.metric /\ a.labels = b.labels => a = b

LEMMA EligibleIsDistinct ==
  ASSUME TablesRead, NEW c \in Collectors \ {"tcpstate", "firewall"}
  PROVE  Distinct(Eligible(c))
<1>1. Distinct(ArpEntries)
  <2> SUFFICES ASSUME NEW m \in Neighbors, NEW n \in Neighbors, m.v4, n.v4,
                      m.ip = n.ip, m.device = n.device
               PROVE  m = n
    BY ReadingsAreContents DEF Distinct, ArpEntries, Named, Series
  <2> QED
    BY HostAssumption
<1>2. Distinct(SASeries)
  <2> SUFFICES ASSUME NEW a \in SAs, NEW b \in SAs, SALabels(a) = SALabels(b)
               PROVE  a = b
    BY ReadingsAreContents DEF Distinct, SASeries, Series
  <2> QED
    BY HostAssumption DEF SALabels
<1>3. Distinct(Edges) /\ Distinct(PortSeries \union FlowSeries)
  <2>1. \A m, x : /\ Series(m, x, x).metric = m /\ Series(m, x, x).labels = x
    BY DEF Series
  <2>2. \A a \in Edges : \E x : a = Series("edge", x, x)
    BY DEF Edges
  <2>3. \A a \in FlowSeries : \E x : a = Series("bytes", x, x)
    BY DEF FlowSeries
  <2>4. \A a \in PortSeries : \E x : a = Series("listen", x, x) \/ a = Series("connections", x, x)
    BY DEF PortSeries
  <2>5. \A a \in Edges : a = Series(a.metric, a.labels, a.labels)
    BY <2>1, <2>2
  <2>6. \A a \in PortSeries \union FlowSeries : a = Series(a.metric, a.labels, a.labels)
    BY <2>1, <2>3, <2>4
  <2> QED
    BY <2>5, <2>6 DEF Distinct
<1>4. Distinct(IfaceSeries)
  BY ReadingsAreContents DEF Distinct, IfaceSeries, Series
<1> QED
  BY <1>1, <1>2, <1>3, <1>4, WhatIsRead DEF Eligible
\* A series that refers to another finds it in the same set.
Refers(S) ==
  \A a \in S :
    /\ a.metric \in {"connections", "bytes"} =>
         \E b \in S : b.metric = "listen" /\ SubSeq(b.labels, 1, 2) = SubSeq(a.labels, 1, 2)
    /\ a.metric \in {"bond", "bridge"} =>
         \E b \in S : b.metric = "type" /\ b.labels = <<a.labels[1], a.metric>>

LEMMA FirstTwo ==
  ASSUME NEW p, NEW q, NEW r
  PROVE  SubSeq(<<p, q, r>>, 1, 2) = <<p, q>> /\ SubSeq(<<p, q>>, 1, 2) = <<p, q>>
<1> DEFINE T == {p, q, r}
           three == <<p, q, r>>
           two == <<p, q>>
<1>1. three \in Seq(T) /\ Len(three) = 3
  OBVIOUS
<1>2. two \in Seq(T) /\ Len(two) = 2
  OBVIOUS
<1>3. three[1] = two[1] /\ three[2] = two[2] /\ two[1] \in T /\ two[2] \in T
  OBVIOUS
<1> HIDE DEF T, three, two
<1>4. /\ SubSeq(three, 1, 2) \in Seq(T) /\ Len(SubSeq(three, 1, 2)) = 2
      /\ \A i \in 1..2 : SubSeq(three, 1, 2)[i] = three[i]
  <2>1. \A i \in 1..2 : three[i] \in T
    BY <1>3
  <2>2. /\ SubSeq(three, 1, 2) \in Seq(T)
        /\ Len(SubSeq(three, 1, 2)) = IF 1 <= 2 THEN 2 - 1 + 1 ELSE 0
        /\ \A i \in 1..2 - 1 + 1 : SubSeq(three, 1, 2)[i] = three[1 + i - 1]
    BY <2>1, SubSeqProperties
  <2> QED
    BY <2>2
<1>5. \A i \in 1..2 : SubSeq(three, 1, 2)[i] = two[i]
  BY <1>3, <1>4
<1>6. SubSeq(three, 1, 2) = two
  BY <1>2, <1>4, <1>5, SeqEqual
<1>7. SubSeq(two, 1, 2) = two
  BY <1>2, SubSeqFull
<1> QED
  BY <1>6, <1>7 DEF three, two

LEMMA PortsRefer == Refers(PortSeries) /\ Refers(PortSeries \union FlowSeries)
<1>1. \A m, x : Series(m, x, x).metric = m /\ Series(m, x, x).labels = x
  BY DEF Series
<1>2. ASSUME NEW port, NEW protocol, <<port, protocol>> \in ListeningPorts
      PROVE  \E b \in PortSeries : /\ b.metric = "listen"
                                   /\ SubSeq(b.labels, 1, 2) = <<port, protocol>>
  <2>1. PICK s \in SocketsRead : Listening(s) /\ <<s.lport, Protocol(s)>> = <<port, protocol>>
    BY <1>2 DEF ListeningPorts
  <2> DEFINE labels == <<s.lport, Protocol(s), s.laddr>>
  <2>2. Series("listen", labels, labels) \in PortSeries
    BY <2>1 DEF PortSeries
  <2>3. SubSeq(labels, 1, 2) = <<port, protocol>>
    BY <2>1, FirstTwo
  <2> QED
    BY <1>1, <2>2, <2>3
<1>3. ASSUME NEW a \in PortSeries, a.metric # "listen"
      PROVE  /\ a.metric = "connections"
             /\ \E b \in PortSeries : /\ b.metric = "listen"
                                      /\ SubSeq(b.labels, 1, 2) = SubSeq(a.labels, 1, 2)
  <2>1. PICK x \in SocketsRead :
          \/ a = Series("listen", <<x.lport, Protocol(x), x.laddr>>,
                        <<x.lport, Protocol(x), x.laddr>>)
          \/ /\ Served(x)
             /\ a = Series("connections", <<x.lport, Protocol(x), x.state>>,
                           <<x.lport, Protocol(x), x.state>>)
    BY DEF PortSeries
  <2>2. /\ Served(x) /\ a.metric = "connections"
        /\ a.labels = <<x.lport, Protocol(x), x.state>>
    BY <1>1, <1>3, <2>1
  <2>3. SubSeq(a.labels, 1, 2) = <<x.lport, Protocol(x)>>
    BY <2>2, FirstTwo
  <2> QED
    BY <1>2, <2>2, <2>3 DEF Served
<1>4. ASSUME NEW a \in FlowSeries
      PROVE  /\ a.metric = "bytes"
             /\ \E b \in PortSeries : /\ b.metric = "listen"
                                      /\ SubSeq(b.labels, 1, 2) = SubSeq(a.labels, 1, 2)
  <2>1. PICK f \in table["flows"] :
          /\ <<f.port, f.protocol>> \in ListeningPorts
          /\ a = Series("bytes", <<f.port, f.protocol>>, <<f.port, f.protocol>>)
    BY DEF FlowSeries
  <2>2. a.metric = "bytes" /\ a.labels = <<f.port, f.protocol>>
    BY <1>1, <2>1
  <2>3. SubSeq(a.labels, 1, 2) = <<f.port, f.protocol>>
    BY <2>2, FirstTwo
  <2> QED
    BY <1>2, <2>1, <2>2, <2>3
<1> QED
  BY <1>3, <1>4 DEF Refers

LEMMA IfaceRefers == Refers(IfaceSeries)
<1> DEFINE TypeOf(l) == Series("type", <<l.name, l.type>>, l)
           MemberOf(l) == Series(MasterType(l), <<l.master, l.name>>, l)
           Members == {m \in table["masters"] : /\ MasterType(m) \in {"bond", "bridge"}
                                                /\ \E k \in table["links"] : k.name = m.name}
<1>1. IfaceSeries = {TypeOf(l) : l \in table["links"]} \union {MemberOf(l) : l \in Members}
  BY DEF IfaceSeries
<1>2. \A l : /\ TypeOf(l).metric = "type" /\ TypeOf(l).labels = <<l.name, l.type>>
             /\ MemberOf(l).metric = MasterType(l) /\ MemberOf(l).labels[1] = l.master
  BY DEF Series
<1>3. \A l \in Members : MasterType(l) \in {"bond", "bridge"}
  OBVIOUS
<1>4. ASSUME NEW l \in Members
      PROVE  \E m \in table["links"] : m.name = l.master /\ m.type = MasterType(l)
  BY <1>3 DEF MasterType
<1> HIDE DEF TypeOf, MemberOf, Members
<1>5. ASSUME NEW a \in IfaceSeries, a.metric # "type"
      PROVE  /\ a.metric \in {"bond", "bridge"}
             /\ \E b \in IfaceSeries : /\ b.metric = "type"
                                       /\ b.labels = <<a.labels[1], a.metric>>
  <2>1. PICK l \in Members : a = MemberOf(l)
    BY <1>1, <1>2, <1>5
  <2>2. PICK m \in table["links"] : m.name = l.master /\ m.type = MasterType(l)
    BY <1>4
  <2>3. /\ TypeOf(m) \in IfaceSeries /\ TypeOf(m).metric = "type"
        /\ TypeOf(m).labels = <<a.labels[1], a.metric>>
    BY <1>1, <1>2, <2>1, <2>2
  <2> QED
    BY <1>2, <1>3, <2>1, <2>3
<1> QED
  BY <1>5 DEF Refers

LEMMA OthersRefer ==
  ASSUME NEW c \in {"arp", "netgraph", "tcpstate", "firewall", "ipsec"},
         NEW S \in SUBSET Eligible(c)
  PROVE  Refers(S)
<1>1. \A m, x, of : Series(m, x, of).metric = m
  BY DEF Series
<1>2. \A a \in Eligible(c) : a.metric \in {"arp", "edge", "tcp", "drop", "reject", "ike_sa"}
  <2>1. \A a \in ArpEntries : a.metric = "arp"
    <3>1. \A a \in ArpEntries : \E x, of : a = Series("arp", x, of)
      BY DEF ArpEntries
    <3> QED
      BY <1>1, <3>1
  <2>2. \A a \in Edges : a.metric = "edge"
    BY <1>1 DEF Edges
  <2>3. \A a \in TcpSeries : a.metric = "tcp"
    <3>1. \A a \in TcpSeries : \E x, of : a = Series("tcp", x, of)
      BY DEF TcpSeries
    <3> QED
      BY <1>1, <3>1
  <2>4. \A a \in RuleSeries : a.metric \in {"drop", "reject"}
    <3>1. \A a \in RuleSeries : \E m, x, of : a = Series(m, x, of) /\ m \in {"drop", "reject"}
      BY DEF RuleSeries, DropRejectRules
    <3> QED
      BY <1>1, <3>1
  <2>5. \A a \in SASeries : a.metric = "ike_sa"
    BY <1>1 DEF SASeries
  <2> QED
    BY <2>1, <2>2, <2>3, <2>4, <2>5 DEF Eligible
<1> QED
  BY <1>2 DEF Refers
-----------------------------------------------------------------------------
\* One scrape of one collector.
HostTypes ==
  /\ latched \in BOOLEAN /\ obstacle \in [namespace : Namespaces, error : Errors]
  /\ latched = (obstacle.error = "lasting" \/ obstacle.namespace = "unopened")
  /\ collector \in Collectors \union {"none"}
  /\ result = [of |-> result.of, series |-> result.series, truncated |-> result.truncated,
               gauge |-> result.gauge, failed |-> result.failed]
  /\ result.of \in Collectors \union {"none"}
  /\ result.truncated \in BOOLEAN /\ result.failed \in BOOLEAN
  /\ result.gauge \in {"none", "0", "1"}

\* What is read is of the collector, and until all of it is read nothing is
\* sent; a collector without a limit sends all it has at once.
Reading ==
  /\ collector = "none" => unread = <<>>
  /\ \A c \in Collectors : collector = c =>
       /\ unread \in Seq(ReadBy(c))
       /\ result.of = c /\ ~result.truncated /\ ~result.failed /\ result.gauge = "none"
       /\ unread # <<>> \/ c \notin Limited => result.series = {}

SentIsEligible ==
  /\ Refers(result.series)
  /\ result.of = "none" => result.series = {}
  /\ \A c \in Collectors : result.of = c => result.series \subseteq Eligible(c)

LimitKept ==
  \A c \in Limited : result.of = c =>
    /\ IsFiniteSet(result.series) /\ Cardinality(result.series) <= MaxEntries
    /\ collector = "none" /\ ~result.failed =>
         /\ ~result.truncated => result.series = Eligible(c)
         /\ result.truncated => /\ Cardinality(result.series) = MaxEntries
                                /\ Cardinality(Eligible(c)) > MaxEntries

HostInv ==
  TablesRead /\ HostTypes /\ Reading /\ SentIsEligible /\ LimitKept /\ HostFirewallRecovers

LEMMA NothingRefers == Refers({}) /\ IsFiniteSet({}) /\ Cardinality({}) = 0
BY FS_EmptySet DEF Refers

LEMMA NothingRead ==
  /\ Nothing = [t \in Tables |-> Nothing[t]]
  /\ \A t \in Tables : Nothing[t] \in Readings(t)
BY DEF Nothing, Readings

LEMMA HostInvInit == HostInit => HostInv
<1> SUFFICES ASSUME HostInit PROVE HostInv
  OBVIOUS
<1>1. /\ result.of = "none" /\ result.series = {} /\ result.gauge = "none"
      /\ result.failed = FALSE /\ result.truncated = FALSE
  BY DEF HostInit, NoResult
<1>2. HostTypes
  BY <1>1 DEF HostInit, HostTypes, NoResult, NoObstacle, Namespaces, Errors
<1>3. "none" \notin Collectors /\ "none" \notin Limited
  BY WhatIsRead DEF Limited
<1> QED
  BY <1>1, <1>2, <1>3, NothingRefers, NothingRead
     DEF HostInit, HostInv, TablesRead, Reading, SentIsEligible, LimitKept,
         HostFirewallRecovers

LEMMA ProbeKeepsHost ==
  ASSUME HostInv, NEW namespace \in Namespaces, NEW error \in Errors, Probe(namespace, error)
  PROVE  HostInv'
<1> USE DEF HostInv, Probe
<1>1. result.of = "none" /\ "none" \notin Collectors /\ "none" \notin Limited
  BY WhatIsRead DEF Limited, NoResult
<1>2. HostTypes' /\ TablesRead'
  BY DEF HostTypes, TablesRead, Readings, Contents
<1>3. Reading' /\ LimitKept' /\ HostFirewallRecovers'
  BY <1>1 DEF Reading, LimitKept, HostFirewallRecovers
<1>4. SentIsEligible'
  BY <1>1 DEF SentIsEligible, Refers
<1> QED
  BY <1>2, <1>3, <1>4

LEMMA BeginKeepsHost ==
  ASSUME HostInv, NEW c \in Collectors, Begin(c)
  PROVE  HostInv'
<1> USE DEF HostInv, Begin
<1>1. /\ result'.of = c /\ result'.series = {} /\ result'.gauge = "none"
      /\ result'.failed = FALSE /\ result'.truncated = FALSE
      /\ c # "none" /\ "none" \notin Collectors
  BY WhatIsRead DEF NoResult
<1>2. HostTypes'
  BY <1>1 DEF HostTypes, NoResult
<1>3. TablesRead'
  BY NothingRead DEF TablesRead
<1>4. Reading'
  BY <1>1, ReadsAreTables DEF Reading
<1>5. SentIsEligible' /\ HostFirewallRecovers'
  BY <1>1, NothingRefers DEF SentIsEligible, HostFirewallRecovers, Refers
<1>6. LimitKept'
  BY <1>1, NothingRefers, HostAssumption DEF LimitKept
<1> QED
  BY <1>2, <1>3, <1>4, <1>5, <1>6

LEMMA BeginLatchedKeepsHost == ASSUME HostInv, BeginLatched PROVE HostInv'
<1> USE DEF HostInv, BeginLatched
<1>1. /\ result'.of = "firewall" /\ result'.series = {} /\ result'.gauge = "0"
      /\ result'.failed = FALSE /\ result'.truncated = FALSE
      /\ "firewall" \in Collectors /\ "firewall" \notin Limited /\ "none" \notin Collectors
  BY WhatIsRead DEF NoResult, Limited
<1>2. HostTypes'
  BY <1>1 DEF HostTypes, NoResult
<1>3. TablesRead'
  BY NothingRead DEF TablesRead
<1>4. Reading' /\ LimitKept'
  BY <1>1 DEF Reading, LimitKept
<1>5. SentIsEligible'
  BY <1>1, NothingRefers DEF SentIsEligible, Refers
<1>6. HostFirewallRecovers'
  BY DEF HostTypes, HostFirewallRecovers
<1> QED
  BY <1>2, <1>3, <1>4, <1>5, <1>6
\* A table that is to be read belongs to the collector that is scraped.
LEMMA NextTable ==
  ASSUME HostInv, unread # <<>>
  PROVE  /\ collector \in Collectors /\ Head(unread) \in ReadBy(collector)
         /\ Tail(unread) \in Seq(ReadBy(collector)) /\ result.series = {}
         /\ result.of = collector
<1>1. collector \in Collectors
  BY DEF HostInv, HostTypes, Reading
<1>2. unread \in Seq(ReadBy(collector)) /\ result.series = {} /\ result.of = collector
  BY <1>1 DEF HostInv, Reading
<1> QED
  BY <1>1, <1>2, HeadTailProperties

LEMMA ReadTableKeepsHost == ASSUME HostInv, ReadTable PROVE HostInv'
<1> USE DEF HostInv, ReadTable
<1>1. PICK rows \in Readings(Head(unread)) : table' = [table EXCEPT ![Head(unread)] = rows]
  OBVIOUS
<1>2. TablesRead'
  <2>1. Head(unread) \in Tables
    BY NextTable, ReadsAreTables
  <2> QED
    BY <1>1, <2>1 DEF TablesRead
<1>3. HostTypes'
  BY DEF HostTypes
<1>4. Reading'
  BY NextTable DEF Reading
<1>5. SentIsEligible'
  BY NextTable, NothingRefers DEF SentIsEligible, Refers
<1>6. LimitKept' /\ HostFirewallRecovers'
  BY NextTable, WhatIsRead DEF LimitKept, HostFirewallRecovers
<1> QED
  BY <1>2, <1>3, <1>4, <1>5, <1>6

LEMMA SentBeforeIsEligible ==
  ASSUME HostInv, unread # <<>>, NEW c \in Collectors, collector = c
  PROVE  /\ SentBefore \subseteq Eligible(c) /\ Refers(SentBefore)
         /\ c \in Limited => SentBefore = {}
<1>1. Head(unread) \in ReadBy(c)
  BY NextTable
<1>2. CASE Head(unread) = "flows"
  <2>1. c = "conntrack" /\ SentBefore = PortSeries
    BY <1>1, <1>2, WhatIsRead DEF SocketTables, SentBefore
  <2> QED
    BY <2>1, PortsRefer DEF Eligible, Limited
<1>3. CASE Head(unread) = "policies"
  <2>1. c = "firewall" /\ SentBefore = RuleSeries
    BY <1>1, <1>3, WhatIsRead DEF SocketTables, SentBefore
  <2>2. RuleSeries \subseteq Eligible(c)
    BY <2>1 DEF Eligible
  <2> QED
    BY <2>1, <2>2, OthersRefer DEF Limited
<1>4. CASE Head(unread) = "stats"
  <2>1. c = "ipsec" /\ SentBefore = SASeries
    BY <1>1, <1>4, WhatIsRead DEF SocketTables, SentBefore
  <2>2. SASeries \subseteq Eligible(c)
    BY <2>1 DEF Eligible
  <2> QED
    BY <2>1, <2>2, OthersRefer DEF Limited
<1>5. CASE Head(unread) \notin {"flows", "policies", "stats"}
  BY <1>5, NothingRefers DEF SentBefore
<1> QED
  BY <1>2, <1>3, <1>4, <1>5

LEMMA ReadFailsKeepsHost == ASSUME HostInv, ReadFails PROVE HostInv'
<1> USE DEF HostInv, ReadFails
<1> PICK c \in Collectors : collector = c
  BY NextTable
<1>1. result.of = c /\ "none" \notin Collectors
  BY NextTable, WhatIsRead
<1>2. /\ result'.of = c /\ result'.series = SentBefore /\ result'.gauge = GaugeBefore
      /\ result'.failed = TRUE /\ result'.truncated = result.truncated
  BY <1>1 DEF HostTypes
<1>3. HostTypes'
  <2>1. GaugeBefore \in {"none", "0", "1"}
    BY DEF GaugeBefore
  <2> QED
    BY <1>1, <1>2, <2>1 DEF HostTypes
<1>4. TablesRead'
  BY DEF TablesRead
<1>5. Reading'
  BY <1>1 DEF Reading
<1>6. SentIsEligible'
  <2>1. SentBefore \subseteq Eligible(c) /\ Refers(SentBefore)
    BY SentBeforeIsEligible
  <2>2. \A d : Eligible(d)' = Eligible(d)
    BY SameTablesSameSeries
  <2>3. Refers(result.series)'
    BY <1>2, <2>1 DEF Refers
  <2> QED
    BY <1>1, <1>2, <2>1, <2>2, <2>3 DEF SentIsEligible
<1>7. LimitKept'
  <2>1. c \in Limited => SentBefore = {}
    BY SentBeforeIsEligible
  <2>2. 0 <= MaxEntries
    BY HostAssumption
  <2>3. IsFiniteSet({}) /\ Cardinality({}) = 0
    BY FS_EmptySet
  <2>4. c \in Limited =>
          IsFiniteSet(result'.series) /\ Cardinality(result'.series) <= MaxEntries
    BY <1>2, <2>1, <2>2, <2>3
  <2> QED
    BY <1>2, <2>4 DEF LimitKept
<1>8. HostFirewallRecovers'
  BY <1>2 DEF HostFirewallRecovers
<1> QED
  BY <1>3, <1>4, <1>5, <1>6, <1>7, <1>8

\* An entry is sent only while there is room; without room the list is marked,
\* and was longer.
LEMMA SendEntryKeepsHost == ASSUME HostInv, SendEntry PROVE HostInv'
<1> USE DEF HostInv, SendEntry
<1> PICK c \in Limited : collector = c
  OBVIOUS
<1> PICK e \in Eligible(c) \ result.series :
      IF Full(result.series)
      THEN result' = [result EXCEPT !.truncated = TRUE] /\ collector' = "none"
      ELSE result' = [result EXCEPT !.series = @ \union {e}] /\ UNCHANGED collector
  OBVIOUS
<1>1. /\ c \in Collectors /\ "none" \notin Collectors /\ result.of = c /\ ~result.truncated
      /\ ~result.failed /\ result.gauge = "none"
  BY WhatIsRead DEF Limited, Reading
<1>2. /\ result.series \subseteq Eligible(c) /\ IsFiniteSet(result.series)
      /\ Cardinality(result.series) <= MaxEntries
  BY <1>1 DEF SentIsEligible, LimitKept
<1>3. Eligible(c)' = Eligible(c) /\ IsFiniteSet(Eligible(c))
  BY SameTablesSameSeries, LimitedIsFinite
<1>4. MaxEntries \in Nat /\ Cardinality(result.series) \in Nat
  BY <1>2, HostAssumption, FS_CardinalityType
<1>5. TablesRead' /\ Reading' /\ HostFirewallRecovers'
  BY <1>1 DEF TablesRead, Reading, HostFirewallRecovers, HostTypes
<1>6. CASE Full(result.series)
  <2>1. /\ result'.of = c /\ result'.series = result.series /\ result'.truncated
        /\ ~result'.failed
    BY <1>1, <1>6 DEF HostTypes
  <2>2. Cardinality(result.series) = MaxEntries
    BY <1>2, <1>4, <1>6 DEF Full
  <2>3. Cardinality(Eligible(c)) > Cardinality(result.series)
    <3>1. /\ Cardinality(result.series) <= Cardinality(Eligible(c))
          /\ Cardinality(Eligible(c)) = Cardinality(result.series) =>
               Eligible(c) = result.series
      BY <1>2, <1>3, FS_Subset
    <3>2. Cardinality(Eligible(c)) \in Nat
      BY <1>3, FS_CardinalityType
    <3> QED
      BY <1>4, <3>1, <3>2
  <2>4. HostTypes'
    BY <1>6 DEF HostTypes
  <2>5. SentIsEligible'
    <3>1. Refers(result.series)
      BY <1>1 DEF SentIsEligible
    <3>2. Refers(result.series)'
      BY <2>1, <3>1 DEF Refers
    <3> QED
      BY <1>1, <1>2, <1>3, <2>1, <3>2 DEF SentIsEligible
  <2>6. LimitKept'
    BY <1>2, <1>3, <1>4, <2>1, <2>2, <2>3 DEF LimitKept
  <2> QED
    BY <1>5, <2>4, <2>5, <2>6
<1>7. CASE ~Full(result.series)
  <2>1. /\ result'.of = c /\ result'.series = result.series \union {e}
        /\ ~result'.truncated /\ ~result'.failed /\ collector' = c
    BY <1>1, <1>7 DEF HostTypes
  <2>2. /\ IsFiniteSet(result'.series)
        /\ Cardinality(result'.series) <= MaxEntries
    <3>1. /\ IsFiniteSet(result.series \union {e})
          /\ Cardinality(result.series \union {e}) = Cardinality(result.series) + 1
      BY <1>2, FS_AddElement
    <3>2. Cardinality(result.series) + 1 <= MaxEntries
      BY <1>4, <1>7 DEF Full
    <3> QED
      BY <2>1, <3>1, <3>2
  <2>3. HostTypes'
    BY <1>7 DEF HostTypes
  <2>4. Refers(result.series)'
    <3>1. result'.series \subseteq Eligible(c)
      BY <1>2, <2>1
    <3>2. c \in {"arp", "netgraph", "tcpstate", "firewall", "ipsec"}
      BY DEF Limited
    <3>3. Refers(result'.series)
      BY <3>1, <3>2, OthersRefer
    <3> QED
      BY <3>3 DEF Refers
  <2>5. SentIsEligible'
    BY <1>1, <1>2, <1>3, <2>1, <2>4 DEF SentIsEligible
  <2>6. LimitKept'
    BY <1>1, <2>1, <2>2 DEF LimitKept
  <2> QED
    BY <1>5, <2>3, <2>5, <2>6
<1> QED
  BY <1>6, <1>7

LEMMA SendAllKeepsHost == ASSUME HostInv, SendAll PROVE HostInv'
<1> USE DEF HostInv, SendAll
<1> PICK c \in Collectors : collector = c
  BY DEF HostTypes
<1>1. /\ "none" \notin Collectors /\ result.of = c /\ ~result.truncated /\ ~result.failed
  BY WhatIsRead DEF Reading
<1>2. /\ result'.of = c /\ result'.series = Eligible(c) /\ ~result'.truncated /\ ~result'.failed
      /\ result'.gauge \in {"none", "1"}
  BY <1>1 DEF HostTypes
<1>3. Eligible(c)' = Eligible(c)
  BY SameTablesSameSeries
<1>4. HostTypes'
  BY <1>1, <1>2 DEF HostTypes
<1>5. TablesRead' /\ Reading' /\ HostFirewallRecovers'
  BY <1>1, <1>2 DEF TablesRead, Reading, HostFirewallRecovers
<1>6. SentIsEligible'
  <2>1. Refers(Eligible(c))
    <3>1. CASE c = "iface"
      BY <3>1, IfaceRefers DEF Eligible
    <3>2. CASE c = "conntrack"
      BY <3>2, PortsRefer DEF Eligible
    <3>3. CASE c \notin {"iface", "conntrack"}
      BY <3>3, WhatIsRead, OthersRefer
    <3> QED
      BY <3>1, <3>2, <3>3
  <2>2. Refers(result.series)'
    <3>1. result'.series = Eligible(c)
      BY <1>2
    <3> HIDE DEF HostInv, SendAll
    <3> QED
      BY <2>1, <3>1 DEF Refers
  <2> QED
    BY <1>1, <1>2, <1>3, <2>2 DEF SentIsEligible
<1>7. LimitKept'
  BY <1>1, <1>2, <1>3 DEF LimitKept
<1> QED
  BY <1>4, <1>5, <1>6, <1>7

LEMMA HostInvStep == ASSUME HostInv, [HostNext]_hostVars PROVE HostInv'
<1>1. CASE UNCHANGED hostVars
  <2>1. \A c : Eligible(c)' = Eligible(c)
    BY <1>1, SameTablesSameSeries DEF hostVars
  <2>2. SentIsEligible' /\ LimitKept'
    BY <1>1, <2>1 DEF hostVars, HostInv, SentIsEligible, LimitKept, Refers
  <2> QED
    BY <1>1, <2>2 DEF hostVars, HostInv, TablesRead, HostTypes, Reading, HostFirewallRecovers
<1> QED
  BY <1>1, ProbeKeepsHost, BeginKeepsHost, BeginLatchedKeepsHost, ReadTableKeepsHost,
     ReadFailsKeepsHost, SendEntryKeepsHost, SendAllKeepsHost DEF HostNext

\* For any host, the series of one scrape are distinct where their labels are
\* keys, refer to series of the same scrape, and a list that is cut says so,
\* however the tables change between the reads (network_exporter.md:122).
THEOREM SeriesMakeOnePicture == Spec => []HostSeriesSound
<1>1. Init => HostInv
  BY HostInvInit DEF Init
<1>2. HostInv /\ [Next]_vars => HostInv'
  <2>1. [Next]_vars => [HostNext]_hostVars
    BY DEF Next, vars
  <2> QED
    BY <2>1, HostInvStep
<1>3. HostInv => HostSeriesSound
  <2> SUFFICES ASSUME HostInv PROVE HostSeriesSound
    OBVIOUS
  <2>1. HostTruncationHonest
    BY DEF HostInv, LimitKept, HostTruncationHonest
  <2>2. HostSeriesDistinct
    <3> SUFFICES ASSUME NEW c \in Collectors \ {"tcpstate", "firewall"}, result.of = c
                 PROVE  Distinct(result.series)
      BY DEF HostSeriesDistinct, Distinct
    <3> QED
      BY EligibleIsDistinct DEF HostInv, SentIsEligible, Distinct
  <2>3. HostSeriesRefer
    BY DEF HostInv, SentIsEligible, Refers, HostSeriesRefer
  <2> QED
    BY <2>1, <2>2, <2>3 DEF HostInv, HostSeriesSound
<1> QED
  BY <1>1, <1>2, <1>3, PTL DEF Spec

-----------------------------------------------------------------------------
\* The types.  The clock of OpenBao is ahead of what was taken from it.
OpenbaoClock ==
  /\ time \in 1..MaxTime /\ native <= time
  /\ \A s \in Scrapes : /\ scrape[s].text <= time
                        /\ scrape[s].floor <= scrape[s].begun /\ scrape[s].begun <= time

LEMMA OpenbaoClockInit == OpenbaoInit => OpenbaoClock
<1>1. Idle.text = 0 /\ Idle.floor = 0 /\ Idle.begun = 0
  BY DEF Idle
<1> QED
  BY <1>1, OpenbaoAssumption DEF OpenbaoInit, OpenbaoClock

LEMMA StartKeepsClock ==
  ASSUME OpenbaoInv, OpenbaoClock, NEW s \in Scrapes, StartScrape(s)
  PROVE  OpenbaoClock'
<1> DEFINE begins == {scrape[t].begun : t \in Running} \union {time}
           r == [Idle EXCEPT !.step = "health", !.begun = time, !.floor = Least(begins)]
<1>1. Become(s, r) /\ UNCHANGED <<time, members, native>>
  BY DEF StartScrape
<1>2. begins \in SUBSET Nat /\ time \in begins /\ time \in Nat
  BY DEF OpenbaoInv, OpenbaoTypes, Responses, Running
<1>3. Least(begins) \in begins /\ Least(begins) <= time
  <2>1. \E x \in begins : \A y \in begins : x <= y
    BY <1>2, LeastNumber
  <2> HIDE DEF begins
  <2> QED
    BY <1>2, <2>1 DEF Least
<1>4. r \in Responses /\ r.begun = time /\ r.floor <= time /\ r.text = 0
  <2>1. Least(begins) \in Nat
    BY <1>2, <1>3
  <2> HIDE DEF begins
  <2> QED
    BY <1>2, <1>3, <2>1 DEF Idle, Responses
<1> HIDE DEF r, begins
<1>5. scrape'[s] = r /\ \A t \in Scrapes \ {s} : scrape'[t] = scrape[t]
  BY <1>1, <1>4, OnlyOneChanges
<1> QED
  BY <1>1, <1>2, <1>4, <1>5 DEF OpenbaoClock

\* Within a scrape only the text is taken, from the clock.
LEMMA StepKeepsClock ==
  ASSUME OpenbaoInv, OpenbaoClock, NEW s \in Scrapes,
         NEW r, Become(s, r), time' = time, native' \in {native, scrape[s].text},
         r.begun = scrape[s].begun, r.floor = scrape[s].floor,
         r.text \in {scrape[s].text, time, 0}
  PROVE  OpenbaoClock'
<1>1. time \in Nat /\ scrape[s] \in Responses
  BY DEF OpenbaoInv, OpenbaoTypes
<1>2. scrape'[s] = r /\ \A t \in Scrapes \ {s} : scrape'[t] = scrape[t]
  BY DEF OpenbaoInv, OpenbaoTypes, Become
<1> QED
  BY <1>1, <1>2 DEF OpenbaoClock, Responses

LEMMA OpenbaoClockStep ==
  ASSUME OpenbaoInv, OpenbaoClock, [OpenbaoNext]_openbaoVars PROVE OpenbaoClock'
<1>1. CASE UNCHANGED openbaoVars
  BY <1>1 DEF openbaoVars, OpenbaoClock
<1>2. CASE Pass
  BY <1>2, OpenbaoAssumption DEF Pass, OpenbaoClock, OpenbaoInv, OpenbaoTypes, Responses
<1>3. ASSUME NEW c \in Configs, Discover(c) PROVE OpenbaoClock'
  BY <1>3 DEF Discover, OpenbaoClock
<1>4. ASSUME NEW s \in Scrapes,
             \/ \E up \in BOOLEAN : Health(s, up)
             \/ ReadMembers(s) \/ EmitLeaders(s) \/ FetchText(s) \/ FetchFails(s)
             \/ StoreText(s) \/ ServeText(s)
      PROVE  OpenbaoClock'
  <2>1. scrape[s] \in Responses
    BY DEF OpenbaoInv, OpenbaoTypes
  <2>2. ASSUME NEW up \in BOOLEAN, Health(s, up) PROVE OpenbaoClock'
    <3> DEFINE r == [scrape[s] EXCEPT !.up = up, !.step = IF up THEN "members" ELSE "serve"]
    <3>1. /\ Become(s, r) /\ time' = time /\ native' = native
          /\ r.begun = scrape[s].begun /\ r.floor = scrape[s].floor /\ r.text = scrape[s].text
      BY <2>1, <2>2 DEF Health, Responses
    <3> HIDE DEF r
    <3> QED
      BY <3>1, StepKeepsClock
  <2>3. CASE ReadMembers(s)
    <3> DEFINE r == [scrape[s] EXCEPT !.copy = members, !.step = "leaders",
                     !.peers = IF members = {} THEN 1 ELSE Cardinality(members)]
    <3>1. /\ Become(s, r) /\ time' = time /\ native' \in {native, scrape[s].text}
          /\ r.begun = scrape[s].begun /\ r.floor = scrape[s].floor
          /\ r.text \in {scrape[s].text, time, 0}
      BY <2>1, <2>3 DEF ReadMembers, Responses
    <3> HIDE DEF r
    <3> QED
      BY <3>1, StepKeepsClock
  <2>4. CASE EmitLeaders(s)
    <3> DEFINE r == [scrape[s] EXCEPT !.leaders = Leaders(s), !.copy = {}, !.step = "fetch"]
    <3>1. /\ Become(s, r) /\ time' = time /\ native' \in {native, scrape[s].text}
          /\ r.begun = scrape[s].begun /\ r.floor = scrape[s].floor
          /\ r.text \in {scrape[s].text, time, 0}
      BY <2>1, <2>4 DEF EmitLeaders, Responses
    <3> HIDE DEF r
    <3> QED
      BY <3>1, StepKeepsClock
  <2>5. CASE FetchText(s)
    <3> DEFINE r == [scrape[s] EXCEPT !.text = time, !.step = "store"]
    <3>1. /\ Become(s, r) /\ time' = time /\ native' \in {native, scrape[s].text}
          /\ r.begun = scrape[s].begun /\ r.floor = scrape[s].floor
          /\ r.text \in {scrape[s].text, time, 0}
      BY <2>1, <2>5 DEF FetchText, Responses
    <3> HIDE DEF r
    <3> QED
      BY <3>1, StepKeepsClock
  <2>6. CASE FetchFails(s)
    <3> DEFINE r == [scrape[s] EXCEPT !.text = 0, !.step = "store"]
    <3>1. /\ Become(s, r) /\ time' = time /\ native' \in {native, scrape[s].text}
          /\ r.begun = scrape[s].begun /\ r.floor = scrape[s].floor
          /\ r.text \in {scrape[s].text, time, 0}
      BY <2>1, <2>6 DEF FetchFails, Responses
    <3> HIDE DEF r
    <3> QED
      BY <3>1, StepKeepsClock
  <2>7. CASE StoreText(s)
    <3> DEFINE r == [scrape[s] EXCEPT !.text = 0, !.step = "serve"]
    <3>1. /\ Become(s, r) /\ time' = time /\ native' \in {native, scrape[s].text}
          /\ r.begun = scrape[s].begun /\ r.floor = scrape[s].floor
          /\ r.text \in {scrape[s].text, time, 0}
      BY <2>1, <2>7 DEF StoreText, Stored, Responses
    <3> HIDE DEF r
    <3> QED
      BY <3>1, StepKeepsClock
  <2>8. CASE ServeText(s)
    <3> DEFINE r == [scrape[s] EXCEPT !.served = native, !.step = "idle"]
    <3>1. /\ Become(s, r) /\ time' = time /\ native' \in {native, scrape[s].text}
          /\ r.begun = scrape[s].begun /\ r.floor = scrape[s].floor
          /\ r.text \in {scrape[s].text, time, 0}
      BY <2>1, <2>8 DEF ServeText, Responses
    <3> HIDE DEF r
    <3> QED
      BY <3>1, StepKeepsClock
  <2> QED
    BY <1>4, <2>2, <2>3, <2>4, <2>5, <2>6, <2>7, <2>8
<1> QED
  BY <1>1, <1>2, <1>3, <1>4, StartKeepsClock DEF OpenbaoNext

\* What is emitted was read from a domain of the host.
FromDomains == \A s \in series : s.from \in Domains

LEMMA FromDomainsStep ==
  ASSUME LibvirtInv, FromDomains, [LibvirtNext]_libvirtVars PROVE FromDomains'
<1> USE DEF FromDomains
<1>1. CASE series' \in {series, {}}
  BY <1>1
<1>2. CASE Extract
  <2>1. PICK told \in SUBSET found : \E order \in [1..Cardinality(told) -> told] :
          series' = {Base(d) : d \in {order[i] : i \in DOMAIN order}}
    BY <1>2 DEF Extract
  <2>2. PICK order \in [1..Cardinality(told) -> told] :
          series' = {Base(d) : d \in {order[i] : i \in DOMAIN order}}
    BY <2>1
  <2>3. \A i \in DOMAIN order : order[i] \in Domains
    BY DEF LibvirtInv, LibvirtTypes
  <2>4. \A d : Base(d).from = d
    BY DEF Base
  <2> QED
    BY <2>2, <2>3, <2>4
<1>3. CASE Statistics
  <2>1. found \subseteq Domains
    BY DEF LibvirtInv, LibvirtTypes
  <2>2. series' = series \union {[kind |-> step, uuid |-> Head(todo).uuid,
                                  name |-> Head(todo).name, from |-> e] : e \in found}
    BY <1>3 DEF Statistics
  <2> QED
    BY <2>1, <2>2
<1> QED
  BY <1>1, <1>2, <1>3
     DEF LibvirtNext, libvirtVars, Define, Start, Stop, Destroy, Daemon, scraping, Available,
         HostMetrics, ListAll, ListFails, Find, NotFound, StatisticsFail

\* For any host, however the calls of the exporters overlap, every variable
\* keeps its type.
THEOREM HostTypesKept == Spec => []TypeOK
<1> DEFINE Inv == /\ RelayInv /\ OpenbaoInv /\ OpenbaoClock
                  /\ LibvirtInv /\ FromDomains /\ HostInv
<1>1. Init => Inv
  BY RelayInvInit, OpenbaoInvInit, OpenbaoClockInit, LibvirtInvInit, HostInvInit
     DEF Init, LibvirtInit, FromDomains
<1>2. Inv /\ [Next]_vars => Inv'
  <2>1. [Next]_vars => [HostNext]_hostVars
    BY DEF Next, vars
  <2> QED
    BY <2>1, ExportersStep, RelayInvStep, OpenbaoInvStep, OpenbaoClockStep, LibvirtInvStep,
       FromDomainsStep, HostInvStep
<1>3. Inv => TypeOK
  <2> SUFFICES ASSUME Inv PROVE TypeOK
    OBVIOUS
  <2>1. RelayTypeOK
    BY DEF RelayInv
  <2>2. OpenbaoTypeOK
    BY DEF OpenbaoInv, OpenbaoTypes, OpenbaoClock, Responses, OpenbaoTypeOK
  <2>3. LibvirtTypeOK
    BY DEF LibvirtInv, LibvirtTypes, FromDomains, LibvirtTypeOK
  <2>4. HostTypeOK
    <3>1. \A t \in Tables : table[t] \subseteq Contents(t)
      BY ReadingsAreContents DEF HostInv
    <3>2. unread \in Seq(Tables)
      <4>1. CASE collector = "none"
        BY <4>1 DEF HostInv, Reading
      <4>2. ASSUME NEW c \in Collectors, collector = c PROVE unread \in Seq(Tables)
        BY <4>2, ReadsAreTables, SeqMonotonic DEF HostInv, Reading
      <4> QED
        BY <4>1, <4>2 DEF HostInv, HostTypes
    <3> QED
      BY <3>1, <3>2 DEF HostInv, HostTypes, Reading, HostTypeOK
  <2> QED
    BY <2>1, <2>2, <2>3, <2>4 DEF TypeOK
<1> QED
  BY <1>1, <1>2, <1>3, PTL DEF Spec
=============================================================================
