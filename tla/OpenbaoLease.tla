---------------------------- MODULE OpenbaoLease ----------------------------
(***************************************************************************)
(* The OpenBao client that the github and cloudflare exporters read their  *)
(* secrets with: the login of NewOpenBaoClient, the loop that renews the   *)
(* token or logs in again (renewLoop), and Close.                          *)
(*                                                                         *)
(* Time is counted in units of five seconds, and kept as what is left: of  *)
(* the loop's sleep, of the request's time limit, of the lease.  A request *)
(* is granted by OpenBao at one time and answered at a later one, so the   *)
(* client counts the lease from a later moment than OpenBao does.          *)
(***************************************************************************)
EXTENDS Integers

CONSTANTS Leases,      \* the durations OpenBao grants
          MaxBackoff   \* of the retries

ASSUME LeaseAssumption ==
  Leases \subseteq Nat \ {0} /\ MaxBackoff \in Nat \ {0}

VARIABLES
  agent,          \* what NewOpenBaoClient or its loop is doing
  wait,           \* how much longer the loop sleeps
  backoff,        \* the loop's variable of that name
  ask,            \* its request: state, age, and the lease granted
  held,           \* the client has a token
  ttl,            \* what it was told of the lease
  left,           \* what OpenBao has left of the lease of that token
  authenticated,  \* the gauge
  reachable,      \* OpenBao answers, within the time limit
  closed,         \* Close was called
  revoked         \* history: OpenBao took the token back

leaseVars == <<agent, wait, backoff, ask, held, ttl, left, authenticated,
               reachable, closed, revoked>>

MinSleep == 1    \* five seconds
MinMargin == 2   \* ten seconds
Timeout == 2     \* ten seconds, for a request
NoAsk == [state |-> "none", age |-> 0, lease |-> 0, left |-> 0]
NewAsk == [NoAsk EXCEPT !.state = "open"]

Greater(a, b) == IF a > b THEN a ELSE b

LeaseInit ==
  /\ agent = "first login" /\ ask = NewAsk
  /\ wait = 0 /\ backoff = MinSleep
  /\ held = FALSE /\ ttl = 0 /\ left = 0 /\ authenticated = FALSE
  /\ reachable \in BOOLEAN /\ closed = FALSE /\ revoked = FALSE

\* The loop sleeps for two thirds of the lease, and at most until ten seconds
\* before its end, but five seconds at least.
ShortMargin(lease) == MinMargin   \* mutated form: ten seconds for any lease
Margin(lease) == Greater(lease \div 3, MinMargin)
SleepWith(lease) ==
  /\ agent' = "sleeping" /\ wait' = Greater(lease - Margin(lease), MinSleep)
  /\ ask' = NoAsk
SleepWithout(time) ==
  /\ agent' = "backing off" /\ wait' = time /\ ask' = NoAsk

Wake ==
  /\ agent \in {"sleeping", "backing off"} /\ wait = 0
  /\ agent' = CASE agent = "backing off" -> "login"
                [] agent = "sleeping" /\ held -> "renewal"
                [] OTHER -> "new login"    \* Close took the token
  /\ ask' = NewAsk
  /\ UNCHANGED <<wait, backoff, held, ttl, left, authenticated, reachable,
                 closed, revoked>>

\* OpenBao's part: a login gets a new token, a renewal more time for the one
\* that is still good, never less than it has.
GrantLogin(lease) ==
  /\ ask.state = "open" /\ reachable /\ agent # "renewal"
  /\ ask' = [ask EXCEPT !.state = "granted", !.lease = lease, !.left = lease]
  /\ UNCHANGED left
GrantRenewal(lease) ==
  /\ ask.state = "open" /\ reachable /\ agent = "renewal"
  /\ left > 0 /\ lease >= left
  /\ ask' = [ask EXCEPT !.state = "granted", !.lease = lease]
  /\ left' = lease
Grant(lease) ==
  /\ GrantLogin(lease) \/ GrantRenewal(lease)
  /\ UNCHANGED <<agent, wait, backoff, held, ttl, authenticated, reachable,
                 closed, revoked>>

\* The end of login and of renewToken: the answer is stored.
LoggedIn ==
  /\ ask.state = "granted" /\ agent # "renewal"
  /\ held' = TRUE /\ ttl' = ask.lease /\ left' = ask.left
  /\ authenticated' = TRUE /\ revoked' = FALSE
  /\ backoff' = IF agent = "login" THEN MinSleep ELSE backoff
  /\ SleepWith(ask.lease)
  /\ UNCHANGED <<reachable, closed>>
Renewed ==
  /\ ask.state = "granted" /\ agent = "renewal"
  /\ ttl' = ask.lease
  /\ IF held THEN SleepWith(ask.lease) ELSE SleepWithout(backoff)
  /\ UNCHANGED <<held, left, authenticated, backoff, reachable, closed, revoked>>

\* No answer, an answer that is not 200, or no credentials to ask with; and
\* a renewal of a token that is no longer good.
Refused ==
  /\ ask.state # "none"
  /\ ~reachable \/ (ask.state = "open" /\ agent = "renewal" /\ left = 0)

FirstLoginFails ==
  /\ Refused /\ agent = "first login"
  /\ SleepWithout(backoff)
  /\ UNCHANGED <<backoff, held, ttl, left, authenticated, reachable, closed,
                 revoked>>
LoginFailsUncapped ==   \* mutated form: the back-off is not limited
  /\ Refused /\ agent = "login"
  /\ backoff' = 2 * backoff /\ SleepWithout(backoff')
  /\ UNCHANGED <<held, ttl, left, authenticated, reachable, closed, revoked>>
LoginFails ==
  /\ Refused /\ agent = "login"
  /\ backoff' = IF 2 * backoff > MaxBackoff THEN MaxBackoff ELSE 2 * backoff
  /\ SleepWithout(backoff')
  /\ UNCHANGED <<held, ttl, left, authenticated, reachable, closed, revoked>>

OnlyLater == SleepWith(MinSleep)   \* mutated form: the renewal is tried again
LoginInstead == agent' = "new login" /\ ask' = NewAsk /\ UNCHANGED wait
RenewalFails ==
  /\ Refused /\ agent = "renewal"
  /\ LoginInstead
  /\ UNCHANGED <<backoff, held, ttl, left, authenticated, reachable, closed,
                 revoked>>

NewLoginFails ==
  /\ Refused /\ agent = "new login"
  /\ held' = FALSE /\ authenticated' = FALSE
  /\ backoff' = MinSleep /\ SleepWithout(MinSleep)
  /\ UNCHANGED <<ttl, left, reachable, closed, revoked>>

\* Close does not wait for the loop: a login under way, or begun because both
\* the context and the timer are ready, stores its token all the same.
Close ==
  /\ ~closed /\ agent # "first login"
  /\ closed' = TRUE /\ held' = FALSE
  /\ UNCHANGED <<agent, wait, backoff, ask, ttl, left, authenticated,
                 reachable, revoked>>
StopLoop ==
  /\ closed /\ agent \in {"sleeping", "backing off"}
  /\ agent' = "stopped"
  /\ UNCHANGED <<wait, backoff, ask, held, ttl, left, authenticated,
                 reachable, closed, revoked>>

\* Time passes unless something is due.
Less(n) == IF n = 0 THEN 0 ELSE n - 1
Tick ==
  /\ agent # "stopped"
  /\ agent \in {"sleeping", "backing off"} => wait > 0
  /\ ask.state # "none" => ask.age < Timeout
  /\ wait' = Less(wait) /\ left' = Less(left)
  /\ ask' = IF ask.state = "none" THEN ask
            ELSE [ask EXCEPT !.age = @ + 1, !.left = Less(@)]
  /\ UNCHANGED <<agent, backoff, held, ttl, authenticated, reachable, closed,
                 revoked>>

\* The world: OpenBao comes and goes, and takes tokens back.
Switch ==
  /\ agent # "stopped" /\ reachable' = ~reachable
  /\ UNCHANGED <<agent, wait, backoff, ask, held, ttl, left, authenticated,
                 closed, revoked>>
Revoke ==
  /\ left > 0 /\ agent # "stopped" /\ left' = 0 /\ revoked' = TRUE
  /\ UNCHANGED <<agent, wait, backoff, ask, held, ttl, authenticated,
                 reachable, closed>>

AgentStep ==
  \/ Wake \/ LoggedIn \/ Renewed \/ StopLoop
  \/ FirstLoginFails \/ LoginFails \/ RenewalFails \/ NewLoginFails

LeaseNext ==
  \/ AgentStep \/ \E lease \in Leases : Grant(lease)
  \/ Close \/ Tick \/ Switch \/ Revoke

\* The loop runs, time passes, and a request OpenBao gets is granted while it
\* is reachable.
LeaseFairness ==
  /\ WF_leaseVars(AgentStep) /\ WF_leaseVars(Tick)
  /\ WF_leaseVars(\E lease \in Leases : Grant(lease))

LeaseSpec == LeaseInit /\ [][LeaseNext]_leaseVars /\ LeaseFairness

-----------------------------------------------------------------------------
LeaseTypeOK ==
  /\ agent \in {"first login", "sleeping", "backing off", "login", "renewal",
                "new login", "stopped"}
  /\ wait \in Nat /\ backoff \in 1..MaxBackoff /\ ttl \in Leases \union {0}
  /\ ask.state \in {"none", "open", "granted"} /\ ask.age \in 0..Timeout
  /\ left \in Nat /\ {held, authenticated, reachable, closed, revoked} \subseteq BOOLEAN

\* The client never holds a token that has run out, unless OpenBao took it
\* back or the lease is shorter than 105 s: the margin of a third of the
\* lease covers an answer that was late, a renewal and a login that both time
\* out.  Whoever reads a secret meanwhile is not refused for it.
LeaseHeldIsGood ==
  held /\ ~revoked /\ ttl >= 21 => left > 0

\* openbao_authenticated says whether the client has a token whenever its loop
\* rests ("Whether the exporter holds a valid OpenBao token", openbao.go:94).
LeaseGaugeTells ==
  agent \in {"sleeping", "backing off"} /\ ~closed => authenticated = held

\* The token, its lease and the gauge tell the same.
LeaseSound == LeaseHeldIsGood /\ LeaseGaugeTells

\* "Background retry will keep attempting to authenticate" (openbao.go:72):
\* when OpenBao stays reachable, the client has a good token time and again,
\* however often it was revoked, unless the client is closed.
LeaseComesBack ==
  <>[]reachable => ([]<>(held /\ left > 0) \/ <>closed)
=============================================================================
