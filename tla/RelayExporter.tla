--------------------------- MODULE RelayExporter ---------------------------
(***************************************************************************)
(* relay_exporter: a handler of net/http for each request (proxyHandler),  *)
(* the channel that bounds how many of them ask a target at a time, and    *)
(* the life of the process around its server (run, and exporter.Serve,     *)
(* which does the same for the other exporters of a host).                 *)
(*                                                                         *)
(* A request is an element of Requests; its caller sends the next one when *)
(* it has the answer.  What a target says is reduced to its status and to  *)
(* how much of its answer arrived.                                         *)
(***************************************************************************)
EXTENDS Integers, FiniteSets

CONSTANTS Requests,   \* callers that have at most one request each
          Permits     \* --concurrent-requests

ASSUME RelayAssumption == IsFiniteSet(Requests) /\ Permits \in Nat

VARIABLES
  process,   \* "serving", "closing" once Shutdown was called, "exited"
  handler,   \* where the handler of a request is
  sem,       \* how many permits are in the channel
  target,    \* the status the target sent and how much of its body was read
  answer     \* the last answer each caller got

relayVars == <<process, handler, sem, target, answer>>

Holding == {"admitted", "asking", "reading"}
Silent == [status |-> "none", body |-> "none"]

RelayInit ==
  /\ process = "serving" /\ sem = 0
  /\ handler = [r \in Requests |-> "idle"]
  /\ target = [r \in Requests |-> Silent]
  /\ answer = [r \in Requests |-> "none"]

Goto(r, step) == handler' = [handler EXCEPT ![r] = step]

\* The handler returns: it has answered, and what it deferred is done.
Reply(r, a) ==
  /\ Goto(r, "idle")
  /\ answer' = [answer EXCEPT ![r] = a]
  /\ UNCHANGED <<process, target>>

ReleaseOnSuccess(r) ==   \* mutated form: released at the end, not deferred
  sem' = IF answer'[r] = "success" THEN sem - 1 ELSE sem
Release(r) == sem' = sem - 1

Accept(r) ==
  /\ process = "serving" /\ handler[r] = "idle"
  /\ Goto(r, "accepted")
  /\ target' = [target EXCEPT ![r] = Silent]
  /\ answer' = [answer EXCEPT ![r] = "none"]
  /\ UNCHANGED <<process, sem>>

\* The source is not the allowed one: 403.
Forbid(r) ==
  /\ handler[r] = "accepted"
  /\ Reply(r, "forbidden") /\ UNCHANGED sem

TakeAlways(r) ==   \* mutated form: a permit is taken from a full channel
  /\ handler[r] = "accepted"
  /\ sem' = sem + 1 /\ Goto(r, "admitted")
  /\ UNCHANGED <<process, target, answer>>
TakePermit(r) ==
  /\ handler[r] = "accepted" /\ sem < Permits
  /\ sem' = sem + 1 /\ Goto(r, "admitted")
  /\ UNCHANGED <<process, target, answer>>

\* The channel is full: 429.
TooMany(r) ==
  /\ handler[r] = "accepted" /\ sem = Permits
  /\ Reply(r, "too many") /\ UNCHANGED sem

\* A parameter is missing or not allowed: 400.
BadRequest(r) ==
  /\ handler[r] = "admitted"
  /\ Reply(r, "bad") /\ Release(r)

Ask(r) ==
  /\ handler[r] = "admitted"
  /\ Goto(r, "asking")
  /\ UNCHANGED <<process, sem, target, answer>>

\* client.Do returns: the header of the target's answer is there.
Header(r, status) ==
  /\ handler[r] = "asking"
  /\ target' = [target EXCEPT ![r].status = status]
  /\ Goto(r, "reading")
  /\ UNCHANGED <<process, sem, answer>>

\* The target sends some of its body, all of it, or more than the limit.
Body(r, part) ==
  /\ handler[r] = "reading" /\ target[r].body \in {"none", "part"}
  /\ target' = [target EXCEPT ![r].body = part]
  /\ UNCHANGED <<process, handler, sem, answer>>

\* writeRelayResponse: the body was read to its end, or to the limit.
Finish(r) ==
  /\ handler[r] = "reading" /\ target[r].body \in {"whole", "limit"}
  /\ Reply(r, IF target[r].status = "200" THEN "success" ELSE "failure")
  /\ Release(r)

\* The target refuses or breaks off, the caller goes away, or the time of the
\* client, which spans the header and the body, is up.
Fail(r) ==
  /\ handler[r] \in {"asking", "reading"}
  /\ Reply(r, "failure") /\ Release(r)

\* SIGINT or SIGTERM: Shutdown is called, so that no connection is accepted
\* and ListenAndServe returns at once ...
Signal ==
  /\ process = "serving" /\ process' = "closing"
  /\ UNCHANGED <<handler, sem, target, answer>>

\* ... and run returns to main, which exits.
Exit ==
  /\ process = "closing" /\ process' = "exited"
  /\ UNCHANGED <<handler, sem, target, answer>>

Handle(r) ==
  \/ Forbid(r) \/ TakePermit(r) \/ TooMany(r) \/ BadRequest(r) \/ Ask(r)
  \/ Finish(r) \/ Fail(r)

RelayNext ==
  /\ process # "exited"
  /\ \/ \E r \in Requests :
          \/ Accept(r) \/ Handle(r)
          \/ \E status \in {"200", "500"} : Header(r, status)
          \/ \E part \in {"part", "whole", "limit"} : Body(r, part)
     \/ Signal \/ Exit

-----------------------------------------------------------------------------
RelayTypeOK ==
  /\ process \in {"serving", "closing", "exited"}
  /\ handler \in [Requests -> {"idle", "accepted"} \union Holding]
  /\ sem \in 0..Permits
  /\ target \in [Requests -> [status : {"none", "200", "500"},
                              body : {"none", "part", "whole", "limit"}]]
  /\ answer \in [Requests -> {"none", "forbidden", "too many", "bad",
                              "success", "failure"}]

\* "When the number of in-flight proxy requests exceeds --concurrent-requests
\* ... 429" (docs/relay_exporter.md:363): each permit belongs to a request in
\* flight, whichever way the handlers before it ended.
RelayPermitsInFlight ==
  sem = Cardinality({r \in Requests : handler[r] \in Holding})

\* relay_target_response is 1 only for a 200 whose body was read to its end,
\* or to the limit of 100 MiB.
RelaySuccessWasRead ==
  \A r \in Requests : answer[r] = "success" =>
    target[r].status = "200" /\ target[r].body \in {"whole", "limit"}

\* Whichever way a handler ends, its permit is back and its answer is true.
RelaySound == RelayPermitsInFlight /\ RelaySuccessWasRead

=============================================================================
