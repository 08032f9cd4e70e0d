------------------------- MODULE CloudflareProcess -------------------------
(***************************************************************************)
(* The life of the cloudflare_exporter process: run in main.go with its    *)
(* deferred calls, the goroutine that waits for a signal, the HTTP server, *)
(* and the loops that ask Cloudflare with the token of its client, which   *)
(* Close wipes.  The loops of the collectors belong to the scheduler, which*)
(* cancels them and waits for them; the one that repeats the discovery does*)
(* not, and nobody waits for it.                                           *)
(***************************************************************************)
EXTENDS FiniteSets

CONSTANT Loops   \* the collectors' loops

ASSUME ProcessAssumption == IsFiniteSet(Loops) /\ "discovery" \notin Loops

VARIABLES
  main,       \* where run is
  server,     \* Server.httpServer: "none", "created", "listening", "shut"
  watcher,    \* the goroutine that waits for a signal
  cancelled,  \* the context of run
  wiped,      \* Client.apiToken has been zeroed
  asking      \* each loop: its step, and whether its request has a wiped token

processVars == <<main, server, watcher, cancelled, wiped, asking>>

Askers == Loops \union {"discovery"}
Gone == {"exited", "panicked"}

ProcessInit ==
  /\ main = "discovering" /\ server = "none" /\ watcher = "none"
  /\ cancelled = FALSE /\ wiped = FALSE
  /\ asking = [u \in Askers |-> [step |-> "off", wiped |-> FALSE]]

-----------------------------------------------------------------------------
\* run, up to the return of srv.Start.
Advance(from, to) == main = from /\ main' = to

StartLoops ==
  /\ Advance("discovering", "started")
  /\ asking' = [u \in Askers |-> [step |-> "idle", wiped |-> FALSE]]
  /\ UNCHANGED <<server, watcher, cancelled, wiped>>

Notify ==
  /\ Advance("started", "starting server") /\ watcher' = "waiting"
  /\ UNCHANGED <<server, cancelled, wiped, asking>>

CreateServer ==
  /\ Advance("starting server", "binding") /\ server' = "created"
  /\ UNCHANGED <<watcher, cancelled, wiped, asking>>

Listen ==
  /\ Advance("binding", "serving")
  /\ server = "created" /\ server' = "listening"
  /\ UNCHANGED <<watcher, cancelled, wiped, asking>>

\* The address is taken, or Shutdown came first, or comes now.
ServerReturns ==
  /\ \/ Advance("binding", "returning")
     \/ server = "shut" /\ Advance("serving", "returning")
  /\ UNCHANGED <<server, watcher, cancelled, wiped, asking>>

\* The deferred calls: sched.Stop, cancel, client.Close.
StopLoops ==
  /\ Advance("returning", "waiting")
  /\ UNCHANGED <<server, watcher, cancelled, wiped, asking>>

AllEnded == \A u \in Loops : asking[u].step = "ended"
LoopsStopped ==
  /\ AllEnded /\ Advance("waiting", "cancelling")
  /\ UNCHANGED <<server, watcher, cancelled, wiped, asking>>

LeaveContext == UNCHANGED cancelled   \* mutated form: only a signal cancels
CancelContext == cancelled' = TRUE
Cancel ==
  /\ Advance("cancelling", "closing") /\ CancelContext
  /\ UNCHANGED <<server, watcher, wiped, asking>>

CloseClient ==
  /\ Advance("closing", "closed") /\ wiped' = TRUE
  /\ UNCHANGED <<server, watcher, cancelled, asking>>

Exit ==
  /\ Advance("closed", "exited")
  /\ UNCHANGED <<server, watcher, cancelled, wiped, asking>>

-----------------------------------------------------------------------------
\* SIGINT or SIGTERM, which ends the process until Notify was called.
Signal ==
  /\ \/ watcher = "none" /\ main' = "exited" /\ UNCHANGED watcher
     \/ watcher = "waiting" /\ watcher' = "woken" /\ UNCHANGED main
  /\ UNCHANGED <<server, cancelled, wiped, asking>>

ContextDone ==
  /\ watcher = "waiting" /\ cancelled /\ watcher' = "woken"
  /\ UNCHANGED <<main, server, cancelled, wiped, asking>>

WatcherCancels ==
  /\ watcher = "woken" /\ watcher' = "cancelled" /\ cancelled' = TRUE
  /\ UNCHANGED <<main, server, wiped, asking>>

\* The field httpServer is nil until Start has set it.
Shutdown ==
  /\ watcher = "cancelled" /\ watcher' = "done"
  /\ IF server = "none" THEN main' = "panicked" /\ UNCHANGED server
                        ELSE server' = "shut" /\ UNCHANGED main
  /\ UNCHANGED <<cancelled, wiped, asking>>

-----------------------------------------------------------------------------
\* The loops.  A request is formed with the token of the moment, and is sent
\* unless its context has been cancelled by then.
StoppedByParent(u) == cancelled   \* mutated form: Stop cancels nothing
Stopped(u) ==
  \/ cancelled
  \/ u \in Loops /\ main \in {"waiting", "cancelling", "closing", "closed"}

Turn(u, from, to) ==
  /\ asking[u].step = from
  /\ asking' = [asking EXCEPT ![u].step = to]
  /\ UNCHANGED <<main, server, watcher, cancelled, wiped>>

Form(u) ==
  /\ asking[u].step = "idle"
  /\ asking' = [asking EXCEPT ![u] = [step |-> "formed", wiped |-> wiped]]
  /\ UNCHANGED <<main, server, watcher, cancelled, wiped>>
Send(u) == ~Stopped(u) /\ Turn(u, "formed", "sent")
NotSent(u) == Stopped(u) /\ Turn(u, "formed", "idle")
Answered(u) == Turn(u, "sent", "idle")
EndLoop(u) == Stopped(u) /\ Turn(u, "idle", "ended")

MainStep ==
  \/ StartLoops \/ Notify \/ CreateServer \/ Listen \/ ServerReturns
  \/ StopLoops \/ LoopsStopped \/ Cancel \/ CloseClient \/ Exit

ProcessNext ==
  /\ main \notin Gone
  /\ \/ MainStep \/ Signal \/ ContextDone \/ WatcherCancels \/ Shutdown
     \/ \E u \in Askers :
          Form(u) \/ Send(u) \/ NotSent(u) \/ Answered(u) \/ EndLoop(u)

\* Goroutines run, requests end with their time limit, and a select that finds
\* its context done again and again takes that branch.
ProcessFairness ==
  /\ WF_processVars(main \notin Gone /\ MainStep)
  /\ WF_processVars(main \notin Gone /\ (WatcherCancels \/ Shutdown))
  /\ \A u \in Askers :
       /\ WF_processVars(main \notin Gone /\ (Send(u) \/ NotSent(u) \/ Answered(u)))
       /\ SF_processVars(main \notin Gone /\ EndLoop(u))

ProcessSpec == ProcessInit /\ [][ProcessNext]_processVars /\ ProcessFairness

-----------------------------------------------------------------------------
ProcessTypeOK ==
  /\ main \in {"discovering", "started", "starting server", "binding",
               "serving", "returning", "waiting", "cancelling", "closing",
               "closed"} \union Gone
  /\ server \in {"none", "created", "listening", "shut"}
  /\ watcher \in {"none", "waiting", "woken", "cancelled", "done"}
  /\ cancelled \in BOOLEAN /\ wiped \in BOOLEAN
  /\ asking \in [Askers -> [step : {"off", "idle", "formed", "sent", "ended"},
                            wiped : BOOLEAN]]

\* No request goes out with a wiped token, though the discovery loop is not
\* waited for and may form one after Close: its context was cancelled before.
NoWipedToken ==
  \A u \in Askers : asking[u].step = "sent" => ~asking[u].wiped

\* When the client is closed no collection is under way, so that none of them
\* is cut off between its request and its record.
CollectionsEndFirst ==
  wiped => \A u \in Loops : asking[u].step = "ended"

\* The deferred calls of run leave nothing that could still use the token.
ShutdownInOrder == NoWipedToken /\ CollectionsEndFirst

\* The process ends once it was told to, or once its server has returned,
\* whatever its loops and their requests are doing.
ShutdownCompletes ==
  (watcher = "woken" \/ main = "returning") ~> (main \in Gone)
=============================================================================
