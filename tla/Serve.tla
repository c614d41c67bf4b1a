------------------------------- MODULE Serve --------------------------------
(***************************************************************************)
(* The life of a node's process: startup, signals and shutdown as in       *)
(* serveCmd of internal/cmd/root.go, with the services it starts and stops *)
(* (webhook.Dispatcher, sync.Server, Replicator, Discovery,                *)
(* coordinator.Client, gc.Collector, api.Server).                          *)
(*                                                                         *)
(* Four kinds of goroutines: main, which starts everything, then sits in   *)
(* server.Start and closes the stores when it returns; the stopper, which  *)
(* waits for a signal; the services; and HTTP handlers.  What the services *)
(* do is the subject of other modules: here a unit of their work begins    *)
(* and ends.                                                               *)
(***************************************************************************)
EXTENDS Naturals, FiniteSets, Sequences

CONSTANTS Handlers,
          MaxWork   \* bound on gRPC calls, and on replication cycles, at once

ASSUME MaxWorkAssumption == MaxWork \in Nat \ {0}
ASSUME HandlersAssumption == IsFiniteSet(Handlers)

Stores == {"metadata", "dedup", "apikeys"}
Optional == {"sync", "webhooks", "coordinator"}

\* The order of startup, and of the stopper's calls.
Startup == <<"metadata", "dedup", "sync", "apikeys", "webhooks", "coordinator", "gc",
             "notify", "listen">>
Shutdown == <<"gc", "webhooks", "replicator", "rpc", "coordinator", "http">>

Services == {"gc", "webhooks", "replicator", "rpc", "coordinator"}

VARIABLES
  enabled,   \* the optional parts of the configuration
  main,      \* starting | serving | closing | gone
  step,      \* the next step of Startup
  open,      \* the badger stores that are open
  trapped,   \* signal.Notify was called
  quit,      \* the channel of capacity 1
  stop,      \* the stopper: 0 while it waits, then the position in Shutdown
  told,      \* what the stopper has told to stop
  alive,     \* alive[s]: goroutines of service s
  work,      \* work[s]: units of work in progress
  listener,  \* HTTP: none | open | closed
  handler,   \* handler[h]: idle | begun | stored
  late,      \* history: handlers at work when the listener closed
  partial,   \* history: handlers that acknowledged an upload without its metadata
  ended      \* history: why startup or serving ended: no | killed | failed

vars == <<enabled, main, step, open, trapped, quit, stop, told, alive, work,
          listener, handler, late, partial, ended>>

Running == main # "gone"
Busy == {h \in Handlers : handler[h] # "idle"}

-----------------------------------------------------------------------------
(* main                                                                    *)

\* Two webhook workers; the other services have one loop.
Started(s) == CASE s = "sync" -> {"replicator", "rpc"}
                [] s \in {"webhooks", "coordinator", "gc"} -> {s}
                [] OTHER -> {}
Crew(s) == IF s = "webhooks" THEN 2 ELSE 1

Wanted(s) == s \in Optional => s \in enabled

Start_Scoped ==
  LET s == Startup[step]
  IN  /\ main = "starting" /\ s # "listen"
      /\ step' = step + 1
      /\ open' = IF s \in Stores THEN {s} ELSE open
      /\ trapped' = (trapped \/ s = "notify")
      /\ alive' = [x \in Services |-> IF Wanted(s) /\ x \in Started(s) THEN Crew(x) ELSE alive[x]]
      /\ UNCHANGED <<enabled, main, quit, stop, told, work, listener, handler, late, partial, ended>>

Start ==
  LET s == Startup[step]
  IN  /\ main = "starting" /\ s # "listen"
      /\ step' = step + 1
      /\ open' = open \cup ({s} \cap Stores)
      /\ trapped' = (trapped \/ s = "notify")
      /\ alive' = [x \in Services |-> IF Wanted(s) /\ x \in Started(s) THEN Crew(x) ELSE alive[x]]
      /\ UNCHANGED <<enabled, main, quit, stop, told, work, listener, handler, late, partial, ended>>

Listen == /\ main = "starting" /\ Startup[step] = "listen"
          /\ main' = "serving"
          /\ listener' = "open"
          /\ UNCHANGED <<enabled, step, open, trapped, quit, stop, told, alive, work, handler,
                         late, partial, ended>>

StartFails_Warns ==
  /\ main = "starting" /\ Startup[step] # "listen"
  /\ Startup[step] \in Stores \cup {"sync"} /\ Wanted(Startup[step])
  /\ step' = step + 1
  /\ UNCHANGED <<enabled, main, open, trapped, quit, stop, told, alive, work, listener, handler,
                 late, partial, ended>>

\* A store does not open, or a port is taken: main returns.
StartFails ==
  /\ main = "starting"
  /\ Startup[step] \in Stores \cup {"sync", "listen"} /\ Wanted(Startup[step])
  /\ main' = "closing" /\ ended' = "failed"
  /\ UNCHANGED <<enabled, step, open, trapped, quit, stop, told, alive, work, listener, handler,
                 late, partial>>

CloseListener == /\ listener' = "closed"
                 /\ late' = late \cup Busy

\* Accept fails for good.
AcceptFails ==
  /\ main = "serving" /\ listener = "open"
  /\ main' = "closing" /\ ended' = "failed"
  /\ CloseListener
  /\ UNCHANGED <<enabled, step, open, trapped, quit, stop, told, alive, work, handler, partial>>

\* Serve returns as soon as the listener is closed; Shutdown goes on waiting for handlers.
ServeReturns ==
  /\ main = "serving" /\ listener = "closed"
  /\ main' = "closing"
  /\ UNCHANGED <<enabled, step, open, trapped, quit, stop, told, alive, work, listener, handler,
                 late, partial, ended>>

\* The deferred calls, last opened first; then the process ends, with all its goroutines.
Close ==
  /\ main = "closing"
  /\ open' = IF "apikeys" \in open THEN open \ {"apikeys"} ELSE
             IF "dedup" \in open THEN open \ {"dedup"} ELSE {}
  /\ main' = IF open = {} THEN "gone" ELSE main
  /\ UNCHANGED <<enabled, step, trapped, quit, stop, told, alive, work, listener, handler,
                 late, partial, ended>>

-----------------------------------------------------------------------------
(* Signals and the stopper                                                 *)

\* Before signal.Notify a signal ends the process; a second one finds the channel full.
Signal ==
  /\ Running /\ ~quit
  /\ quit' = trapped
  /\ main' = IF trapped THEN main ELSE "gone"
  /\ ended' = IF trapped THEN ended ELSE "killed"
  /\ UNCHANGED <<enabled, step, open, trapped, stop, told, alive, work, listener, handler,
                 late, partial>>

StopBegins ==
  /\ Running /\ quit /\ stop = 0
  /\ quit' = FALSE /\ stop' = 1
  /\ UNCHANGED <<enabled, main, step, open, trapped, told, alive, work, listener, handler,
                 late, partial, ended>>

Stopping == Running /\ stop \in 1..Len(Shutdown)

\* Cancel a context, close stopCh, enter GracefulStop, or close the listener if there is one.
StopTells ==
  /\ Stopping /\ Shutdown[stop] \notin told
  /\ told' = told \cup {Shutdown[stop]}
  /\ IF Shutdown[stop] = "http" /\ listener = "open"
     THEN CloseListener
     ELSE UNCHANGED <<listener, late>>
  /\ UNCHANGED <<enabled, main, step, open, trapped, quit, stop, alive, work, handler, partial, ended>>

Waits_Cancels(s) == s = "rpc" => work[s] = 0

\* Dispatcher.Stop waits for its workers, GracefulStop for the calls, the others for nothing.
Waits(s) == /\ s = "webhooks" => alive[s] = 0
            /\ s = "rpc" => work[s] = 0

StopGoesOn ==
  /\ Stopping /\ Shutdown[stop] \in told
  /\ Shutdown[stop] \in Services => Waits(Shutdown[stop])
  /\ stop' = stop + 1
  /\ UNCHANGED <<enabled, main, step, open, trapped, quit, told, alive, work, listener, handler,
                 late, partial, ended>>

Stopper == StopBegins \/ StopTells \/ StopGoesOn

-----------------------------------------------------------------------------
(* Services                                                                *)

Room(s) == IF s \in {"rpc", "replicator"} THEN MaxWork ELSE alive[s]

WorkBegins_Always(s) ==
  /\ Running
  /\ alive[s] > 0 /\ work[s] < Room(s)
  /\ work' = [work EXCEPT ![s] = @ + 1]
  /\ UNCHANGED <<enabled, main, step, open, trapped, quit, stop, told, alive, listener, handler,
                 late, partial, ended>>

\* A loop may choose its ticker or queue although it was told to stop; a stopping
\* gRPC server takes no call.
WorkBegins(s) ==
  /\ Running
  /\ alive[s] > 0 /\ work[s] < Room(s)
  /\ s = "rpc" => s \notin told
  /\ work' = [work EXCEPT ![s] = @ + 1]
  /\ UNCHANGED <<enabled, main, step, open, trapped, quit, stop, told, alive, listener, handler,
                 late, partial, ended>>

WorkEnds(s) ==
  /\ Running
  /\ work[s] > 0
  /\ work' = [work EXCEPT ![s] = @ - 1]
  /\ UNCHANGED <<enabled, main, step, open, trapped, quit, stop, told, alive, listener, handler,
                 late, partial, ended>>

\* A loop ends between two units of work; syncAll does not wait for its goroutines.
LoopEnds(s) ==
  /\ Running
  /\ s \in told \ {"rpc"} /\ alive[s] > 0
  /\ s # "replicator" => work[s] < alive[s]
  /\ alive' = [alive EXCEPT ![s] = @ - 1]
  /\ UNCHANGED <<enabled, main, step, open, trapped, quit, stop, told, work, listener, handler,
                 late, partial, ended>>

-----------------------------------------------------------------------------
(* HTTP handlers: an upload writes the file, then its metadata, and answers *)
(* 201 whether or not that worked.                                          *)

Handle(h, from, to) == /\ Running
                       /\ handler[h] = from
                       /\ handler' = [handler EXCEPT ![h] = to]
                       /\ UNCHANGED <<enabled, main, step, open, trapped, quit, stop, told, alive,
                                      work, listener, late, ended>>

Accept(h) == /\ listener = "open"
             /\ Handle(h, "idle", "begun") /\ UNCHANGED partial

\* The file store is never closed.
StoreFile(h) == Handle(h, "begun", "stored") /\ UNCHANGED partial

\* An upload to a deduplicating store that is closed answers 500.
StoreDedup(h) == /\ Handle(h, "begun", IF "dedup" \in open THEN "stored" ELSE "idle")
                 /\ UNCHANGED partial

StoreMeta(h) == /\ Handle(h, "stored", "idle")
                /\ partial' = IF "metadata" \in open THEN partial ELSE partial \cup {h}

-----------------------------------------------------------------------------
Init == /\ enabled \in SUBSET Optional
        /\ main = "starting" /\ step = 1
        /\ open = {} /\ trapped = FALSE
        /\ quit = FALSE /\ stop = 0 /\ told = {}
        /\ alive = [s \in Services |-> 0]
        /\ work = [s \in Services |-> 0]
        /\ listener = "none"
        /\ handler = [h \in Handlers |-> "idle"]
        /\ late = {} /\ partial = {} /\ ended = "no"

Main == Start \/ Listen \/ ServeReturns \/ Close

Next == \/ Main
        \/ StartFails
        \/ AcceptFails
        \/ Signal
        \/ Stopper
        \/ \E s \in Services : WorkBegins(s) \/ WorkEnds(s) \/ LoopEnds(s)
        \/ \E h \in Handlers : Accept(h) \/ StoreFile(h) \/ StoreDedup(h) \/ StoreMeta(h)

\* Calls and deliveries end (clients have timeouts, peers go away), and a worker's select
\* picks a ready branch at random. Nothing is assumed of the others.
Fairness == /\ WF_vars(Main)
            /\ WF_vars(Stopper)
            /\ WF_vars(WorkEnds("rpc")) /\ WF_vars(WorkEnds("webhooks"))
            /\ SF_vars(LoopEnds("webhooks"))

Spec == Init /\ [][Next]_vars /\ Fairness

-----------------------------------------------------------------------------
\* Every variable holds a value of its type; no loop has more work than goroutines.
TypeOK ==
  /\ enabled \subseteq Optional
  /\ main \in {"starting", "serving", "closing", "gone"} /\ step \in 1..Len(Startup)
  /\ open \subseteq Stores /\ trapped \in BOOLEAN /\ quit \in BOOLEAN
  /\ stop \in 0..Len(Shutdown) + 1 /\ told \subseteq Services \cup {"http"}
  /\ alive \in [Services -> 0..2] /\ work \in [Services -> Nat]
  /\ \A s \in Services : work[s] <= IF s \in {"rpc", "replicator"} THEN MaxWork ELSE alive[s]
  /\ listener \in {"none", "open", "closed"}
  /\ handler \in [Handlers -> {"idle", "begun", "stored"}]
  /\ late \subseteq Handlers /\ partial \subseteq Handlers
  /\ ended \in {"no", "killed", "failed"}

\* When a signal has stopped the node and it closes its stores, no request can arrive, no
\* gRPC call is running and no webhook is being delivered; collector, replicator and
\* heartbeat are cancelled but may still be at work, like the handlers (serveCmd).
\* And however startup or serving ended, unless a signal killed the process during
\* startup, it does not end with a store open.
StoresOutliveServers ==
  /\ main = "closing" /\ ended = "no" =>
       /\ listener = "closed"
       /\ work["rpc"] = 0
       /\ alive["webhooks"] = 0 /\ work["webhooks"] = 0
       /\ \A s \in Services : alive[s] > 0 => s \in told
  /\ main = "gone" => open = {} \/ ended = "killed"

\* An upload acknowledged without its metadata (putObject ignores the error of a closed
\* store) was under way when the listener closed: none that began later, or ended earlier.
PartialOnlyIfLate == partial \subseteq late

\* Who can reach the API reaches a node that is complete: all stores open, the services of
\* the configuration started, signals trapped (the order of serveCmd, error returns included).
\* Types are as declared.
CompleteWhenServing ==
  /\ TypeOK
  /\ listener = "open" =>
       /\ open = Stores /\ trapped
       /\ \A s \in Services : alive[s] > 0 \/ s \in told
            \/ ~Wanted(IF s \in {"rpc", "replicator"} THEN "sync" ELSE s)

\* server.Stop came before server.Start: Shutdown without a listener does nothing, and
\* no further signal is read.
Deaf == stop > Len(Shutdown) /\ listener # "closed"

\* Once the stopper has taken a signal, the node ends, however many calls, deliveries and
\* passes are under way, or it is deaf.
SignalStops == (stop > 0) ~> (main = "gone" \/ Deaf)
=============================================================================
