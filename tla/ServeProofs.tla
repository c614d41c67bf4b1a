----------------------------- MODULE ServeProofs -----------------------------
(***************************************************************************)
(* The safety invariants of the life of a node's process, for any set of   *)
(* handlers, any configuration of the optional parts and any number of     *)
(* calls and replication cycles at once.                                   *)
(***************************************************************************)
EXTENDS Serve, TLAPS

-----------------------------------------------------------------------------
(* The inductive invariant                                                 *)

\* No service has more loops than it was started with.
CrewsOK == \A s \in Services : alive[s] <= Crew(s)

\* The service runs, or need not.
Up(s) == alive[s] > 0 \/ s \in told
           \/ ~Wanted(IF s \in {"rpc", "replicator"} THEN "sync" ELSE s)

\* Until main returns, what Startup lists before the next step is there; signals are
\* trapped last, and the listener opens after that.
StartupOK ==
  /\ main \in {"starting", "serving"} =>
       /\ step > 1 => "metadata" \in open
       /\ step > 2 => "dedup" \in open
       /\ step > 3 => Up("replicator") /\ Up("rpc")
       /\ step > 4 => "apikeys" \in open
       /\ step > 5 => Up("webhooks")
       /\ step > 6 => Up("coordinator")
       /\ step > 7 => Up("gc")
       /\ step > 8 => trapped
  /\ trapped => step = 9
  /\ quit \/ stop > 0 => trapped
  /\ main = "starting" => listener = "none"
  /\ main = "serving" => step = 9
  /\ listener = "open" => main = "serving"

\* The stopper has told everything it has passed, and what it waited for is over for good.
\* Only it closes the listener, and only that makes main return, unless something failed.
ShutdownOK ==
  /\ \A i \in 1..6 : i < stop => Shutdown[i] \in told
  /\ stop > 2 => alive["webhooks"] = 0
  /\ stop > 4 => work["rpc"] = 0
  /\ listener = "closed" /\ ended = "no" => stop >= 6
  /\ main = "closing" /\ ended = "no" => listener = "closed"
  /\ main = "gone" => open = {} \/ ended = "killed"

\* A handler at work began while the listener was open.
HandlersOK ==
  /\ \A h \in Handlers : handler[h] # "idle" =>
       listener # "none" /\ (listener = "closed" => h \in late)
  /\ PartialOnlyIfLate

IInv == TypeOK /\ CrewsOK /\ StartupOK /\ ShutdownOK /\ HandlersOK
-----------------------------------------------------------------------------
(* The two orders                                                          *)

\* The steps of startup, spelled out.
LEMMA StartupSteps ==
  /\ Len(Startup) = 9
  /\ Startup[1] = "metadata" /\ Startup[2] = "dedup" /\ Startup[3] = "sync"
  /\ Startup[4] = "apikeys" /\ Startup[5] = "webhooks" /\ Startup[6] = "coordinator"
  /\ Startup[7] = "gc" /\ Startup[8] = "notify" /\ Startup[9] = "listen"
  BY DEF Startup

\* The calls of the stopper, spelled out.
LEMMA ShutdownSteps ==
  /\ Len(Shutdown) = 6
  /\ Shutdown[1] = "gc" /\ Shutdown[2] = "webhooks" /\ Shutdown[3] = "replicator"
  /\ Shutdown[4] = "rpc" /\ Shutdown[5] = "coordinator" /\ Shutdown[6] = "http"
  BY DEF Shutdown

\* The process begins with nothing started.
LEMMA InitGood == Init => IInv
<1> SUFFICES ASSUME Init  PROVE IInv
  OBVIOUS
<1>1. TypeOK /\ CrewsOK
  <2>1. alive \in [Services -> 0..2] /\ work \in [Services -> Nat] /\ CrewsOK
    BY DEF Init, CrewsOK, Crew
  <2>2. \A s \in Services : work[s] <= IF s \in {"rpc", "replicator"} THEN MaxWork ELSE alive[s]
    BY MaxWorkAssumption DEF Init
  <2>3. step \in 1..Len(Startup) /\ stop \in 0..Len(Shutdown) + 1 /\ told \subseteq Services \cup {"http"}
    BY StartupSteps, ShutdownSteps DEF Init
  <2>4. trapped \in BOOLEAN /\ quit \in BOOLEAN
    BY DEF Init
  <2>5. open \subseteq Stores /\ enabled \subseteq Optional
    BY DEF Init
  <2> QED  BY <2>1, <2>2, <2>3, <2>4, <2>5 DEF Init, TypeOK
<1>2. StartupOK /\ ShutdownOK /\ HandlersOK
  BY DEF Init, StartupOK, ShutdownOK, HandlersOK, PartialOnlyIfLate, Services
<1> QED  BY <1>1, <1>2 DEF IInv

-----------------------------------------------------------------------------
(* main                                                                    *)

\* A step of startup opens a store, starts services, or traps signals.
LEMMA StartGood == IInv /\ Start => IInv'
<1> SUFFICES ASSUME IInv, Start  PROVE IInv'
  OBVIOUS
<1> USE DEF IInv
<1>1. /\ main = "starting" /\ main' = main /\ step \in 1..8 /\ step' = step + 1
      /\ stop = 0 /\ stop' = stop /\ ~quit /\ quit' = quit /\ ~trapped
      /\ listener = "none" /\ listener' = listener
      /\ UNCHANGED <<enabled, told, work, handler, late, partial, ended>>
  BY StartupSteps DEF Start, TypeOK, StartupOK
<1>2. trapped' \in BOOLEAN /\ (trapped' => step = 8) /\ (step = 8 => trapped')
  <2>1. trapped' = (trapped \/ Startup[step] = "notify")
    BY DEF Start
  <2>2. Startup[step] = "notify" <=> step = 8
    BY <1>1, StartupSteps
  <2> QED  BY <1>1, <2>1, <2>2, Zenon
<1>3. \A x \in Services : alive'[x] = IF Wanted(Startup[step]) /\ x \in Started(Startup[step])
                                     THEN Crew(x) ELSE alive[x]
  BY DEF Start
<1>4. open' = open \cup ({Startup[step]} \cap Stores)
  BY DEF Start
<1>5. TypeOK' /\ CrewsOK'
  <2>1. \A x \in Services : /\ alive'[x] \in 0..2 /\ alive[x] <= alive'[x] /\ alive'[x] <= Crew(x)
    BY <1>3 DEF TypeOK, CrewsOK, Crew
  <2>2. alive' \in [Services -> 0..2]
    BY <2>1 DEF Start
  <2>3. \A s \in Services : work[s] <= IF s \in {"rpc", "replicator"} THEN MaxWork ELSE alive'[s]
    BY <2>1 DEF TypeOK
  <2> QED  BY <1>1, <1>2, <1>4, <2>1, <2>2, <2>3, StartupSteps, ShutdownSteps DEF TypeOK, CrewsOK, Stores
<1>6. StartupOK'
  <2>1. \A x \in Services : Up(x) => Up(x)'
    BY <1>1, <1>3 DEF Up, Crew, Wanted, TypeOK
  <2>2. /\ step = 3 => Up("replicator")' /\ Up("rpc")'
        /\ step = 5 => Up("webhooks")'
        /\ step = 6 => Up("coordinator")'
        /\ step = 7 => Up("gc")'
    BY <1>1, <1>3, StartupSteps DEF Up, Crew, Wanted, Started, Services, Optional
  <2>3. /\ step' > 1 => "metadata" \in open'
        /\ step' > 2 => "dedup" \in open'
        /\ step' > 4 => "apikeys" \in open'
    <3>1. \A x \in Stores : x = Startup[step] \/ x \in open => x \in open'
      BY <1>4
    <3>2. /\ step > 1 => "metadata" \in open
          /\ step > 2 => "dedup" \in open
          /\ step > 4 => "apikeys" \in open
      BY <1>1 DEF StartupOK
    <3> QED  BY <1>1, <3>1, <3>2, StartupSteps DEF Stores
  <2>4. /\ step' > 3 => Up("replicator")' /\ Up("rpc")'
        /\ step' > 5 => Up("webhooks")'
        /\ step' > 6 => Up("coordinator")'
        /\ step' > 7 => Up("gc")'
    <3> HIDE DEF Up
    <3> QED  BY <1>1, <2>1, <2>2 DEF StartupOK, Services
  <2> QED  BY <1>1, <1>2, <2>3, <2>4 DEF StartupOK
<1>7. ShutdownOK' /\ HandlersOK'
  BY <1>1, ShutdownSteps DEF ShutdownOK, HandlersOK, PartialOnlyIfLate
<1> QED  BY <1>5, <1>6, <1>7
\* The listener opens when everything else is there.
LEMMA ListenGood == IInv /\ Listen => IInv'
<1> SUFFICES ASSUME IInv, Listen  PROVE IInv'
  OBVIOUS
<1> USE DEF IInv, Listen
<1>1. step = 9
  BY StartupSteps DEF TypeOK
<1>2. TypeOK' /\ CrewsOK'
  BY DEF TypeOK, CrewsOK
<1>3. StartupOK'
  BY <1>1 DEF StartupOK, Up, Wanted
<1>4. ShutdownOK' /\ HandlersOK'
  BY DEF ShutdownOK, HandlersOK, StartupOK, PartialOnlyIfLate
<1> QED  BY <1>2, <1>3, <1>4

\* main returns: because something failed, or because the listener is closed.
LEMMA ReturnGood == IInv /\ (StartFails \/ ServeReturns) => IInv'
<1> SUFFICES ASSUME IInv, StartFails \/ ServeReturns  PROVE IInv'
  OBVIOUS
<1> USE DEF IInv, StartFails, ServeReturns
<1>1. TypeOK' /\ CrewsOK'
  BY DEF TypeOK, CrewsOK
<1>2. StartupOK'
  BY DEF StartupOK
<1>3. ShutdownOK'
  BY DEF ShutdownOK
<1>4. HandlersOK'
  BY DEF HandlersOK, PartialOnlyIfLate
<1> QED  BY <1>1, <1>2, <1>3, <1>4

\* The listener closes, by itself or by the stopper: the handlers at work are late.
LEMMA CloseListenerGood ==
  ASSUME TypeOK, HandlersOK, CloseListener, UNCHANGED <<handler, partial>>
  PROVE  HandlersOK' /\ late' \subseteq Handlers
  BY DEF HandlersOK, TypeOK, CloseListener, Busy, PartialOnlyIfLate

\* Accept fails for good.
LEMMA AcceptFailsGood == IInv /\ AcceptFails => IInv'
<1> SUFFICES ASSUME IInv, AcceptFails  PROVE IInv'
  OBVIOUS
<1> USE DEF IInv, AcceptFails
<1>1. HandlersOK' /\ late' \subseteq Handlers
  BY CloseListenerGood
<1>2. TypeOK' /\ CrewsOK'
  BY <1>1 DEF TypeOK, CrewsOK, CloseListener
<1>3. StartupOK' /\ ShutdownOK'
  BY DEF StartupOK, ShutdownOK, CloseListener
<1> QED  BY <1>1, <1>2, <1>3

\* The stores are closed one after the other.
LEMMA CloseGood == IInv /\ Close => IInv'
<1> SUFFICES ASSUME IInv, Close  PROVE IInv'
  OBVIOUS
<1> USE DEF IInv, Close
<1>1. open' \subseteq open /\ main' \in {"closing", "gone"} /\ (main' = "gone" => open' = {})
  OBVIOUS
<1>2. TypeOK' /\ CrewsOK'
  BY <1>1 DEF TypeOK, CrewsOK
<1>3. StartupOK' /\ ShutdownOK'
  BY <1>1 DEF StartupOK, ShutdownOK
<1>4. HandlersOK'
  BY DEF HandlersOK, PartialOnlyIfLate
<1> QED  BY <1>2, <1>3, <1>4

-----------------------------------------------------------------------------
(* Signals and the stopper                                                 *)

\* A signal during startup kills the process; later ones wait in the channel.
LEMMA SignalGood == IInv /\ Signal => IInv'
<1> SUFFICES ASSUME IInv, Signal  PROVE IInv'
  OBVIOUS
<1> USE DEF IInv, Signal
<1>1. CASE trapped
  <2>1. quit' /\ quit' \in BOOLEAN /\ main' = main /\ ended' = ended
    BY <1>1 DEF TypeOK
  <2>2. TypeOK' /\ CrewsOK'
    BY <2>1 DEF TypeOK, CrewsOK
  <2>3. StartupOK'
    BY <1>1, <2>1 DEF StartupOK, Up, Wanted
  <2>4. ShutdownOK' /\ HandlersOK'
    BY <2>1 DEF ShutdownOK, HandlersOK, PartialOnlyIfLate
  <2> QED  BY <2>2, <2>3, <2>4
<1>2. CASE ~trapped
  <2>1. ~quit' /\ quit' \in BOOLEAN /\ main' = "gone" /\ ended' = "killed"
    BY <1>2 DEF TypeOK
  <2>2. stop = 0 /\ ~quit /\ listener # "open"
    BY <1>2 DEF StartupOK, TypeOK
  <2>3. TypeOK' /\ CrewsOK'
    BY <2>1 DEF TypeOK, CrewsOK
  <2>4. StartupOK' /\ ShutdownOK' /\ HandlersOK'
    BY <2>1, <2>2, <1>2 DEF StartupOK, ShutdownOK, HandlersOK, PartialOnlyIfLate
  <2> QED  BY <2>3, <2>4
<1> QED  BY <1>1, <1>2

\* The stopper takes a signal.
LEMMA StopBeginsGood == IInv /\ StopBegins => IInv'
<1> SUFFICES ASSUME IInv, StopBegins  PROVE IInv'
  OBVIOUS
<1> USE DEF IInv, StopBegins
<1>1. TypeOK' /\ CrewsOK'
  <2>1. quit' \in BOOLEAN
    OBVIOUS
  <2>2. stop' \in 0..Len(Shutdown) + 1
    BY ShutdownSteps
  <2> QED  BY <2>1, <2>2 DEF TypeOK, CrewsOK
<1>2. StartupOK'
  BY DEF StartupOK, Up, Wanted
<1>3. ShutdownOK' /\ HandlersOK'
  BY DEF ShutdownOK, HandlersOK, PartialOnlyIfLate
<1> QED  BY <1>1, <1>2, <1>3

\* It tells a service to stop, or closes the listener.
LEMMA StopTellsGood == IInv /\ StopTells => IInv'
<1> SUFFICES ASSUME IInv, StopTells  PROVE IInv'
  OBVIOUS
<1> USE DEF IInv
<1>1. /\ stop \in 1..6 /\ Shutdown[stop] \in Services \cup {"http"}
      /\ told' = told \cup {Shutdown[stop]} /\ (Shutdown[stop] = "http" <=> stop = 6)
      /\ UNCHANGED <<enabled, main, step, open, trapped, quit, stop, alive, work, handler, partial, ended>>
  BY ShutdownSteps DEF StopTells, Stopping, Services
<1>2. \/ stop = 6 /\ listener = "open" /\ CloseListener
      \/ UNCHANGED <<listener, late>>
  BY <1>1 DEF StopTells
<1>3. HandlersOK' /\ late' \subseteq Handlers /\ listener' \in {listener, "closed"}
  <2>1. CASE CloseListener
    BY <1>1, <2>1, CloseListenerGood DEF CloseListener
  <2>2. CASE UNCHANGED <<listener, late>>
    BY <1>1, <2>2 DEF HandlersOK, PartialOnlyIfLate, TypeOK
  <2> QED  BY <1>2, <2>1, <2>2
<1>4. TypeOK' /\ CrewsOK'
  BY <1>1, <1>3, ShutdownSteps DEF TypeOK, CrewsOK
<1>5. StartupOK'
  <2>1. \A s \in Services : Up(s) => Up(s)'
    BY <1>1 DEF Up, Wanted
  <2>2. listener' = listener \/ (main = "serving" /\ listener' = "closed")
    BY <1>2 DEF StartupOK, CloseListener
  <2> HIDE DEF Up
  <2> QED  BY <1>1, <2>1, <2>2 DEF StartupOK, Services
<1>6. ShutdownOK'
  <2>1. listener' = "closed" => listener = "closed" \/ stop = 6
    BY <1>2
  <2>2. main = "closing" /\ ended = "no" => listener' = "closed"
    BY <1>2 DEF ShutdownOK
  <2> QED  BY <1>1, <2>1, <2>2 DEF ShutdownOK
<1> QED  BY <1>3, <1>4, <1>5, <1>6

\* It has waited for what there is to wait for.
LEMMA StopGoesOnGood == IInv /\ StopGoesOn => IInv'
<1> SUFFICES ASSUME IInv, StopGoesOn  PROVE IInv'
  OBVIOUS
<1> USE DEF IInv
<1>1. /\ stop \in 1..6 /\ stop' = stop + 1 /\ Shutdown[stop] \in told
      /\ stop = 2 => alive["webhooks"] = 0
      /\ stop = 4 => work["rpc"] = 0
      /\ UNCHANGED <<enabled, main, step, open, trapped, quit, told, alive, work, listener, handler,
                      late, partial, ended>>
  BY ShutdownSteps DEF StopGoesOn, Stopping, Waits, Services
<1>2. TypeOK' /\ CrewsOK'
  BY <1>1, ShutdownSteps DEF TypeOK, CrewsOK
<1>3. StartupOK'
  BY <1>1 DEF StartupOK, Up, Wanted
<1>4. ShutdownOK' /\ HandlersOK'
  BY <1>1 DEF ShutdownOK, HandlersOK, PartialOnlyIfLate
<1> QED  BY <1>2, <1>3, <1>4
-----------------------------------------------------------------------------
(* Services and handlers                                                   *)

\* Work begins and ends only in services that run; the RPC server takes no call once it
\* was told to stop.
LEMMA WorkGood ==
  ASSUME IInv, NEW s \in Services, WorkBegins(s) \/ WorkEnds(s)
  PROVE  IInv'
<1> USE DEF IInv
<1>1. /\ UNCHANGED <<enabled, main, step, open, trapped, quit, stop, told, alive, listener, handler,
                      late, partial, ended>>
      /\ work' = [work EXCEPT ![s] = work'[s]]
      /\ work'[s] \in Nat
      /\ work'[s] <= IF s \in {"rpc", "replicator"} THEN MaxWork ELSE alive[s]
      /\ s = "rpc" /\ s \in told => work'[s] <= work[s]
  <2>1. CASE WorkBegins(s)
    BY <2>1, MaxWorkAssumption DEF WorkBegins, Room, TypeOK
  <2>2. CASE WorkEnds(s)
    BY <2>2, MaxWorkAssumption DEF WorkEnds, TypeOK
  <2> QED  BY <2>1, <2>2
<1>2. TypeOK' /\ CrewsOK'
  BY <1>1 DEF TypeOK, CrewsOK
<1>3. StartupOK'
  BY <1>1 DEF StartupOK, Up, Wanted
<1>4. stop > 4 => work'["rpc"] = 0
  <2> SUFFICES ASSUME stop > 4  PROVE work'["rpc"] = 0
    OBVIOUS
  <2>1. "rpc" \in told
    BY ShutdownSteps DEF ShutdownOK
  <2> QED  BY <1>1, <2>1 DEF ShutdownOK, TypeOK, Services
<1>5. ShutdownOK' /\ HandlersOK'
  BY <1>1, <1>4 DEF ShutdownOK, HandlersOK, PartialOnlyIfLate
<1> QED  BY <1>2, <1>3, <1>5

\* A loop that was told to stop ends.
LEMMA LoopEndsGood ==
  ASSUME IInv, NEW s \in Services, LoopEnds(s)
  PROVE  IInv'
<1> USE DEF IInv
<1>1. /\ UNCHANGED <<enabled, main, step, open, trapped, quit, stop, told, work, listener, handler,
                      late, partial, ended>>
      /\ alive' = [alive EXCEPT ![s] = alive[s] - 1]
      /\ s \in told /\ s # "rpc" /\ alive[s] > 0
      /\ s # "replicator" => work[s] <= alive[s] - 1
  BY DEF LoopEnds, TypeOK
<1>2. \A x \in Services : alive'[x] \in 0..2 /\ alive'[x] <= alive[x] /\ (x # s => alive'[x] = alive[x])
  BY <1>1 DEF TypeOK
<1>3. CrewsOK'
  BY <1>2 DEF CrewsOK, Crew, TypeOK
<1>4. TypeOK'
  <2>1. alive' \in [Services -> 0..2]
    BY <1>1, <1>2 DEF TypeOK
  <2>2. \A x \in Services : work'[x] <= IF x \in {"rpc", "replicator"} THEN MaxWork ELSE alive'[x]
    BY <1>1 DEF TypeOK
  <2> QED  BY <1>1, <2>1, <2>2 DEF TypeOK
<1>5. StartupOK'
  <2>1. \A x \in Services : Up(x) => Up(x)'
    BY <1>1, <1>2 DEF Up, Wanted
  <2> HIDE DEF Up
  <2> QED  BY <1>1, <2>1 DEF StartupOK, Services
<1>6. ShutdownOK' /\ HandlersOK'
  BY <1>1, <1>2 DEF ShutdownOK, HandlersOK, PartialOnlyIfLate, TypeOK, Services
<1> QED  BY <1>3, <1>4, <1>5, <1>6

\* A handler whose metadata finds the store closed was late: while the listener is open,
\* so are the stores.
LEMMA HandlerGood ==
  ASSUME IInv, NEW h \in Handlers, Accept(h) \/ StoreFile(h) \/ StoreDedup(h) \/ StoreMeta(h)
  PROVE  IInv'
<1> USE DEF IInv
<1>1. /\ UNCHANGED <<enabled, main, step, open, trapped, quit, stop, told, alive, work, listener,
                      late, ended>>
      /\ handler' \in [Handlers -> {"idle", "begun", "stored"}]
      /\ \A g \in Handlers : handler'[g] # "idle" => handler[g] # "idle" \/ listener = "open"
      /\ partial' \subseteq partial \cup {h}
      /\ h \in partial' => h \in partial \/ (handler[h] # "idle" /\ "metadata" \notin open)
  BY DEF Accept, StoreFile, StoreDedup, StoreMeta, Handle, TypeOK
<1>2. listener = "open" => "metadata" \in open
  BY DEF StartupOK
<1>3. HandlersOK'
  BY <1>1, <1>2 DEF HandlersOK, PartialOnlyIfLate, TypeOK
<1>4. TypeOK' /\ CrewsOK'
  BY <1>1 DEF TypeOK, CrewsOK
<1>5. StartupOK' /\ ShutdownOK'
  BY <1>1 DEF StartupOK, ShutdownOK, Up, Wanted
<1> QED  BY <1>3, <1>4, <1>5

-----------------------------------------------------------------------------
(* Theorems                                                                *)

\* Every step preserves the invariant.
LEMMA StepGood == IInv /\ [Next]_vars => IInv'
<1> SUFFICES ASSUME IInv, [Next]_vars  PROVE IInv'
  OBVIOUS
<1>1. CASE UNCHANGED vars
  BY <1>1 DEF vars, IInv, TypeOK, CrewsOK, StartupOK, ShutdownOK, HandlersOK, PartialOnlyIfLate,
     Up, Wanted
<1>2. CASE Main
  BY <1>2, StartGood, ListenGood, ReturnGood, CloseGood DEF Main
<1>3. CASE StartFails \/ AcceptFails \/ Signal
  BY <1>3, ReturnGood, AcceptFailsGood, SignalGood
<1>4. CASE Stopper
  BY <1>4, StopBeginsGood, StopTellsGood, StopGoesOnGood DEF Stopper
<1>5. CASE \E s \in Services : WorkBegins(s) \/ WorkEnds(s) \/ LoopEnds(s)
  BY <1>5, WorkGood, LoopEndsGood
<1>6. CASE \E h \in Handlers : Accept(h) \/ StoreFile(h) \/ StoreDedup(h) \/ StoreMeta(h)
  BY <1>6, HandlerGood
<1> QED  BY <1>1, <1>2, <1>3, <1>4, <1>5, <1>6 DEF Next

\* The invariant holds in every reachable state.
LEMMA Invariance == Spec => []IInv
  BY InitGood, StepGood, PTL DEF Spec

\* A node that closes its stores after a signal has no request arriving, no gRPC call and
\* no delivery under way, and it ends with its stores closed (serveCmd).
THEOREM StoresOutlive == Spec => []StoresOutliveServers
<1>1. IInv => StoresOutliveServers
  <2> SUFFICES ASSUME IInv, main = "closing", ended = "no"
               PROVE  /\ listener = "closed" /\ work["rpc"] = 0
                      /\ alive["webhooks"] = 0 /\ work["webhooks"] = 0
                      /\ \A s \in Services : s \in told \/ s = "http"
    BY DEF IInv, ShutdownOK, StoresOutliveServers, Services
  <2>1. listener = "closed" /\ stop >= 6 /\ stop \in Nat
    BY ShutdownSteps DEF IInv, ShutdownOK, TypeOK
  <2>2. work["rpc"] = 0 /\ alive["webhooks"] = 0
    BY <2>1 DEF IInv, ShutdownOK
  <2>3. work["webhooks"] = 0
    BY <2>2 DEF IInv, TypeOK, Services
  <2>4. \A s \in Services : s \in told
    BY <2>1, ShutdownSteps DEF IInv, ShutdownOK, Services
  <2> QED  BY <2>1, <2>2, <2>3, <2>4
<1> QED  BY <1>1, Invariance, PTL

\* An upload whose metadata was dropped by a closed store was at work when the listener
\* closed (putObject in flight during Shutdown).
THEOREM PartialsAreLate == Spec => []PartialOnlyIfLate
  BY Invariance, PTL DEF IInv, HandlersOK

\* The API is served only by a node whose stores, services and signal handler are there.
THEOREM ServesComplete == Spec => []CompleteWhenServing
<1>1. IInv => CompleteWhenServing
  <2> SUFFICES ASSUME IInv, listener = "open"
               PROVE  open = Stores /\ trapped /\ \A s \in Services : Up(s)
    BY DEF IInv, CompleteWhenServing, Up
  <2>1. step = 9 /\ main = "serving"
    BY DEF IInv, StartupOK
  <2>2. open = Stores
    <3>1. "metadata" \in open /\ "dedup" \in open /\ "apikeys" \in open
      BY <2>1 DEF IInv, StartupOK
    <3>2. open \subseteq Stores
      BY DEF IInv, TypeOK
    <3> QED  BY <3>1, <3>2 DEF Stores
  <2>3. \A s \in Services : Up(s)
    <3> HIDE DEF Up
    <3> QED  BY <2>1 DEF IInv, StartupOK, Services
  <2>4. trapped
    BY <2>1 DEF IInv, StartupOK
  <2> QED  BY <2>2, <2>3, <2>4
<1> QED  BY <1>1, Invariance, PTL
=============================================================================
