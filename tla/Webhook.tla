------------------------------ MODULE Webhook ------------------------------
(***************************************************************************)
(* internal/webhook: the dispatcher.  Handlers Emit an event: one delivery *)
(* job per matching target goes into a bounded channel, without waiting.   *)
(* Workers take jobs from the channel and POST them; a failed delivery is  *)
(* put back at the end of the channel after a pause spent in the worker,   *)
(* until its attempts are used up.  Stop closes a channel the workers look *)
(* at between jobs.                                                        *)
(***************************************************************************)
EXTENDS Naturals, Sequences, FiniteSets

CONSTANTS Events,      \* the calls of Emit
          Targets,     \* the configured targets, in order
          Wants,       \* matchesFilter: the pairs <<t, e>> t's filter lets pass
          BadURL,      \* targets whose URL http.NewRequest rejects
          Workers,     \* two in the code
          Capacity,    \* of the channel; 256 in the code
          MaxAttempts, \* Config.Retry.MaxAttempts, 0 replaced by 3
          None         \* no job

ASSUME CapacityAssumption == Capacity \in Nat \ {0}
ASSUME MaxAttemptsAssumption == MaxAttempts \in Nat \ {0}
ASSUME TargetsAssumption == Targets \in Seq({Targets[i] : i \in DOMAIN Targets})

\* A target is an entry of the configuration, also when two have the same URL.
ASSUME EntriesAssumption == \A i, j \in DOMAIN Targets : Targets[i] = Targets[j] => i = j

VARIABLES
  queue,   \* the channel
  worker,  \* what each worker is at, and the job it holds
  pos,     \* how many targets each Emit has dealt with
  stopped, \* stopCh is closed
  fate,    \* how the delivery of each event to each target ended
  posts    \* HTTP requests made for each event and target

vars == <<queue, worker, pos, stopped, fate, posts>>

TargetSet == {Targets[i] : i \in DOMAIN Targets}
Ids == Events \X TargetSet
Jobs == [id : Ids, attempt : 1..MaxAttempts]
Free == [pc |-> "select", job |-> None]

ASSUME NoneAssumption == None \notin Jobs

Full == Len(queue) >= Capacity

\* The delivery ends: it is known to have succeeded, or it is given up.
Settle(id, how) == fate' = [fate EXCEPT ![id] = how]

-----------------------------------------------------------------------------
(* Emit(event): one non-blocking send for each target that wants it        *)

EmitNext(e) ==
  /\ pos[e] < Len(Targets)
  /\ pos' = [pos EXCEPT ![e] = @ + 1]
  /\ LET t == Targets[pos[e] + 1]
     IN  IF <<t, e>> \notin Wants
         THEN Settle(<<e, t>>, "filtered") /\ UNCHANGED queue
         ELSE IF Full
         THEN Settle(<<e, t>>, "dropped") /\ UNCHANGED queue
         ELSE /\ queue' = Append(queue, [id |-> <<e, t>>, attempt |-> 1])
              /\ UNCHANGED fate
  /\ UNCHANGED <<worker, stopped, posts>>

\* close(stopCh); Stop then waits for the workers.
Stop ==
  /\ ~stopped
  /\ stopped' = TRUE
  /\ UNCHANGED <<queue, worker, pos, fate, posts>>

-----------------------------------------------------------------------------
(* worker and deliver.  Between jobs a worker takes whatever is ready: the *)
(* closed stopCh or a job, either when both are.                           *)

Halt(w) ==
  /\ worker[w].pc = "select"
  /\ stopped
  /\ worker' = [worker EXCEPT ![w].pc = "halted"]
  /\ UNCHANGED <<queue, pos, stopped, fate, posts>>

Take_Peeks(w) ==
  /\ worker[w].pc = "select"
  /\ queue # <<>>
  /\ worker' = [worker EXCEPT ![w] = [pc |-> "post", job |-> Head(queue)]]
  /\ UNCHANGED <<queue, pos, stopped, fate, posts>>

Take(w) ==
  /\ worker[w].pc = "select"
  /\ queue # <<>>
  /\ worker' = [worker EXCEPT ![w] = [pc |-> "post", job |-> Head(queue)]]
  /\ queue' = Tail(queue)
  /\ UNCHANGED <<pos, stopped, fate, posts>>

Invalid(w) ==
  /\ worker[w].pc = "post"
  /\ worker[w].job.id[2] \in BadURL
  /\ Settle(worker[w].job.id, "invalid")
  /\ worker' = [worker EXCEPT ![w] = Free]
  /\ UNCHANGED <<queue, pos, stopped, posts>>

Post(w) ==
  /\ worker[w].pc = "post"
  /\ worker[w].job.id[2] \notin BadURL
  /\ posts' = [posts EXCEPT ![worker[w].job.id] = @ + 1]
  /\ UNCHANGED <<queue, pos, stopped>>

PostSucceeds(w) ==
  /\ Post(w)
  /\ Settle(worker[w].job.id, "delivered")
  /\ worker' = [worker EXCEPT ![w] = Free]

MayRetry_OneMore(job) == job.attempt <= MaxAttempts
MayRetry(job) == job.attempt < MaxAttempts

\* A transport error, a timeout or a status of 400 and above; the receiver
\* may have processed the request all the same.
PostFails(w) ==
  /\ Post(w)
  /\ IF MayRetry(worker[w].job)
     THEN worker' = [worker EXCEPT ![w].pc = "backoff"] /\ UNCHANGED fate
     ELSE /\ Settle(worker[w].job.id, "exhausted")
          /\ worker' = [worker EXCEPT ![w] = Free]

Requeue_Waits(w) ==
  LET job == worker[w].job
  IN  /\ worker[w].pc = "backoff"
      /\ ~Full
      /\ queue' = Append(queue, [job EXCEPT !.attempt = @ + 1])
      /\ worker' = [worker EXCEPT ![w] = Free]
      /\ UNCHANGED <<pos, stopped, fate, posts>>

\* The worker has slept attempt * BackoffSecs, whatever happened meanwhile.
Requeue(w) ==
  LET job == worker[w].job
  IN  /\ worker[w].pc = "backoff"
      /\ IF Full
         THEN Settle(job.id, "crowded out") /\ UNCHANGED queue
         ELSE /\ queue' = Append(queue, [job EXCEPT !.attempt = @ + 1])
              /\ UNCHANGED fate
      /\ worker' = [worker EXCEPT ![w] = Free]
      /\ UNCHANGED <<pos, stopped, posts>>

-----------------------------------------------------------------------------
Init ==
  /\ queue = <<>>
  /\ worker = [w \in Workers |-> Free]
  /\ pos = [e \in Events |-> 0]
  /\ stopped = FALSE
  /\ fate = [id \in Ids |-> "none"]
  /\ posts = [id \in Ids |-> 0]

Work(w) == \/ Halt(w) \/ Take(w) \/ Invalid(w)
           \/ PostSucceeds(w) \/ PostFails(w) \/ Requeue(w)

Next == \/ \E e \in Events : EmitNext(e)
        \/ \E w \in Workers : Work(w)
        \/ Stop

\* The client has a timeout and the pause is finite, so a worker that can go
\* on does.  Nothing obliges anyone to Emit or to Stop.
Spec == Init /\ [][Next]_vars /\ \A w \in Workers : WF_vars(Work(w))

-----------------------------------------------------------------------------
(* Properties                                                              *)

Fates == {"none", "filtered", "dropped", "invalid", "delivered", "exhausted",
          "crowded out"}

\* The channel stays within its capacity, attempts within their maximum, and
\* a worker has a job exactly while it delivers one.
TypeOK ==
  /\ queue \in Seq(Jobs) /\ Len(queue) <= Capacity
  /\ worker \in [Workers -> [pc : {"post", "backoff"}, job : Jobs]
                            \cup [pc : {"select", "halted"}, job : {None}]]
  /\ pos \in [Events -> 0..Len(Targets)]
  /\ stopped \in BOOLEAN
  /\ fate \in [Ids -> Fates]
  /\ posts \in [Ids -> Nat]

Queued(id) == {i \in DOMAIN queue : queue[i].id = id}
Held(id) == {w \in Workers : worker[w].job # None /\ worker[w].job.id = id}
Offered(id) == \E i \in 1..pos[id[1]] : Targets[i] = id[2]

\* A delivery that Emit has dealt with is at exactly one place: in the
\* channel, with one worker, or at its end; before, it is nowhere.  No race
\* of workers, retries and a full channel loses or doubles one silently.
JobConserved ==
  \A id \in Ids :
    Cardinality(Queued(id)) + Cardinality(Held(id))
      + (IF fate[id] = "none" THEN 0 ELSE 1)
    = IF Offered(id) THEN 1 ELSE 0

\* The attempt a job carries counts the requests made for it, so that no
\* event is posted to a target more than MaxAttempts times, and none is
\* given up as exhausted before. Types are as declared.
AttemptsCounted ==
  /\ TypeOK
  /\ \A i \in DOMAIN queue : queue[i].attempt = posts[queue[i].id] + 1
  /\ \A w \in Workers :
       LET job == worker[w].job
       IN  /\ worker[w].pc = "post" => job.attempt = posts[job.id] + 1
           /\ worker[w].pc = "backoff" => job.attempt = posts[job.id]
  /\ \A id \in Ids : /\ posts[id] <= MaxAttempts
                     /\ fate[id] = "exhausted" => posts[id] = MaxAttempts

\* Unless the dispatcher is stopped every job that got into the channel comes
\* to an end: retrying workers and a full channel never wait for each other.
JobResolved ==
  \A id \in Ids : Queued(id) # {} ~> (fate[id] # "none" \/ stopped)

\* Stop returns: once stopCh is closed both workers leave their loops, even
\* while handlers go on emitting.
StopReturns == stopped ~> \A w \in Workers : worker[w].pc = "halted"
=============================================================================
