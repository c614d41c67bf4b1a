---------------------------- MODULE WebhookProofs ----------------------------
(***************************************************************************)
(* No delivery is lost or doubled, and none is tried too often, for any    *)
(* number of events, targets and workers, any capacity of the channel and  *)
(* any maximum of attempts.                                                *)
(***************************************************************************)
EXTENDS Webhook, FiniteSetTheorems, SequenceTheorems, TLAPS

-----------------------------------------------------------------------------
(* The inductive invariant                                                 *)

Holds(w) == worker[w].pc \in {"post", "backoff"}

\* No two jobs, in the channel or with workers, are for the same event and target.
JobsApart ==
  /\ \A i, j \in DOMAIN queue : queue[i].id = queue[j].id => i = j
  /\ \A v, w \in Workers : Holds(v) /\ Holds(w) /\ worker[v].job.id = worker[w].job.id => v = w
  /\ \A i \in DOMAIN queue, w \in Workers : Holds(w) => queue[i].id # worker[w].job.id

\* There is a job for id.
Underway(id) == \/ \E i \in DOMAIN queue : queue[i].id = id
                \/ \E w \in Workers : Holds(w) /\ worker[w].job.id = id

\* A delivery that was offered is under way or at its end, never both.
Accounted ==
  \A id \in Ids : /\ Underway(id) \/ fate[id] # "none" <=> Offered(id)
                  /\ ~(Underway(id) /\ fate[id] # "none")

\* The jobs count the requests made for them, as AttemptsCounted has it, and
\* only one that has an attempt left waits to be put back.
AttemptsOK ==
  /\ \A i \in DOMAIN queue : queue[i].attempt = posts[queue[i].id] + 1
  /\ \A w \in Workers :
       /\ worker[w].pc = "post" => worker[w].job.attempt = posts[worker[w].job.id] + 1
       /\ worker[w].pc = "backoff" => /\ worker[w].job.attempt = posts[worker[w].job.id]
                                      /\ worker[w].job.attempt < MaxAttempts
  /\ \A id \in Ids : posts[id] <= MaxAttempts /\ (fate[id] = "exhausted" => posts[id] = MaxAttempts)

\* Nothing is posted that was not offered.
Untried == \A id \in Ids : ~Offered(id) => posts[id] = 0

IInv == TypeOK /\ JobsApart /\ Accounted /\ AttemptsOK /\ Untried

-----------------------------------------------------------------------------
(* Lemmas about the parts of the state                                     *)

\* The targets are a sequence without repetitions.
LEMMA TargetFacts ==
  /\ Len(Targets) \in Nat /\ DOMAIN Targets = 1..Len(Targets)
  /\ \A i \in 1..Len(Targets) : Targets[i] \in TargetSet
<1>1. Targets \in Seq(TargetSet)
  BY TargetsAssumption DEF TargetSet
<1> QED  BY <1>1, LenProperties, ElementOfSeq

\* A worker's job, while it has one.
LEMMA JobOfWorker ==
  ASSUME TypeOK, NEW w \in Workers
  PROVE  /\ Holds(w) => /\ worker[w].job \in Jobs /\ worker[w].job # None
                         /\ worker[w].job.id \in Ids /\ worker[w].job.attempt \in 1..MaxAttempts
         /\ ~Holds(w) => worker[w].job = None /\ worker[w].pc \in {"select", "halted"}
  BY NoneAssumption DEF TypeOK, Holds, Jobs

\* The jobs in the channel.
LEMMA JobsOfQueue ==
  ASSUME TypeOK
  PROVE  /\ Len(queue) \in Nat /\ DOMAIN queue = 1..Len(queue)
         /\ \A i \in 1..Len(queue) : queue[i] \in Jobs /\ queue[i].id \in Ids
<1>1. queue \in Seq(Jobs)
  BY DEF TypeOK
<1>2. \A i \in 1..Len(queue) : queue[i] \in Jobs
  BY <1>1, ElementOfSeq
<1> QED  BY <1>1, <1>2, LenProperties DEF Jobs

\* A job put at the end of the channel.
LEMMA Appended ==
  ASSUME TypeOK, NEW job \in Jobs, ~Full, queue' = Append(queue, job)
  PROVE  /\ queue' \in Seq(Jobs) /\ Len(queue') <= Capacity
         /\ DOMAIN queue' = 1..Len(queue) + 1
         /\ \A i \in 1..Len(queue) : queue'[i] = queue[i]
         /\ queue'[Len(queue) + 1] = job
<1>1. queue \in Seq(Jobs)
  BY DEF TypeOK
<1>2. /\ queue' \in Seq(Jobs) /\ Len(queue') = Len(queue) + 1
      /\ \A i \in 1..Len(queue) : queue'[i] = queue[i]
      /\ queue'[Len(queue) + 1] = job
  BY <1>1, AppendProperties
<1>3. Len(queue') <= Capacity
  BY <1>2, JobsOfQueue, CapacityAssumption DEF Full
<1> QED  BY <1>2, <1>3, LenProperties

\* A job taken from the front of the channel.
LEMMA Taken ==
  ASSUME TypeOK, queue # <<>>, queue' = Tail(queue)
  PROVE  /\ queue' \in Seq(Jobs) /\ Len(queue') <= Capacity
         /\ Len(queue) >= 1 /\ Head(queue) = queue[1]
         /\ DOMAIN queue' = 1..Len(queue) - 1
         /\ \A i \in 1..Len(queue) - 1 : queue'[i] = queue[i + 1]
<1>1. queue \in Seq(Jobs)
  BY DEF TypeOK
<1>2. /\ queue' \in Seq(Jobs) /\ Len(queue') = Len(queue) - 1
      /\ \A i \in 1..Len(queue') : queue'[i] = queue[i + 1]
  BY <1>1, HeadTailProperties
<1>3. Len(queue) \in Nat \ {0} /\ Len(queue) <= Capacity
  BY <1>1, EmptySeq DEF TypeOK
<1>4. Head(queue) = queue[1]
  BY <1>1, <1>3
<1> QED  BY <1>2, <1>3, <1>4, LenProperties, CapacityAssumption

\* The dispatcher begins with no event emitted.
LEMMA InitGood == Init => IInv
<1> SUFFICES ASSUME Init  PROVE IInv
  OBVIOUS
<1> USE DEF Init
<1>1. DOMAIN queue = {} /\ queue \in Seq(Jobs) /\ Len(queue) = 0
  BY EmptySeq
<1>2. TypeOK
  <2>1. Len(queue) <= Capacity
    BY <1>1, CapacityAssumption
  <2>2. \A w \in Workers : worker[w] \in [pc : {"select", "halted"}, job : {None}]
    BY DEF Free
  <2>3. pos \in [Events -> 0..Len(Targets)]
    BY TargetFacts
  <2>4. fate \in [Ids -> Fates] /\ posts \in [Ids -> Nat]
    BY DEF Fates
  <2> QED  BY <1>1, <2>1, <2>2, <2>3, <2>4 DEF TypeOK
<1>3. JobsApart
  BY <1>1 DEF JobsApart, Holds, Free
<1>4. Accounted
  BY <1>1 DEF Accounted, Underway, Offered, Holds, Free, Ids
<1>5. AttemptsOK
  BY <1>1, MaxAttemptsAssumption DEF AttemptsOK, Free
<1>6. Untried
  BY DEF Untried
<1> QED  BY <1>2, <1>3, <1>4, <1>5, <1>6 DEF IInv

-----------------------------------------------------------------------------
(* Emit                                                                    *)

\* Emit offers the event to one more target.
LEMMA OfferedNext ==
  ASSUME TypeOK, NEW e \in Events, pos[e] < Len(Targets), pos' = [pos EXCEPT ![e] = @ + 1],
         NEW t, t = Targets[pos[e] + 1]
  PROVE  /\ <<e, t>> \in Ids /\ pos' \in [Events -> 0..Len(Targets)]
         /\ ~Offered(<<e, t>>)
         /\ \A id \in Ids : Offered(id)' <=> Offered(id) \/ id = <<e, t>>
<1>1. pos[e] \in Nat /\ pos[e] + 1 \in 1..Len(Targets)
  BY TargetFacts DEF TypeOK
<1>2. <<e, t>> \in Ids
  BY <1>1, TargetFacts DEF Ids
<1>3. pos' \in [Events -> 0..Len(Targets)]
  BY <1>1, TargetFacts DEF TypeOK
<1>4. ~Offered(<<e, t>>)
  <2> SUFFICES ASSUME NEW i \in 1..pos[e], Targets[i] = t  PROVE FALSE
    BY DEF Offered
  <2> QED  BY <1>1, TargetFacts, EntriesAssumption
<1>5. ASSUME NEW id \in Ids
      PROVE  Offered(id)' <=> Offered(id) \/ id = <<e, t>>
  <2>1. PICK d \in Events, u \in TargetSet : id = <<d, u>>
    BY DEF Ids
  <2>2. CASE d = e
    <3>1. pos'[d] = pos[e] + 1
      BY <2>2 DEF TypeOK
    <3>2. 1..pos'[d] = 1..pos[e] \cup {pos[e] + 1}
      BY <1>1, <3>1
    <3> QED  BY <2>1, <2>2, <3>2 DEF Offered
  <2>3. CASE d # e
    BY <2>1, <2>3 DEF Offered, TypeOK
  <2> QED  BY <2>2, <2>3
<1> QED  BY <1>2, <1>3, <1>4, <1>5

\* Whether the job goes into the channel or not, it is accounted for once.
LEMMA EmitGood ==
  ASSUME IInv, NEW e \in Events, EmitNext(e)
  PROVE  IInv'
<1> USE DEF IInv
<1> DEFINE t == Targets[pos[e] + 1]
           new == <<e, t>>
<1>1. /\ pos[e] < Len(Targets) /\ pos' = [pos EXCEPT ![e] = @ + 1]
      /\ UNCHANGED <<worker, stopped, posts>>
  BY DEF EmitNext
<1>2. /\ new \in Ids /\ pos' \in [Events -> 0..Len(Targets)]
      /\ ~Offered(new)
      /\ \A id \in Ids : Offered(id)' <=> Offered(id) \/ id = new
  BY <1>1, OfferedNext
<1> HIDE DEF new
<1>3. ~Underway(new) /\ fate[new] = "none"
  BY <1>2 DEF Accounted
<1>4. Untried'
  BY <1>1, <1>2 DEF Untried
<1>5. CASE \E how \in Fates \ {"none", "exhausted"} : Settle(new, how) /\ UNCHANGED queue
  <2>1. PICK how \in Fates \ {"none", "exhausted"} : fate' = [fate EXCEPT ![new] = how]
    BY <1>5 DEF Settle
  <2>2. TypeOK'
    BY <1>1, <1>2, <1>5, <2>1 DEF TypeOK
  <2>3. JobsApart'
    BY <1>1, <1>5 DEF JobsApart, Holds
  <2>4. \A id \in Ids : /\ Underway(id)' <=> Underway(id)
                        /\ fate'[id] = IF id = new THEN how ELSE fate[id]
    BY <1>1, <1>5, <2>1 DEF Underway, Holds, TypeOK
  <2>5. Accounted'
    BY <1>2, <1>3, <2>4 DEF Accounted
  <2>6. AttemptsOK'
    BY <1>1, <1>5, <2>4 DEF AttemptsOK
  <2> QED  BY <1>4, <2>2, <2>3, <2>5, <2>6
<1>6. CASE ~Full /\ queue' = Append(queue, [id |-> new, attempt |-> 1]) /\ UNCHANGED fate
  <2> DEFINE job == [id |-> new, attempt |-> 1]
  <2>1. job \in Jobs /\ job.id = new /\ job.attempt = 1
    BY <1>2, MaxAttemptsAssumption DEF Jobs
  <2>2. /\ queue' \in Seq(Jobs) /\ Len(queue') <= Capacity
        /\ DOMAIN queue' = 1..Len(queue) + 1
        /\ \A i \in 1..Len(queue) : queue'[i] = queue[i]
        /\ queue'[Len(queue) + 1] = job
    BY <1>6, <2>1, Appended
  <2>3. Len(queue) \in Nat /\ DOMAIN queue = 1..Len(queue)
    BY JobsOfQueue
  <2> HIDE DEF job
  <2>4. TypeOK'
    BY <1>1, <1>2, <1>6, <2>2 DEF TypeOK
  <2>5. JobsApart'
    BY <1>1, <1>3, <2>1, <2>2, <2>3 DEF JobsApart, Holds, Underway
  <2>6. \A id \in Ids : Underway(id)' <=> Underway(id) \/ id = new
    BY <1>1, <2>1, <2>2, <2>3 DEF Underway, Holds
  <2>7. Accounted'
    BY <1>2, <1>3, <1>6, <2>6 DEF Accounted
  <2>8. posts[new] = 0
    BY <1>2 DEF Untried
  <2>9. AttemptsOK'
    BY <1>1, <1>6, <2>1, <2>2, <2>3, <2>8 DEF AttemptsOK
  <2> QED  BY <1>4, <2>4, <2>5, <2>7, <2>9
<1>7. \/ Settle(new, "filtered") /\ UNCHANGED queue
      \/ Settle(new, "dropped") /\ UNCHANGED queue
      \/ ~Full /\ queue' = Append(queue, [id |-> new, attempt |-> 1]) /\ UNCHANGED fate
  BY DEF EmitNext, new
<1> QED  BY <1>5, <1>6, <1>7 DEF Fates

-----------------------------------------------------------------------------
(* Stop and the workers                                                    *)

\* Stop takes no job from its place, nor does a worker that leaves.
LEMMA StopGood ==
  ASSUME IInv, Stop \/ (\E w \in Workers : Halt(w)) \/ UNCHANGED vars
  PROVE  IInv'
<1> USE DEF IInv
<1>1. UNCHANGED <<queue, pos, fate, posts>>
  BY DEF Stop, Halt, vars
<1>2. \A w \in Workers : \/ worker'[w] = worker[w]
                          \/ /\ worker[w].pc = "select"
                             /\ worker'[w] = [worker[w] EXCEPT !.pc = "halted"]
  BY DEF Stop, Halt, vars, TypeOK
<1>3. ASSUME NEW w \in Workers
      PROVE  /\ Holds(w)' <=> Holds(w)
             /\ worker'[w].job = worker[w].job
             /\ worker'[w].pc \in {"post", "backoff"} => worker'[w].pc = worker[w].pc
  <2>1. CASE worker'[w] = worker[w]
    BY <2>1 DEF Holds
  <2>2. CASE worker[w].pc = "select" /\ worker'[w] = [worker[w] EXCEPT !.pc = "halted"]
    <3>1. worker[w] \in [pc : {"select"}, job : {None}]
      BY <2>2 DEF TypeOK
    <3>2. worker'[w].pc = "halted" /\ worker'[w].job = worker[w].job
      BY <2>2, <3>1
    <3> QED  BY <2>2, <3>2 DEF Holds
  <2> QED  BY <1>2, <2>1, <2>2
<1>4. TypeOK'
  <2>1. stopped' \in BOOLEAN
    BY DEF Stop, Halt, vars, TypeOK
  <2>2. DOMAIN worker' = Workers /\ worker' = [w \in Workers |-> worker'[w]]
    BY DEF Stop, Halt, vars, TypeOK
  <2>3. \A w \in Workers : worker'[w] \in [pc : {"post", "backoff"}, job : Jobs]
                                          \cup [pc : {"select", "halted"}, job : {None}]
    BY <1>2 DEF TypeOK
  <2> QED  BY <1>1, <2>1, <2>2, <2>3 DEF TypeOK
<1>5. JobsApart'
  BY <1>1, <1>3 DEF JobsApart
<1>6. Accounted'
  BY <1>1, <1>3 DEF Accounted, Underway, Offered
<1>7. AttemptsOK'
  BY <1>1, <1>3 DEF AttemptsOK
<1>8. Untried'
  BY <1>1 DEF Untried, Offered
<1> QED  BY <1>4, <1>5, <1>6, <1>7, <1>8

\* A job moves from the front of the channel to one worker.
LEMMA TakeGood ==
  ASSUME IInv, NEW w \in Workers, Take(w)
  PROVE  IInv'
<1> USE DEF IInv
<1> DEFINE job == queue[1]
<1>1. /\ queue' \in Seq(Jobs) /\ Len(queue') <= Capacity
      /\ Len(queue) >= 1 /\ Head(queue) = job
      /\ DOMAIN queue' = 1..Len(queue) - 1
      /\ \A i \in 1..Len(queue) - 1 : queue'[i] = queue[i + 1]
  BY Taken DEF Take
<1>2. /\ Len(queue) \in Nat /\ DOMAIN queue = 1..Len(queue)
      /\ job \in Jobs /\ job.id \in Ids
  BY <1>1, JobsOfQueue
<1> HIDE DEF job
<1>3. UNCHANGED <<pos, stopped, fate, posts>>
  BY DEF Take
<1>4. /\ \A v \in Workers : v # w => worker'[v] = worker[v]
      /\ worker'[w] = [pc |-> "post", job |-> job]
  BY <1>1 DEF Take, TypeOK
<1>5. ~Holds(w) /\ Holds(w)' /\ \A v \in Workers : v # w => (Holds(v)' <=> Holds(v))
  BY <1>4 DEF Take, Holds
<1>6. TypeOK'
  <2>1. [pc |-> "post", job |-> job] \in [pc : {"post", "backoff"}, job : Jobs]
    BY <1>2
  <2>2. worker' \in [Workers -> [pc : {"post", "backoff"}, job : Jobs]
                                \cup [pc : {"select", "halted"}, job : {None}]]
    BY <1>1, <2>1 DEF Take, TypeOK
  <2> QED  BY <1>1, <1>3, <2>2 DEF TypeOK
<1>7. JobsApart'
  <2>1. ASSUME NEW i \in DOMAIN queue'
        PROVE  i + 1 \in DOMAIN queue /\ queue'[i] = queue[i + 1] /\ queue'[i].id # job.id
    BY <1>1, <1>2 DEF JobsApart, job
  <2>2. \A i, j \in DOMAIN queue' : queue'[i].id = queue'[j].id => i = j
    <3> SUFFICES ASSUME NEW i \in DOMAIN queue', NEW j \in DOMAIN queue', queue'[i].id = queue'[j].id
                 PROVE  i = j
      OBVIOUS
    <3>1. i + 1 = j + 1
      BY <2>1 DEF JobsApart
    <3> QED  BY <1>1, <1>2, <3>1
  <2>3. \A v \in Workers : Holds(v) => worker[v].job.id # job.id
    BY <1>1, <1>2 DEF JobsApart, job
  <2>4. \A u, v \in Workers : Holds(u)' /\ Holds(v)' /\ worker'[u].job.id = worker'[v].job.id => u = v
    BY <1>4, <1>5, <2>3 DEF JobsApart
  <2>5. \A i \in DOMAIN queue', v \in Workers : Holds(v)' => queue'[i].id # worker'[v].job.id
    BY <1>4, <1>5, <2>1 DEF JobsApart
  <2> QED  BY <2>2, <2>4, <2>5 DEF JobsApart
<1>8. \A id \in Ids : Underway(id)' <=> Underway(id)
  <2> TAKE id \in Ids
  <2>1. (\E i \in DOMAIN queue : queue[i].id = id)
          <=> job.id = id \/ \E i \in DOMAIN queue' : queue'[i].id = id
    <3>1. \A i \in DOMAIN queue : i = 1 \/ (i - 1 \in DOMAIN queue' /\ queue'[i - 1] = queue[i])
      BY <1>1, <1>2
    <3>2. \A i \in DOMAIN queue' : i + 1 \in DOMAIN queue /\ queue'[i] = queue[i + 1]
      BY <1>1, <1>2
    <3>3. 1 \in DOMAIN queue
      BY <1>1, <1>2
    <3> QED  BY <3>1, <3>2, <3>3 DEF job
  <2>2. (\E v \in Workers : Holds(v)' /\ worker'[v].job.id = id)
          <=> job.id = id \/ \E v \in Workers : Holds(v) /\ worker[v].job.id = id
    BY <1>4, <1>5
  <2> QED  BY <2>1, <2>2 DEF Underway
<1>9. Accounted' /\ Untried'
  BY <1>3, <1>8 DEF Accounted, Untried, Offered
<1>10. AttemptsOK'
  <2>1. \A i \in DOMAIN queue' : queue'[i].attempt = posts'[queue'[i].id] + 1
    <3>1. \A i \in DOMAIN queue' : i + 1 \in DOMAIN queue /\ queue'[i] = queue[i + 1]
      BY <1>1, <1>2
    <3> QED  BY <1>3, <3>1 DEF AttemptsOK
  <2>2. job.attempt = posts[job.id] + 1
    BY <1>1, <1>2 DEF AttemptsOK, job
  <2>3. ASSUME NEW v \in Workers
        PROVE  /\ worker'[v].pc = "post" => worker'[v].job.attempt = posts'[worker'[v].job.id] + 1
               /\ worker'[v].pc = "backoff" => /\ worker'[v].job.attempt = posts'[worker'[v].job.id]
                                               /\ worker'[v].job.attempt < MaxAttempts
    BY <1>3, <1>4, <2>2 DEF AttemptsOK
  <2> QED  BY <1>3, <2>1, <2>3 DEF AttemptsOK
<1> QED  BY <1>6, <1>7, <1>9, <1>10

\* A worker ends the delivery of its job and is free again.
LEMMA Ended ==
  ASSUME IInv, NEW w \in Workers, Holds(w), NEW how \in Fates \ {"none"},
         Settle(worker[w].job.id, how), worker' = [worker EXCEPT ![w] = Free],
         UNCHANGED <<queue, pos, stopped>>,
         NEW n \in Nat, posts' = [posts EXCEPT ![worker[w].job.id] = n],
         n <= MaxAttempts, how = "exhausted" => n = MaxAttempts
  PROVE  IInv'
<1> USE DEF IInv
<1> DEFINE old == worker[w].job.id
<1>1. old \in Ids
  BY JobOfWorker
<1> HIDE DEF old
<1>2. \A id \in Ids : fate'[id] = IF id = old THEN how ELSE fate[id]
  BY DEF Settle, TypeOK, old
<1>3. /\ \A v \in Workers : v # w => worker'[v] = worker[v]
      /\ worker'[w] = [pc |-> "select", job |-> None]
  BY DEF TypeOK, Free
<1>4. ~Holds(w)' /\ \A v \in Workers : v # w => (Holds(v)' <=> Holds(v))
  BY <1>3 DEF Holds
<1>5. /\ \A v \in Workers : Holds(v) /\ v # w => worker[v].job.id # old
      /\ \A i \in DOMAIN queue : queue[i].id # old
  BY DEF JobsApart, old
<1>6. TypeOK'
  <2>1. fate' \in [Ids -> Fates] /\ posts' \in [Ids -> Nat]
    BY <1>1 DEF Settle, TypeOK, old
  <2>2. Free \in [pc : {"select", "halted"}, job : {None}]
    BY DEF Free
  <2>3. worker' \in [Workers -> [pc : {"post", "backoff"}, job : Jobs]
                                \cup [pc : {"select", "halted"}, job : {None}]]
    BY <2>2 DEF TypeOK
  <2> QED  BY <2>1, <2>3 DEF TypeOK
<1>7. JobsApart'
  BY <1>3, <1>4 DEF JobsApart
<1>8. \A id \in Ids : Underway(id)' <=> Underway(id) /\ id # old
  BY <1>3, <1>4, <1>5 DEF Underway, old
<1>9. Underway(old)
  BY DEF Underway, old
<1>10. Accounted'
  BY <1>1, <1>2, <1>8, <1>9 DEF Accounted, Offered
<1>11. \A id \in Ids : posts'[id] = IF id = old THEN n ELSE posts[id]
  BY DEF TypeOK, old
<1>12. Untried'
  BY <1>1, <1>9, <1>11 DEF Untried, Accounted, Offered
<1>13. AttemptsOK'
  <2>1. \A i \in DOMAIN queue : queue[i].id \in Ids /\ posts'[queue[i].id] = posts[queue[i].id]
    BY <1>5, <1>11, JobsOfQueue
  <2>2. ASSUME NEW v \in Workers, Holds(v)'
        PROVE  worker'[v] = worker[v] /\ posts'[worker[v].job.id] = posts[worker[v].job.id]
    BY <1>3, <1>4, <1>5, <1>11, <2>2, JobOfWorker
  <2>3. ASSUME NEW v \in Workers
        PROVE  /\ worker'[v].pc = "post" => worker'[v].job.attempt = posts'[worker'[v].job.id] + 1
               /\ worker'[v].pc = "backoff" => /\ worker'[v].job.attempt = posts'[worker'[v].job.id]
                                               /\ worker'[v].job.attempt < MaxAttempts
    BY <2>2 DEF AttemptsOK, Holds
  <2>4. \A id \in Ids : posts'[id] <= MaxAttempts /\ (fate'[id] = "exhausted" => posts'[id] = MaxAttempts)
    BY <1>2, <1>11 DEF AttemptsOK
  <2> QED  BY <2>1, <2>3, <2>4 DEF AttemptsOK
<1> QED  BY <1>6, <1>7, <1>10, <1>12, <1>13

\* A target's URL that no request can be made for ends its deliveries.
LEMMA InvalidGood ==
  ASSUME IInv, NEW w \in Workers, Invalid(w)
  PROVE  IInv'
<1>1. Holds(w) /\ worker[w].job.id \in Ids
  BY JobOfWorker DEF Invalid, Holds, IInv
<1>2. /\ posts[worker[w].job.id] \in Nat /\ posts[worker[w].job.id] <= MaxAttempts
      /\ posts' = [posts EXCEPT ![worker[w].job.id] = posts[worker[w].job.id]]
  BY <1>1 DEF Invalid, IInv, TypeOK, AttemptsOK
<1>3. "invalid" \in Fates \ {"none"}
  BY DEF Fates
<1> QED  BY <1>1, <1>2, <1>3, Ended DEF Invalid

\* A request is one of the attempts of its job.
LEMMA Posted ==
  ASSUME IInv, NEW w \in Workers, Post(w)
  PROVE  /\ Holds(w) /\ worker[w].pc = "post" /\ worker[w].job \in Jobs
         /\ worker[w].job.id \in Ids /\ worker[w].job.attempt \in 1..MaxAttempts
         /\ posts' = [posts EXCEPT ![worker[w].job.id] = worker[w].job.attempt]
         /\ UNCHANGED <<queue, pos, stopped>>
<1>1. Holds(w) /\ worker[w].pc = "post"
  BY DEF Post, Holds
<1>2. worker[w].job \in Jobs /\ worker[w].job.id \in Ids /\ worker[w].job.attempt \in 1..MaxAttempts
  BY <1>1, JobOfWorker DEF IInv
<1>3. worker[w].job.attempt = posts[worker[w].job.id] + 1
  BY <1>1 DEF IInv, AttemptsOK
<1> QED  BY <1>1, <1>2, <1>3 DEF Post

\* The receiver answers with a status below 400.
LEMMA SucceedsGood ==
  ASSUME IInv, NEW w \in Workers, PostSucceeds(w)
  PROVE  IInv'
<1>1. "delivered" \in Fates \ {"none"}
  BY DEF Fates
<1>2. worker[w].job.attempt \in Nat /\ worker[w].job.attempt <= MaxAttempts
  BY Posted, MaxAttemptsAssumption DEF PostSucceeds
<1> QED  BY <1>1, <1>2, Posted, Ended DEF PostSucceeds

\* The job's last attempt fails, or the worker begins the pause before the next.
LEMMA FailsGood ==
  ASSUME IInv, NEW w \in Workers, PostFails(w)
  PROVE  IInv'
<1> DEFINE job == worker[w].job
<1>1. /\ Holds(w) /\ worker[w].pc = "post" /\ job \in Jobs
      /\ job.id \in Ids /\ job.attempt \in 1..MaxAttempts
      /\ posts' = [posts EXCEPT ![job.id] = job.attempt]
      /\ UNCHANGED <<queue, pos, stopped>>
  BY Posted DEF PostFails
<1>2. CASE ~MayRetry(job)
  <2>1. job.attempt \in Nat /\ job.attempt = MaxAttempts
    BY <1>1, <1>2, MaxAttemptsAssumption DEF MayRetry
  <2>2. "exhausted" \in Fates \ {"none"}
    BY DEF Fates
  <2>3. Settle(job.id, "exhausted") /\ worker' = [worker EXCEPT ![w] = Free]
    BY <1>2 DEF PostFails
  <2>4. /\ MaxAttempts \in Nat /\ MaxAttempts <= MaxAttempts
        /\ posts' = [posts EXCEPT ![job.id] = MaxAttempts]
    BY <1>1, <2>1, MaxAttemptsAssumption
  <2> QED  BY <1>1, <2>2, <2>3, <2>4, Ended
<1>3. CASE MayRetry(job)
  <2> USE DEF IInv
  <2>1. worker' = [worker EXCEPT ![w].pc = "backoff"] /\ fate' = fate
    BY <1>3 DEF PostFails
  <2>2. worker[w] \in [pc : {"post", "backoff"}, job : Jobs]
    BY <1>1, NoneAssumption DEF TypeOK
  <2> HIDE DEF job
  <2>3. /\ \A v \in Workers : v # w => worker'[v] = worker[v]
        /\ worker'[w] = [pc |-> "backoff", job |-> job]
    BY <2>1, <2>2 DEF TypeOK, job
  <2>4. \A v \in Workers : (Holds(v)' <=> Holds(v)) /\ worker'[v].job = worker[v].job
    BY <1>1, <2>3 DEF Holds, job
  <2>5. TypeOK'
    <3>1. posts' \in [Ids -> Nat]
      BY <1>1, MaxAttemptsAssumption DEF TypeOK
    <3>2. [pc |-> "backoff", job |-> job] \in [pc : {"post", "backoff"}, job : Jobs]
      BY <1>1
    <3>3. DOMAIN worker' = Workers /\ worker' = [v \in Workers |-> worker'[v]]
      BY <2>1 DEF TypeOK
    <3>4. worker' \in [Workers -> [pc : {"post", "backoff"}, job : Jobs]
                                  \cup [pc : {"select", "halted"}, job : {None}]]
      BY <2>3, <3>2, <3>3 DEF TypeOK
    <3> QED  BY <1>1, <2>1, <3>1, <3>4 DEF TypeOK
  <2>6. JobsApart'
    BY <1>1, <2>4 DEF JobsApart
  <2>7. \A id \in Ids : Underway(id)' <=> Underway(id)
    BY <1>1, <2>4 DEF Underway
  <2>8. Accounted'
    BY <1>1, <2>1, <2>7 DEF Accounted, Offered
  <2>9. Underway(job.id) /\ fate[job.id] = "none" /\ Offered(job.id)
    <3>1. Underway(job.id)
      BY <1>1 DEF Underway, job
    <3> QED  BY <1>1, <3>1 DEF Accounted
  <2>10. \A id \in Ids : posts'[id] = IF id = job.id THEN job.attempt ELSE posts[id]
    BY <1>1 DEF TypeOK
  <2>11. Untried'
    BY <1>1, <2>9, <2>10 DEF Untried, Offered
  <2>12. AttemptsOK'
    <3>1. \A i \in DOMAIN queue : posts'[queue[i].id] = posts[queue[i].id]
      BY <1>1, <2>10, JobsOfQueue DEF JobsApart, job
    <3>2. ASSUME NEW v \in Workers, v # w, Holds(v)
          PROVE  worker'[v] = worker[v] /\ posts'[worker[v].job.id] = posts[worker[v].job.id]
      BY <1>1, <2>3, <2>10, <3>2, JobOfWorker DEF JobsApart, job
    <3>3. ASSUME NEW v \in Workers
          PROVE  /\ worker'[v].pc = "post" => worker'[v].job.attempt = posts'[worker'[v].job.id] + 1
                 /\ worker'[v].pc = "backoff" => /\ worker'[v].job.attempt = posts'[worker'[v].job.id]
                                                 /\ worker'[v].job.attempt < MaxAttempts
      <4>1. CASE v = w
        BY <1>1, <1>3, <2>3, <2>10, <4>1 DEF MayRetry, job
      <4>2. CASE v # w /\ Holds(v)
        BY <3>2, <4>2 DEF AttemptsOK
      <4>3. CASE v # w /\ ~Holds(v)
        BY <2>3, <4>3 DEF Holds
      <4> QED  BY <4>1, <4>2, <4>3
    <3>4. \A id \in Ids : posts'[id] <= MaxAttempts /\ (fate'[id] = "exhausted" => posts'[id] = MaxAttempts)
      BY <1>1, <2>1, <2>9, <2>10, MaxAttemptsAssumption DEF AttemptsOK
    <3> QED  BY <1>1, <3>1, <3>3, <3>4 DEF AttemptsOK
  <2> QED  BY <2>5, <2>6, <2>8, <2>11, <2>12
<1> QED  BY <1>2, <1>3

\* After the pause the job goes back into the channel, or has no room there.
LEMMA RequeueGood ==
  ASSUME IInv, NEW w \in Workers, Requeue(w)
  PROVE  IInv'
<1> DEFINE job == worker[w].job
           again == [job EXCEPT !.attempt = @ + 1]
<1> USE DEF IInv
<1>1. Holds(w) /\ worker[w].pc = "backoff"
  BY DEF Requeue, Holds
<1>2. job \in Jobs /\ job.id \in Ids /\ job.attempt \in 1..MaxAttempts /\ job.attempt = posts[job.id]
  BY <1>1, JobOfWorker DEF AttemptsOK
<1>3. worker' = [worker EXCEPT ![w] = Free] /\ UNCHANGED <<pos, stopped, posts>>
  BY DEF Requeue
<1>4. CASE Full
  <2>1. Settle(job.id, "crowded out") /\ UNCHANGED queue
    BY <1>4 DEF Requeue
  <2>2. "crowded out" \in Fates \ {"none"}
    BY DEF Fates
  <2>3. /\ job.attempt \in Nat /\ job.attempt <= MaxAttempts
        /\ posts' = [posts EXCEPT ![job.id] = job.attempt]
    BY <1>2, <1>3, MaxAttemptsAssumption DEF TypeOK
  <2> QED  BY <1>1, <1>3, <2>1, <2>2, <2>3, Ended
<1>5. CASE ~Full
  <2>1. queue' = Append(queue, again) /\ fate' = fate
    BY <1>5 DEF Requeue
  <2>2. job.attempt < MaxAttempts
    BY <1>1 DEF AttemptsOK
  <2>3. again \in Jobs /\ again.id = job.id /\ again.attempt = job.attempt + 1
    BY <1>2, <2>2, MaxAttemptsAssumption DEF Jobs
  <2>4. /\ queue' \in Seq(Jobs) /\ Len(queue') <= Capacity
        /\ DOMAIN queue' = 1..Len(queue) + 1
        /\ \A i \in 1..Len(queue) : queue'[i] = queue[i]
        /\ queue'[Len(queue) + 1] = again
    BY <1>5, <2>1, <2>3, Appended
  <2>5. Len(queue) \in Nat /\ DOMAIN queue = 1..Len(queue)
    BY JobsOfQueue
  <2> HIDE DEF job, again
  <2>6. /\ \A v \in Workers : v # w => worker'[v] = worker[v]
        /\ worker'[w] = [pc |-> "select", job |-> None]
    BY <1>3 DEF TypeOK, Free
  <2>7. ~Holds(w)' /\ \A v \in Workers : v # w => (Holds(v)' <=> Holds(v))
    BY <2>6 DEF Holds
  <2>8. /\ \A v \in Workers : Holds(v) /\ v # w => worker[v].job.id # job.id
        /\ \A i \in DOMAIN queue : queue[i].id # job.id
    BY <1>1 DEF JobsApart, job
  <2>9. TypeOK'
    <3>1. Free \in [pc : {"select", "halted"}, job : {None}]
      BY DEF Free
    <3>2. worker' \in [Workers -> [pc : {"post", "backoff"}, job : Jobs]
                                  \cup [pc : {"select", "halted"}, job : {None}]]
      BY <1>3, <3>1 DEF TypeOK
    <3> QED  BY <1>3, <2>1, <2>4, <3>2 DEF TypeOK
  <2>10. JobsApart'
    BY <2>3, <2>4, <2>5, <2>6, <2>7, <2>8 DEF JobsApart
  <2>11. \A id \in Ids : Underway(id)' <=> Underway(id)
    <3> TAKE id \in Ids
    <3>1. (\E i \in DOMAIN queue' : queue'[i].id = id)
            <=> job.id = id \/ \E i \in DOMAIN queue : queue[i].id = id
      BY <2>3, <2>4, <2>5
    <3>2. (\E v \in Workers : Holds(v) /\ worker[v].job.id = id)
            <=> job.id = id \/ \E v \in Workers : Holds(v)' /\ worker'[v].job.id = id
      BY <1>1, <2>6, <2>7 DEF job
    <3> QED  BY <3>1, <3>2 DEF Underway
  <2>12. Accounted' /\ Untried'
    BY <1>3, <2>1, <2>11 DEF Accounted, Untried, Offered
  <2>13. AttemptsOK'
    BY <1>2, <1>3, <2>1, <2>3, <2>4, <2>5, <2>6 DEF AttemptsOK
  <2> QED  BY <2>9, <2>10, <2>12, <2>13
<1> QED  BY <1>4, <1>5

-----------------------------------------------------------------------------
(* The invariance and what follows                                         *)

LEMMA StepGood == IInv /\ [Next]_vars => IInv'
<1> SUFFICES ASSUME IInv, [Next]_vars  PROVE IInv'
  OBVIOUS
<1>1. CASE Stop \/ (\E w \in Workers : Halt(w)) \/ UNCHANGED vars
  BY <1>1, StopGood
<1>2. ASSUME NEW e \in Events, EmitNext(e)  PROVE IInv'
  BY <1>2, EmitGood
<1>3. ASSUME NEW w \in Workers, Take(w) \/ Invalid(w) \/ PostSucceeds(w) \/ PostFails(w) \/ Requeue(w)
      PROVE  IInv'
  BY <1>3, TakeGood, InvalidGood, SucceedsGood, FailsGood, RequeueGood
<1> QED  BY <1>1, <1>2, <1>3 DEF Next, Work

LEMMA Invariance == Spec => []IInv
  BY InitGood, StepGood, PTL DEF Spec

\* A delivery is at one place at most.
LEMMA OnePlace ==
  ASSUME IInv, NEW id \in Ids
  PROVE  /\ Cardinality(Queued(id)) \in {0, 1} /\ Cardinality(Held(id)) \in {0, 1}
         /\ Cardinality(Queued(id)) = 1 <=> \E i \in DOMAIN queue : queue[i].id = id
         /\ Cardinality(Held(id)) = 1 <=> \E w \in Workers : Holds(w) /\ worker[w].job.id = id
         /\ Cardinality(Queued(id)) = 0 \/ Cardinality(Held(id)) = 0
<1> USE DEF IInv
<1>1. \A S : S = {} => Cardinality(S) = 0
  BY FS_EmptySet
<1>2. \A S, x : S = {x} => Cardinality(S) = 1
  BY FS_Singleton
<1>3. Held(id) = {w \in Workers : Holds(w) /\ worker[w].job.id = id}
  BY JobOfWorker DEF Held
<1>4. Queued(id) = {} \/ \E i : Queued(id) = {i}
  <2> SUFFICES ASSUME NEW i \in Queued(id)  PROVE Queued(id) = {i}
    OBVIOUS
  <2> QED  BY DEF Queued, JobsApart
<1>5. Held(id) = {} \/ \E w : Held(id) = {w}
  <2> SUFFICES ASSUME NEW w \in Held(id)  PROVE Held(id) = {w}
    OBVIOUS
  <2> QED  BY <1>3 DEF JobsApart
<1>6. Queued(id) = {} \/ Held(id) = {}
  BY <1>3 DEF Queued, JobsApart
<1>7. /\ Queued(id) # {} <=> \E i \in DOMAIN queue : queue[i].id = id
      /\ Held(id) # {} <=> \E w \in Workers : Holds(w) /\ worker[w].job.id = id
  BY <1>3 DEF Queued
<1>8. /\ Cardinality(Queued(id)) = IF Queued(id) = {} THEN 0 ELSE 1
      /\ Cardinality(Held(id)) = IF Held(id) = {} THEN 0 ELSE 1
  BY <1>1, <1>2, <1>4, <1>5
<1> QED  BY <1>6, <1>7, <1>8

\* The property JobConserved: whatever the workers, the retries and a full
\* channel do, a delivery that Emit dealt with is in the channel, with one
\* worker, or known to have ended, and at only one of these.
THEOREM Conserved == Spec => []JobConserved
<1>1. IInv => JobConserved
  <2> SUFFICES ASSUME IInv, NEW id \in Ids
               PROVE  Cardinality(Queued(id)) + Cardinality(Held(id))
                        + (IF fate[id] = "none" THEN 0 ELSE 1) = IF Offered(id) THEN 1 ELSE 0
    BY DEF JobConserved
  <2>1. /\ Underway(id) \/ fate[id] # "none" <=> Offered(id)
        /\ ~(Underway(id) /\ fate[id] # "none")
    BY DEF IInv, Accounted
  <2>2. Cardinality(Queued(id)) + Cardinality(Held(id)) = IF Underway(id) THEN 1 ELSE 0
    BY OnePlace DEF Underway
  <2> QED  BY <2>1, <2>2
<1> QED  BY <1>1, Invariance, PTL

\* The property AttemptsCounted: the attempt a job carries is the number of
\* requests made for it, so none is posted more often than the maximum, and
\* none is given up as exhausted before.
THEOREM Attempts == Spec => []AttemptsCounted
<1>1. IInv => AttemptsCounted
  BY DEF IInv, AttemptsOK, AttemptsCounted
<1> QED  BY <1>1, Invariance, PTL
=============================================================================
