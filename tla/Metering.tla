------------------------------ MODULE Metering ------------------------------
(***************************************************************************)
(* Usage events (internal/metering/meter.go) and their persistence         *)
(* (internal/metering/persistent.go).                                      *)
(*                                                                         *)
(* An event gets its time, is written to badger under <<time, type>>, and  *)
(* is appended to a buffer in memory, from which queries are answered and  *)
(* which drops its oldest event when it is full.  These are three steps,   *)
(* and any number of requests may be between them.  After a restart the    *)
(* buffer is filled from the last events on disk.                          *)
(***************************************************************************)
EXTENDS Naturals, FiniteSets, Sequences

CONSTANTS UserIDs,
          Types,       \* event types; numbers in the order of their names
          Generation,  \* the types of RecordGeneration
          Capacity,    \* maxEvents
          WarmupLimit, \* defaultWarmupLimit (10000)
          TTL,         \* of entries on disk (90 days)
          MaxEvents,   \* bound on events
          MaxTime,     \* bound on the clock
          MaxFaults    \* bound on failed writes and restarts

ASSUME TypesAssumption == Types \subseteq Nat /\ Generation \subseteq Types
ASSUME NumbersAssumption == {Capacity, WarmupLimit, TTL} \subseteq Nat \ {0}
ASSUME MeteringBoundsAssumption == {MaxEvents, MaxFaults} \subseteq Nat /\ MaxTime \in Nat \ {0}

VARIABLES
  now,     \* the clock; two readings may be equal
  ev,      \* ev[e]: user, type and time of event e, in the order of their requests
  at,      \* at[e]: stamped | written | counted | dead
  disk,    \* the events on disk
  events,  \* the buffer
  failed,  \* history: events whose write failed
  wrote,   \* history: wrote[e] is the time of writing, 0 if there was none
  order,   \* history: the events in the order in which they were counted
  lives,   \* history: lives[e] is the number of restarts before e was counted
  restarts, faults

meteringVars == <<now, ev, at, disk, events, failed, wrote, order, lives, restarts, faults>>

Ids == 1 .. Len(ev)
InBuffer == {events[i] : i \in DOMAIN events}
Counted == {e \in Ids : at[e] = "counted"}

\* meter:<time>:<type>
Key(e) == <<ev[e].ts, ev[e].type>>
Older(e, f) == \/ ev[e].ts < ev[f].ts
               \/ ev[e].ts = ev[f].ts /\ ev[e].type < ev[f].type

-----------------------------------------------------------------------------
(* Meter                                                                   *)

Append1(s, e) == Append(IF Len(s) >= Capacity THEN Tail(s) ELSE s, e)

GetEvents(user, since, until) ==
  {i \in DOMAIN events : LET e == ev[events[i]]
                         IN  e.user = user /\ since <= e.ts /\ e.ts <= until}

\* The counts of a summary; bytes and credits are added up in the same loop.
GetSummary(user, since) ==
  [t \in Types |-> Cardinality({i \in DOMAIN events :
     ev[events[i]].user = user /\ ev[events[i]].ts >= since /\ ev[events[i]].type = t})]

-----------------------------------------------------------------------------
(* Record                                                                  *)

\* RecordGeneration is not overridden by PersistentMeter: it goes to the buffer only.
FirstStep(type) == IF type \in Generation THEN "written" ELSE "stamped"

\* RecordUpload and the others take the time.
RecordBegins(user, type) ==
  /\ Len(ev) < MaxEvents
  /\ ev' = Append(ev, [user |-> user, type |-> type, ts |-> now])
  /\ at' = Append(at, FirstStep(type))
  /\ wrote' = Append(wrote, 0) /\ lives' = Append(lives, 0)
  /\ UNCHANGED <<now, disk, events, failed, order, restarts, faults>>

Persist_TimeOnly(e) ==
  /\ at[e] = "stamped"
  /\ at' = [at EXCEPT ![e] = "written"]
  /\ disk' = {f \in disk : ev[f].ts # ev[e].ts} \cup {e}
  /\ wrote' = [wrote EXCEPT ![e] = now]
  /\ UNCHANGED <<now, ev, events, failed, order, lives, restarts, faults>>

\* A write under a key that exists replaces the entry.
Persist(e) ==
  /\ at[e] = "stamped"
  /\ at' = [at EXCEPT ![e] = "written"]
  /\ disk' = {f \in disk : Key(f) # Key(e)} \cup {e}
  /\ wrote' = [wrote EXCEPT ![e] = now]
  /\ UNCHANGED <<now, ev, events, failed, order, lives, restarts, faults>>

\* The error is logged and the event counted all the same.
PersistFails(e) ==
  /\ at[e] = "stamped"
  /\ faults < MaxFaults /\ faults' = faults + 1
  /\ at' = [at EXCEPT ![e] = "written"]
  /\ failed' = failed \cup {e}
  /\ UNCHANGED <<now, ev, disk, events, wrote, order, lives, restarts>>

\* Meter.Record; then the request goes on.
Count(e) ==
  /\ at[e] = "written"
  /\ at' = [at EXCEPT ![e] = "counted"]
  /\ events' = Append1(events, e)
  /\ order' = Append(order, e)
  /\ lives' = [lives EXCEPT ![e] = restarts]
  /\ UNCHANGED <<now, ev, disk, failed, wrote, restarts, faults>>

-----------------------------------------------------------------------------
(* Time and restarts                                                       *)

Tick == /\ now < MaxTime
        /\ now' = now + 1
        /\ UNCHANGED <<ev, at, disk, events, failed, wrote, order, lives, restarts, faults>>

Expire(e) ==
  /\ e \in disk /\ now >= wrote[e] + TTL
  /\ disk' = disk \ {e}
  /\ UNCHANGED <<now, ev, at, events, failed, wrote, order, lives, restarts, faults>>

Least(n) == IF n < Capacity THEN n ELSE Capacity

\* The n newest of S, oldest first, as far as the buffer holds them.
Newest(S, n) ==
  LET kept == {e \in S : Cardinality({f \in S : Older(e, f)}) < Least(n)}
  IN  [i \in 1 .. Cardinality(kept) |->
         CHOOSE e \in kept : Cardinality({f \in kept : Older(f, e)}) = i - 1]

warmup_OldestFirst ==
  LET kept == {e \in disk : Cardinality({f \in disk : Older(f, e)}) < Least(WarmupLimit)}
  IN  [i \in 1 .. Cardinality(kept) |->
         CHOOSE e \in kept : Cardinality({f \in kept : Older(f, e)}) = i - 1]

warmup == Newest(disk, WarmupLimit)

\* Requests that were under way are gone.
Restart ==
  /\ faults < MaxFaults /\ faults' = faults + 1
  /\ restarts' = restarts + 1
  /\ at' = [e \in Ids |-> IF at[e] = "counted" THEN "counted" ELSE "dead"]
  /\ events' = warmup
  /\ UNCHANGED <<now, ev, disk, failed, wrote, order, lives>>

-----------------------------------------------------------------------------
MeteringInit == /\ now = 1
        /\ ev = <<>> /\ at = <<>> /\ disk = {} /\ events = <<>>
        /\ failed = {} /\ wrote = <<>> /\ order = <<>> /\ lives = <<>>
        /\ restarts = 0 /\ faults = 0

MeteringNext == \/ \E u \in UserIDs, t \in Types : RecordBegins(u, t)
        \/ \E e \in Ids : Persist(e) \/ PersistFails(e) \/ Count(e) \/ Expire(e)
        \/ Tick
        \/ Restart

MeteringSpec == MeteringInit /\ [][MeteringNext]_meteringVars

-----------------------------------------------------------------------------
\* Every variable holds a value of its type; the buffer never exceeds its capacity and
\* the disk has one event for each key.
MeteringTypeOK ==
  /\ now \in 1..MaxTime
  /\ ev \in Seq([user : UserIDs, type : Types, ts : 1..MaxTime]) /\ Len(ev) <= MaxEvents
  /\ at \in [Ids -> {"stamped", "written", "counted", "dead"}]
  /\ disk \subseteq Ids /\ \A e, f \in disk : Key(e) = Key(f) => e = f
  /\ events \in Seq(Ids) /\ Len(events) <= Capacity
  /\ failed \subseteq Ids
  /\ wrote \in [Ids -> 0..MaxTime] /\ lives \in [Ids -> 0..MaxFaults]
  /\ order \in Seq(Ids)
  /\ restarts \in 0..MaxFaults /\ faults \in 0..MaxFaults

\* Another event took its key on disk.
Overwritten(e) == \E f \in Ids \ {e} : Key(f) = Key(e) /\ wrote[f] # 0
Expired(e) == now >= wrote[e] + TTL
NotKept(e) == ev[e].type \in Generation \/ e \in failed \/ Overwritten(e) \/ Expired(e)

\* An event that was counted is on disk, unless its write failed, another event of
\* that type and instant was written, it is older than the TTL, or it is a
\* generation event (PersistentMeter.Record, the key it builds). Types are as declared.
OnDiskUnless == MeteringTypeOK /\ \A e \in Counted : e \in disk \/ NotKept(e)

Position(e) == CHOOSE i \in DOMAIN order : order[i] = e
After(f, e) == Older(e, f) \/ (f \in Counted /\ Position(f) > Position(e))

\* Enough newer events, by time or by arrival, have pushed e out of the buffer.
Crowded(e) == /\ Len(events) >= Least(WarmupLimit)
              /\ \A f \in InBuffer : After(f, e)

\* Of the events counted, those a summary may lack.
MayLack(e) == Crowded(e) \/ (lives[e] < restarts /\ NotKept(e))

\* For every user, type and time, a summary is at least the number of events counted,
\* less those crowded out by newer ones and those a restart could not bring
\* back, and at most that of events begun; no event is returned twice, also not after a
\* restart that finds on disk what was never counted (GetSummary and GetEvents on the
\* buffer that Record and warmup fill).
SummaryBounds ==
  \A u \in UserIDs, since \in 1..MaxTime :
    /\ \A i, j \in GetEvents(u, since, MaxTime) : events[i] = events[j] => i = j
    /\ \A t \in Types :
         LET Of(S) == Cardinality({e \in S : /\ ev[e].user = u /\ ev[e].type = t
                                             /\ ev[e].ts >= since})
             n == GetSummary(u, since)[t]
         IN  /\ Of({e \in Counted : ~MayLack(e)}) <= n
             /\ n <= Of(Ids)
=============================================================================
