----------------------------- MODULE Replicator -----------------------------
(***************************************************************************)
(* Replication between nodes (internal/sync/replicator.go and server.go)   *)
(* over the file stores of the nodes (internal/storage/store.go).          *)
(*                                                                         *)
(* A node's replicator starts one goroutine per peer and tick, whether or  *)
(* not the previous one has ended.  It asks the peer for objects modified  *)
(* since LastSync, at most Limit of them, downloads those it has no file   *)
(* for, then pushes its own objects, and sets LastSync to the clock.       *)
(*                                                                         *)
(* A file is represented by its modification time, that of the last write  *)
(* to the temporary file which Store.Put renames afterwards.  An object is *)
(* a name outside the internal buckets, which are never listed.            *)
(***************************************************************************)
EXTENDS Naturals, FiniteSets

CONSTANTS Nodes,
          PeersOf,     \* the peers each node's Discovery knows
          Objects,
          Overlap,     \* goroutines one node may have at work with one peer
          Limit,       \* objects of one answer to ListObjects (1000)
          None,        \* no file
          MaxTime,     \* bound on the clock
          MaxOps,      \* bound on uploads, deletes and moves
          MaxFaults    \* bound on failed calls and restarts

ASSUME PeersAssumption == PeersOf \in [Nodes -> SUBSET Nodes]
ASSUME SelfAssumption == \A n \in Nodes : n \notin PeersOf[n]
ASSUME BoundsAssumption ==
  /\ {Overlap, Limit, MaxTime} \subseteq Nat \ {0}
  /\ {MaxOps, MaxFaults} \subseteq Nat
ASSUME NoneAssumption == None \notin Nat /\ None \notin Objects

VARIABLES
  now,     \* the clock, which the nodes agree on
  file,    \* file[n][o]: modification time of o at n, or None
  last,    \* last[n][p]: LastSync of n's state of p; 0 is the zero time
  cycle,   \* the goroutines of syncAll
  lost,    \* see below
  came,    \* history: when the file came to be under its name, 0 if there is none
  ops, faults

vars == <<now, file, last, cycle, lost, came, ops, faults>>

Times == 1..MaxTime
Pairs == {pair \in Nodes \X Nodes : pair[2] \in PeersOf[pair[1]]}
Cycles == {c \in Nodes \X Nodes \X (1..Overlap) : c[2] \in PeersOf[c[1]]}

Resting == [pc |-> "idle", todo |-> {}, cur |-> None, peerHas |-> {}, looked |-> 0,
            got |-> 0]

Present(n) == {o \in Objects : file[n][o] # None}

-----------------------------------------------------------------------------
(* What is known to be missed, which is not part of the code.              *)
(* <<n, p, o>> is in lost if n has no file for o and something happened    *)
(* after which its cycles with p may never ask for p's file again.         *)

PastListing(c) == cycle[c].pc \notin {"idle", "list"}

\* The goroutine has yet to store o, which it has listed.
Brings(c, o) == \/ cycle[c].pc \in {"pull", "put"} /\ o \in cycle[c].todo
                \/ cycle[c].pc = "put" /\ cycle[c].cur = o

\* The cycles of m with n have listed n's objects without the one written now.
Overlooks(m, n, o) ==
  \E i \in 1..Overlap : PastListing(<<m, n, i>>) /\ ~Brings(<<m, n, i>>, o)

\* n writes o, an upload or a copy: n has it now, and will be asked for it, except
\* by cycles that have their listing already, and by peers whose LastSync is past the
\* time t of a file that was slow to appear.
Written(n, o, t) ==
  (lost \ {l \in lost : l[3] = o /\ n \in {l[1], l[2]}})
    \cup {<<m, n, o>> : m \in {m \in Nodes : n \in PeersOf[m] /\ file[m][o] = None
                                    /\ (Overlooks(m, n, o) \/ t < last[m][n])}}

Missed(n, p, os) == lost \cup {<<n, p, o>> : o \in os \ Present(n)}

\* Store.Put: the file written at time t appears.
Write(n, o, t) == /\ file' = [file EXCEPT ![n][o] = t]
                  /\ lost' = Written(n, o, t)
                  /\ came' = [came EXCEPT ![n][o] = now]

Fault == faults < MaxFaults /\ faults' = faults + 1

-----------------------------------------------------------------------------
(* What clients do to the file stores.                                     *)

Op == ops < MaxOps /\ ops' = ops + 1

Upload(n, o) ==
  /\ Op
  /\ \E t \in 1..now : Write(n, o, t)
  /\ UNCHANGED <<now, last, cycle, faults>>

DeleteObject(n, o) ==
  /\ Op
  /\ file[n][o] # None
  /\ file' = [file EXCEPT ![n][o] = None]
  /\ lost' = lost \cup {<<n, p, o>> : p \in PeersOf[n]}
  /\ came' = [came EXCEPT ![n][o] = 0]
  /\ UNCHANGED <<now, last, cycle, faults>>

\* os.Rename keeps the modification time: the peers' LastSync may be past it.
MoveObject(n, s, d) ==
  /\ Op
  /\ s # d
  /\ file[n][s] # None
  /\ file' = [file EXCEPT ![n][d] = file[n][s], ![n][s] = None]
  /\ lost' = (lost \ {<<n, p, d>> : p \in PeersOf[n]})
               \cup {<<n, p, s>> : p \in PeersOf[n]}
               \cup {<<m, n, d>> : m \in {m \in Nodes : n \in PeersOf[m] /\ file[m][d] = None}}
  /\ came' = [came EXCEPT ![n][d] = now, ![n][s] = 0]
  /\ UNCHANGED <<now, last, cycle, faults>>

-----------------------------------------------------------------------------
(* syncWithPeer of node c[1] with peer c[2].                               *)

Goto(c, r) == cycle' = [cycle EXCEPT ![c] = r]

Start_NewPeers(c) ==
  /\ cycle[c].pc = "idle"
  /\ last[c[1]][c[2]] = 0
  /\ Goto(c, [Resting EXCEPT !.pc = "list"])
  /\ UNCHANGED <<now, file, last, lost, came, ops, faults>>

\* The ticker: the connection and the handshake succeed.
Start(c) ==
  /\ cycle[c].pc = "idle"
  /\ Goto(c, [Resting EXCEPT !.pc = "list"])
  /\ UNCHANGED <<now, file, last, lost, came, ops, faults>>

Modified_After(n, p) ==
  {o \in Present(p) : last[n][p] > 0 => file[p][o] > last[n][p]}

\* Server.ListObjects, from LastSync on.
Modified(n, p) == {o \in Present(p) : last[n][p] > 0 => file[p][o] >= last[n][p]}

\* HasMore is ignored: what does not fit is not asked for again.
List(c) ==
  LET all == Modified(c[1], c[2])
  IN  /\ cycle[c].pc = "list"
      /\ \E some \in SUBSET all :
           /\ IF Cardinality(all) <= Limit THEN some = all ELSE Cardinality(some) = Limit
           /\ Goto(c, [cycle[c] EXCEPT !.pc = "pull", !.todo = some])
           /\ lost' = Missed(c[1], c[2], all \ some)
      /\ UNCHANGED <<now, file, last, came, ops, faults>>

\* The call fails, or the server skips the bucket because its walk met an
\* error, which a file removed meanwhile is: the cycle goes on all the same.
ListFails(c) ==
  /\ Fault
  /\ cycle[c].pc = "list"
  /\ Goto(c, [cycle[c] EXCEPT !.pc = "pull"])
  /\ lost' = Missed(c[1], c[2], Modified(c[1], c[2]))
  /\ UNCHANGED <<now, file, last, came, ops>>

\* Store.Exists: what the node has is skipped, and so is what the peer no
\* longer has when asked.
PullSkip(c, o) ==
  /\ cycle[c].pc = "pull"
  /\ o \in cycle[c].todo
  /\ file[c[1]][o] # None \/ file[c[2]][o] = None
  /\ Goto(c, [cycle[c] EXCEPT !.todo = @ \ {o}])
  /\ UNCHANGED <<now, file, last, lost, came, ops, faults>>

\* downloadObject, up to the end of the stream.
Download(c, o) ==
  /\ cycle[c].pc = "pull"
  /\ o \in cycle[c].todo
  /\ file[c[1]][o] = None
  /\ file[c[2]][o] # None
  /\ Goto(c, [cycle[c] EXCEPT !.pc = "put", !.cur = o, !.todo = @ \ {o}, !.looked = now,
                               !.got = now])
  /\ UNCHANGED <<now, file, last, lost, came, ops, faults>>

DownloadFails(c, o) ==
  /\ Fault
  /\ cycle[c].pc = "pull"
  /\ o \in cycle[c].todo
  /\ Goto(c, [cycle[c] EXCEPT !.todo = @ \ {o}])
  /\ lost' = Missed(c[1], c[2], {o})
  /\ UNCHANGED <<now, file, last, came, ops>>

\* The downloaded data is stored, over whatever is there by now.
PutPulled(c) ==
  /\ cycle[c].pc = "put"
  /\ \E t \in cycle[c].got .. now : Write(c[1], cycle[c].cur, t)
  /\ Goto(c, [cycle[c] EXCEPT !.pc = "pull", !.cur = None, !.looked = 0, !.got = 0])
  /\ UNCHANGED <<now, last, ops, faults>>

\* pushToPeer begins with the peer's inventory, without a time.
Inventory(c) ==
  /\ cycle[c].pc = "pull"
  /\ cycle[c].todo = {}
  /\ Goto(c, [cycle[c] EXCEPT !.pc = "local", !.peerHas = Present(c[2]), !.looked = now])
  /\ UNCHANGED <<now, file, last, lost, came, ops, faults>>

\* The error is dropped and the inventory taken as empty.
InventoryFails(c) ==
  /\ Fault
  /\ cycle[c].pc = "pull"
  /\ cycle[c].todo = {}
  /\ Goto(c, [cycle[c] EXCEPT !.pc = "local"])
  /\ UNCHANGED <<now, file, last, lost, came, ops>>

LocalList(c) ==
  /\ cycle[c].pc = "local"
  /\ Goto(c, [cycle[c] EXCEPT !.pc = "push", !.todo = Present(c[1])])
  /\ UNCHANGED <<now, file, last, lost, came, ops, faults>>

\* The inventory is compared by hash, and Store.List leaves every Hash empty.
Hash(o) == ""
PeerHashes(c) == {Hash(o) : o \in cycle[c].peerHas}

PushSkip(c, o) ==
  /\ cycle[c].pc = "push"
  /\ o \in cycle[c].todo
  /\ Hash(o) \in PeerHashes(c)
  /\ Goto(c, [cycle[c] EXCEPT !.todo = @ \ {o}])
  /\ UNCHANGED <<now, file, last, lost, came, ops, faults>>

PushRead_All(c, o) ==
  /\ cycle[c].pc = "push"
  /\ o \in cycle[c].todo
  /\ file[c[1]][o] # None
  /\ Goto(c, [cycle[c] EXCEPT !.pc = "send", !.cur = o, !.todo = @ \ {o}, !.got = now])
  /\ UNCHANGED <<now, file, last, lost, came, ops, faults>>

\* pushObject opens its file.
PushRead(c, o) ==
  /\ cycle[c].pc = "push"
  /\ o \in cycle[c].todo
  /\ Hash(o) \notin PeerHashes(c)
  /\ file[c[1]][o] # None
  /\ Goto(c, [cycle[c] EXCEPT !.pc = "send", !.cur = o, !.todo = @ \ {o}, !.got = now])
  /\ UNCHANGED <<now, file, last, lost, came, ops, faults>>

\* The file is gone since LocalList.
PushGone(c, o) ==
  /\ cycle[c].pc = "push"
  /\ o \in cycle[c].todo
  /\ Hash(o) \notin PeerHashes(c)
  /\ file[c[1]][o] = None
  /\ Goto(c, [cycle[c] EXCEPT !.todo = @ \ {o}])
  /\ UNCHANGED <<now, file, last, lost, came, ops, faults>>

\* Server.PushObject stores the data, over whatever is there.
PushStore(c) ==
  /\ cycle[c].pc = "send"
  /\ \E t \in cycle[c].got .. now : Write(c[2], cycle[c].cur, t)
  /\ Goto(c, [cycle[c] EXCEPT !.pc = "push", !.cur = None, !.got = 0])
  /\ UNCHANGED <<now, last, ops, faults>>

\* The stream fails before its end, or the peer cannot store the data.
PushFails(c) ==
  /\ Fault
  /\ cycle[c].pc = "send"
  /\ Goto(c, [cycle[c] EXCEPT !.pc = "push", !.cur = None, !.got = 0])
  /\ UNCHANGED <<now, file, last, lost, came, ops>>

Done(c) ==
  /\ cycle[c].pc = "push"
  /\ cycle[c].todo = {}
  /\ last' = [last EXCEPT ![c[1]][c[2]] = now]
  /\ Goto(c, Resting)
  /\ UNCHANGED <<now, file, lost, came, ops, faults>>

-----------------------------------------------------------------------------
Tick ==
  /\ now < MaxTime
  /\ now' = now + 1
  /\ UNCHANGED <<file, last, cycle, lost, came, ops, faults>>

\* The states of the peers are only in memory: a restarted node asks for
\* everything again.
Restart(n) ==
  /\ Fault
  /\ cycle' = [c \in Cycles |-> IF c[1] = n THEN Resting ELSE cycle[c]]
  /\ last' = [last EXCEPT ![n] = [p \in Nodes |-> 0]]
  /\ lost' = {t \in lost : t[1] # n}
  /\ UNCHANGED <<now, file, came, ops>>

Init ==
  /\ now = 1
  /\ file = [n \in Nodes |-> [o \in Objects |-> None]]
  /\ last = [n \in Nodes |-> [p \in Nodes |-> 0]]
  /\ cycle = [c \in Cycles |-> Resting]
  /\ lost = {}
  /\ came = [n \in Nodes |-> [o \in Objects |-> 0]]
  /\ ops = 0
  /\ faults = 0

Pull(c) == List(c) \/ PutPulled(c) \/ \E o \in Objects : PullSkip(c, o) \/ Download(c, o)
Push(c) == Inventory(c) \/ LocalList(c) \/ PushStore(c)
           \/ \E o \in Objects : PushSkip(c, o) \/ PushRead(c, o) \/ PushGone(c, o)
syncWithPeer(c) == Start(c) \/ Pull(c) \/ Push(c) \/ Done(c)

Fails(c) == ListFails(c) \/ InventoryFails(c) \/ PushFails(c)
            \/ \E o \in Objects : DownloadFails(c, o)

Next ==
  \/ \E c \in Cycles : syncWithPeer(c) \/ Fails(c)
  \/ \E n \in Nodes, o \in Objects : Upload(n, o) \/ DeleteObject(n, o)
  \/ \E n \in Nodes, s, d \in Objects : MoveObject(n, s, d)
  \/ \E n \in Nodes : Restart(n)
  \/ Tick

\* The ticker goes on and the goroutines run.
Fairness == \A c \in Cycles : WF_vars(syncWithPeer(c))

Spec == Init /\ [][Next]_vars /\ Fairness

-----------------------------------------------------------------------------
(* Properties                                                              *)

\* Goroutines are where the code can be between two calls and carry what
\* they need from there on.
TypeOK ==
  /\ now \in Times
  /\ file \in [Nodes -> [Objects -> Times \cup {None}]]
  /\ last \in [Nodes -> [Nodes -> 0..now]]
  /\ cycle \in [Cycles -> [pc : {"idle", "list", "pull", "put", "local", "push", "send"},
                           todo : SUBSET Objects, cur : Objects \cup {None},
                           peerHas : SUBSET Objects, looked : 0..now, got : 0..now]]
  /\ \A c \in Cycles : /\ cycle[c].pc = "idle" => cycle[c] = Resting
                       /\ cycle[c].cur # None <=> cycle[c].pc \in {"put", "send"}
                       /\ cycle[c].cur # None => cycle[c].got > 0
  /\ lost \subseteq Nodes \X Nodes \X Objects
  /\ came \in [Nodes -> [Objects -> 0..now]]
  /\ ops \in 0..MaxOps /\ faults \in 0..MaxFaults

\* An object that LastSync has passed by, so that no cycle asks for it again,
\* was lost for a reason: its listing was cut short or failed, its download
\* failed, it appeared while a cycle was past its listing or later than the
\* LastSync its modification time is earlier than, it was moved, or deleted
\* here.  No order of overlapping cycles loses any other.  Types are as declared.
MissedOnlyIfLost ==
  /\ TypeOK
  /\ \A pair \in Pairs : LET n == pair[1]  p == pair[2] IN
       \A o \in Present(p) \ Present(n) :
         o \notin Modified(n, p) => <<n, p, o>> \in lost

\* What replication overwrites was written or moved there after it looked: it
\* replaces no file that was there when the cycle checked for it, unless the
\* peer's inventory failed.
OverwritesOnlyLate ==
  [][\A c \in Cycles, n \in Nodes :
       (PutPulled(c) /\ n = c[1]) \/ (PushStore(c) /\ n = c[2]) =>
         LET o == cycle[c].cur IN file[n][o] = None \/ came[n][o] >= cycle[c].looked]_vars

\* An object of a peer that is not lost arrives.
ArrivesUnlessLost ==
  \A pair \in Pairs : \A o \in Objects :
    LET n == pair[1]  p == pair[2]
        waiting == o \in Present(p) \ Present(n) /\ <<n, p, o>> \notin lost
    IN  waiting ~> ~waiting
=============================================================================
