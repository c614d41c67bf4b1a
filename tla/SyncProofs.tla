----------------------------- MODULE SyncProofs ------------------------------
(***************************************************************************)
(* The two parts of internal/sync.  Replicator: what replication misses    *)
(* and what it overwrites, for any nodes, peers and objects, any number of *)
(* overlapping cycles, any limit of an answer and any number of client     *)
(* operations, faults and restarts.  Discovery: whom it asks under which   *)
(* ID, for any nodes and addresses and any time until a peer is pruned.    *)
(***************************************************************************)
EXTENDS Replicator, Discovery, TLAPS

-----------------------------------------------------------------------------
(* The inductive invariant                                                 *)

States == [pc : {"idle", "list", "pull", "put", "local", "push", "send"},
           todo : SUBSET Objects, cur : Objects \cup {None},
           peerHas : SUBSET Objects, looked : 0..now, got : 0..now]

\* A goroutine's state: what TypeOK says of one of them.
Whole(r) == /\ r \in States
            /\ r.pc = "idle" => r = Resting
            /\ r.cur # None <=> r.pc \in {"put", "send"}
            /\ r.cur # None => r.got > 0

\* What LastSync has passed by is lost; this is MissedOnlyIfLost without the types.
Passed ==
  \A pair \in Pairs : \A o \in Present(pair[2]) \ Present(pair[1]) :
    o \notin Modified(pair[1], pair[2]) => <<pair[1], pair[2], o>> \in lost

\* A goroutine in state r has yet to store o.
HasToStore(r, o) == \/ r.pc \in {"pull", "put"} /\ o \in r.todo
                    \/ r.pc = "put" /\ r.cur = o

\* Whatever a cycle that has its listing will not bring is lost, so that it may
\* set LastSync to the clock when it ends.
Covered ==
  \A c \in Cycles : PastListing(c) =>
    \A o \in Present(c[2]) \ Present(c[1]) :
      HasToStore(cycle[c], o) \/ <<c[1], c[2], o>> \in lost

\* A file that is there came after a goroutine in state r looked.
CameLater(n, o, r) == file[n][o] # None => came[n][o] >= r.looked

\* What a goroutine for c in state r knows of the place it will write to.
Knows(c, r) ==
  /\ r.pc \in {"idle", "list", "pull"} => r.looked = 0
  /\ r.pc = "put" => CameLater(c[1], r.cur, r)
  /\ r.pc = "send" => r.peerHas = {}
  /\ r.pc \in {"local", "push", "send"} /\ r.peerHas = {} => \A o \in Objects : CameLater(c[2], o, r)

Informed == \A c \in Cycles : Knows(c, cycle[c])

\* TypeOK, goroutine by goroutine.
Types == /\ now \in Times
         /\ file \in [Nodes -> [Objects -> Times \cup {None}]]
         /\ last \in [Nodes -> [Nodes -> 0..now]]
         /\ cycle = [c \in Cycles |-> cycle[c]]
         /\ \A c \in Cycles : Whole(cycle[c])
         /\ lost \subseteq Nodes \X Nodes \X Objects
         /\ came \in [Nodes -> [Objects -> 0..now]]
         /\ ops \in 0..MaxOps /\ faults \in 0..MaxFaults

IInv == Types /\ Passed /\ Covered /\ Informed

-----------------------------------------------------------------------------
(* Lemmas about the parts of the state                                     *)

\* A goroutine has a node and one of its peers, another node.
LEMMA CycleFacts ==
  ASSUME NEW c \in Cycles
  PROVE  /\ c[1] \in Nodes /\ c[2] \in Nodes /\ c[2] \in PeersOf[c[1]] /\ c[1] # c[2]
         /\ c[3] \in 1..Overlap /\ c = <<c[1], c[2], c[3]>>
         /\ <<c[1], c[2]>> \in Pairs
  BY SelfAssumption DEF Cycles, Pairs

\* The types of the values in the variables.
LEMMA TypeFacts ==
  ASSUME Types
  PROVE  /\ now \in Nat /\ now \in Times /\ 0 \in 0..now /\ now \in 0..now
         /\ \A n \in Nodes, o \in Objects : file[n][o] \in Times \cup {None} /\ came[n][o] \in 0..now
         /\ \A n, p \in Nodes : last[n][p] \in 0..now
<1>1. now \in Nat /\ now \in Times
  BY BoundsAssumption DEF Types, Times
<1> QED  BY <1>1 DEF Types

\* The types of what a goroutine carries.
LEMMA CarriedFacts ==
  ASSUME Types, NEW c \in Cycles
  PROVE  /\ Whole(cycle[c]) /\ cycle[c] \in States /\ cycle[c].looked \in 0..now
         /\ cycle[c].pc \in {"put", "send"} =>
              cycle[c].cur \in Objects /\ \A t \in cycle[c].got .. now : t \in 1..now
  BY DEF Types, Whole, States

\* What is lost remains in Nodes, Nodes and Objects.
LEMMA LostType ==
  ASSUME Types, NEW n \in Nodes, NEW p \in Nodes, NEW S \in SUBSET Objects
  PROVE  Missed(n, p, S) \subseteq Nodes \X Nodes \X Objects
  BY DEF Types, Missed

\* Nodes begin with no files, no cycles and nothing to miss.
LEMMA InitGood == Init => IInv
<1> SUFFICES ASSUME Init  PROVE IInv
  OBVIOUS
<1> USE DEF Init
<1>1. Types
  <2>1. now \in Times /\ 0 \in 0..now
    BY BoundsAssumption DEF Times
  <2>2. Resting \in States
    BY <2>1 DEF Resting, States
  <2>3. \A c \in Cycles : Whole(cycle[c])
    BY <2>2 DEF Whole, Resting
  <2>4. ops \in 0..MaxOps /\ faults \in 0..MaxFaults
    BY BoundsAssumption
  <2> QED  BY <2>1, <2>3, <2>4 DEF Types
<1>2. Passed
  <2>1. \A n \in Nodes : Present(n) = {}
    BY DEF Present
  <2> QED  BY <2>1 DEF Passed, Pairs
<1>3. Covered
  BY DEF Covered, PastListing, Resting
<1>4. Informed
  BY DEF Informed, Knows, Resting
<1> QED  BY <1>1, <1>2, <1>3, <1>4 DEF IInv

-----------------------------------------------------------------------------
(* Steps of a cycle that write no file                                     *)

\* Such a step keeps the invariant if the goroutine's new state does.
LEMMA CycleStep ==
  ASSUME IInv, NEW c \in Cycles, NEW r, Goto(c, r), Whole(r), Knows(c, r),
         UNCHANGED <<now, file, last, came, ops>>, faults' \in 0..MaxFaults,
         lost \subseteq lost', lost' \subseteq Nodes \X Nodes \X Objects,
         r.pc \notin {"idle", "list"} =>
           \A o \in Present(c[2]) \ Present(c[1]) : HasToStore(r, o) \/ <<c[1], c[2], o>> \in lost'
  PROVE  IInv'
<1> USE DEF IInv
<1>1. cycle' = [d \in Cycles |-> cycle'[d]] /\ \A d \in Cycles : cycle'[d] = IF d = c THEN r ELSE cycle[d]
  BY DEF Goto, Types
<1>2. Types'
  <2>1. \A d \in Cycles : Whole(cycle[d])'
    BY <1>1 DEF Types, Whole, States
  <2> QED  BY <1>1, <2>1 DEF Types
<1>3. Passed'
  BY DEF Passed, Present, Modified
<1>4. Covered'
  <2> SUFFICES ASSUME NEW d \in Cycles, PastListing(d)', NEW o \in Present(d[2]) \ Present(d[1])
               PROVE  HasToStore(cycle'[d], o) \/ <<d[1], d[2], o>> \in lost'
    BY DEF Covered, Present, HasToStore
  <2> QED  BY <1>1 DEF Covered, PastListing
<1>5. Informed'
  <2> SUFFICES ASSUME NEW d \in Cycles  PROVE Knows(d, cycle[d])'
    BY DEF Informed
  <2> QED  BY <1>1 DEF Informed, Knows, CameLater
<1> QED  BY <1>2, <1>3, <1>4, <1>5

\* The steps of a cycle that write no file.
LEMMA ReadsGood ==
  ASSUME IInv, NEW c \in Cycles,
         \/ Start(c) \/ List(c) \/ ListFails(c) \/ Inventory(c) \/ InventoryFails(c)
         \/ LocalList(c) \/ PushFails(c)
         \/ \E o \in Objects : \/ PullSkip(c, o) \/ Download(c, o) \/ DownloadFails(c, o)
                               \/ PushSkip(c, o) \/ PushRead(c, o) \/ PushGone(c, o)
  PROVE  IInv'
<1> DEFINE r == cycle[c]
<1> USE DEF IInv
<1>1. /\ Whole(r) /\ Knows(c, r) /\ r \in States
      /\ now \in Nat /\ now > 0 /\ 0 \in 0..now /\ now \in 0..now
  BY BoundsAssumption DEF Types, Times, Whole, Informed
<1>2. /\ c[1] \in Nodes /\ c[2] \in Nodes
      /\ Present(c[1]) \subseteq Objects /\ Present(c[2]) \subseteq Objects
      /\ <<c[1], c[2]>> \in Pairs
  BY CycleFacts DEF Present
<1>3. faults \in 0..MaxFaults /\ (Fault => faults' \in 0..MaxFaults)
  BY BoundsAssumption DEF Types, Fault
<1>4. lost \subseteq Nodes \X Nodes \X Objects
  BY DEF Types
<1>5. r.pc \notin {"idle", "list"} =>
        \A o \in Present(c[2]) \ Present(c[1]) : HasToStore(r, o) \/ <<c[1], c[2], o>> \in lost
  BY DEF Covered, PastListing
<1> HIDE DEF r, IInv
<1>6. CASE Start(c)
  <2> DEFINE s == [Resting EXCEPT !.pc = "list"]
  <2>1. Goto(c, s) /\ UNCHANGED <<now, file, last, lost, came, ops, faults>>
    BY <1>6 DEF Start
  <2>2. Whole(s) /\ Knows(c, s) /\ s.pc = "list"
    BY <1>1 DEF Whole, States, Knows, Resting
  <2> QED  BY <1>3, <1>4, <2>1, <2>2, CycleStep
<1>7. CASE List(c)
  <2> DEFINE all == Modified(c[1], c[2])
  <2>1. PICK some \in SUBSET all :
          Goto(c, [r EXCEPT !.pc = "pull", !.todo = some]) /\ lost' = Missed(c[1], c[2], all \ some)
    BY <1>7 DEF List, r
  <2> DEFINE s == [r EXCEPT !.pc = "pull", !.todo = some]
  <2>2. r.pc = "list" /\ UNCHANGED <<now, file, last, came, ops, faults>>
    BY <1>7 DEF List, r
  <2>3. all \subseteq Objects
    BY <1>2 DEF Modified
  <2>4. Whole(s) /\ Knows(c, s) /\ s.pc = "pull" /\ s.todo = some
    BY <1>1, <2>2, <2>3 DEF Whole, States, Knows
  <2>5. lost \subseteq lost' /\ lost' \subseteq Nodes \X Nodes \X Objects
    BY <1>2, <1>4, <2>1, <2>3 DEF Missed
  <2>6. ASSUME NEW o \in Present(c[2]) \ Present(c[1])
        PROVE  o \in some \/ <<c[1], c[2], o>> \in lost'
    <3>1. CASE o \in all
      BY <1>2, <2>1, <3>1 DEF Missed
    <3>2. CASE o \notin all
      BY <1>2, <2>5, <3>2 DEF Passed, IInv
    <3> QED  BY <3>1, <3>2
  <2> HIDE DEF s
  <2>7. \A o \in Present(c[2]) \ Present(c[1]) : HasToStore(s, o) \/ <<c[1], c[2], o>> \in lost'
    BY <2>4, <2>6 DEF HasToStore
  <2>8. Goto(c, s)
    BY <2>1 DEF s
  <2> QED  BY <1>3, <2>2, <2>4, <2>5, <2>7, <2>8, CycleStep
<1>8. CASE ListFails(c)
  <2> DEFINE s == [r EXCEPT !.pc = "pull"]
  <2>1. /\ r.pc = "list" /\ Goto(c, s) /\ lost' = Missed(c[1], c[2], Modified(c[1], c[2]))
        /\ Fault /\ UNCHANGED <<now, file, last, came, ops>>
    BY <1>8 DEF ListFails, r
  <2>2. Whole(s) /\ Knows(c, s)
    BY <1>1, <2>1 DEF Whole, States, Knows
  <2>3. lost \subseteq lost' /\ lost' \subseteq Nodes \X Nodes \X Objects
    BY <1>2, <1>4, <2>1 DEF Missed, Modified
  <2>4. ASSUME NEW o \in Present(c[2]) \ Present(c[1])
        PROVE  <<c[1], c[2], o>> \in lost'
    <3>1. CASE o \in Modified(c[1], c[2])
      BY <1>2, <2>1, <3>1 DEF Missed
    <3>2. CASE o \notin Modified(c[1], c[2])
      BY <1>2, <2>3, <3>2 DEF Passed, IInv
    <3> QED  BY <3>1, <3>2
  <2> HIDE DEF s
  <2> QED  BY <1>3, <2>1, <2>2, <2>3, <2>4, CycleStep
<1>9. CASE Inventory(c) \/ InventoryFails(c)
  <2>1. /\ r.pc = "pull" /\ r.todo = {} /\ faults' \in 0..MaxFaults
        /\ UNCHANGED <<now, file, last, lost, came, ops>>
    BY <1>3, <1>9 DEF Inventory, InventoryFails, r
  <2>2. PICK s : /\ Goto(c, s)
                 /\ \/ s = [r EXCEPT !.pc = "local", !.peerHas = Present(c[2]), !.looked = now]
                    \/ s = [r EXCEPT !.pc = "local"]
    BY <1>9 DEF Inventory, InventoryFails, r
  <2>3. Whole(s) /\ s.pc = "local"
    BY <1>1, <1>2, <2>1, <2>2 DEF Whole, States
  <2>4. ASSUME s.peerHas = {}, NEW o \in Objects  PROVE CameLater(c[2], o, s)
    <3>1. CASE s = [r EXCEPT !.pc = "local", !.peerHas = Present(c[2]), !.looked = now]
      <4>1. Present(c[2]) = {}
        BY <1>1, <2>4, <3>1 DEF States
      <4> QED  BY <4>1 DEF CameLater, Present
    <3>2. CASE s = [r EXCEPT !.pc = "local"]
      <4>1. s.looked = 0
        BY <1>1, <2>1, <3>2 DEF States, Knows
      <4>2. came[c[2]][o] \in Nat
        BY <1>1, <1>2, <2>4 DEF IInv, Types
      <4> QED  BY <4>1, <4>2 DEF CameLater
    <3> QED  BY <2>2, <3>1, <3>2
  <2>5. Knows(c, s)
    BY <2>3, <2>4 DEF Knows
  <2>6. \A o \in Present(c[2]) \ Present(c[1]) : <<c[1], c[2], o>> \in lost'
    BY <1>5, <2>1 DEF HasToStore
  <2> QED  BY <1>4, <2>1, <2>2, <2>3, <2>5, <2>6, CycleStep
<1>10. CASE LocalList(c)
  <2> DEFINE s == [r EXCEPT !.pc = "push", !.todo = Present(c[1])]
  <2>1. r.pc = "local" /\ Goto(c, s) /\ UNCHANGED <<now, file, last, lost, came, ops, faults>>
    BY <1>10 DEF LocalList, r
  <2>2. Whole(s) /\ Knows(c, s)
    BY <1>1, <1>2, <2>1 DEF Whole, States, Knows, CameLater
  <2>3. \A o \in Present(c[2]) \ Present(c[1]) : <<c[1], c[2], o>> \in lost'
    BY <1>5, <2>1 DEF HasToStore
  <2> HIDE DEF s
  <2> QED  BY <1>3, <1>4, <2>1, <2>2, <2>3, CycleStep
<1>11. CASE PushFails(c)
  <2> DEFINE s == [r EXCEPT !.pc = "push", !.cur = None, !.got = 0]
  <2>1. /\ r.pc = "send" /\ Goto(c, s) /\ Fault
        /\ UNCHANGED <<now, file, last, lost, came, ops>>
    BY <1>11 DEF PushFails, r
  <2>2. Whole(s) /\ Knows(c, s)
    BY <1>1, <2>1 DEF Whole, States, Knows, CameLater
  <2>3. \A o \in Present(c[2]) \ Present(c[1]) : <<c[1], c[2], o>> \in lost'
    BY <1>5, <2>1 DEF HasToStore
  <2> HIDE DEF s
  <2> QED  BY <1>3, <1>4, <2>1, <2>2, <2>3, CycleStep
<1>12. ASSUME NEW x \in Objects, PullSkip(c, x) \/ Download(c, x) \/ DownloadFails(c, x)
       PROVE  IInv'
  <2>1. /\ r.pc = "pull" /\ faults' \in 0..MaxFaults
        /\ UNCHANGED <<now, file, last, came, ops>>
        /\ lost' = lost \/ lost' = Missed(c[1], c[2], {x})
    BY <1>3, <1>12 DEF PullSkip, Download, DownloadFails, r
  <2>2. lost \subseteq lost' /\ lost' \subseteq Nodes \X Nodes \X Objects
    BY <1>2, <1>4, <2>1 DEF Missed
  <2>3. CASE PullSkip(c, x) \/ DownloadFails(c, x)
    <3> DEFINE s == [r EXCEPT !.todo = @ \ {x}]
    <3>1. Goto(c, s)
      BY <2>3 DEF PullSkip, DownloadFails, r
    <3>2. Whole(s) /\ Knows(c, s) /\ s.pc = "pull" /\ s.todo = r.todo \ {x}
      BY <1>1, <2>1 DEF Whole, States, Knows, CameLater
    <3>3. x \in Present(c[2]) \ Present(c[1]) => <<c[1], c[2], x>> \in lost'
      BY <2>3 DEF PullSkip, DownloadFails, Present, Missed
    <3> HIDE DEF s
    <3>4. \A o \in Present(c[2]) \ Present(c[1]) : HasToStore(s, o) \/ <<c[1], c[2], o>> \in lost'
      BY <1>5, <2>1, <2>2, <3>2, <3>3 DEF HasToStore
    <3> QED  BY <2>1, <2>2, <3>1, <3>2, <3>4, CycleStep
  <2>4. CASE Download(c, x)
    <3> DEFINE s == [r EXCEPT !.pc = "put", !.cur = x, !.todo = @ \ {x}, !.looked = now,
                                !.got = now]
    <3>1. Goto(c, s) /\ file[c[1]][x] = None
      BY <2>4 DEF Download, r
    <3>2. Whole(s) /\ s.pc = "put" /\ s.cur = x /\ s.todo = r.todo \ {x}
      BY <1>1, <2>1, NoneAssumption DEF Whole, States
    <3> HIDE DEF s
    <3>3. Knows(c, s)
      BY <3>1, <3>2 DEF Knows, CameLater
    <3>4. ASSUME NEW o \in Present(c[2]) \ Present(c[1])
          PROVE  HasToStore(s, o) \/ <<c[1], c[2], o>> \in lost'
      BY <1>5, <2>1, <2>2, <3>2 DEF HasToStore
    <3> QED  BY <2>1, <2>2, <3>1, <3>2, <3>3, <3>4, CycleStep
  <2> QED  BY <1>12, <2>3, <2>4
<1>13. ASSUME NEW x \in Objects, PushSkip(c, x) \/ PushRead(c, x) \/ PushGone(c, x)
       PROVE  IInv'
  <2>1. r.pc = "push" /\ UNCHANGED <<now, file, last, lost, came, ops, faults>>
    BY <1>13 DEF PushSkip, PushRead, PushGone, r
  <2>2. \A o \in Present(c[2]) \ Present(c[1]) : <<c[1], c[2], o>> \in lost'
    BY <1>5, <2>1 DEF HasToStore
  <2>3. CASE PushSkip(c, x) \/ PushGone(c, x)
    <3> DEFINE s == [r EXCEPT !.todo = @ \ {x}]
    <3>1. Goto(c, s)
      BY <2>3 DEF PushSkip, PushGone, r
    <3>2. Whole(s) /\ Knows(c, s)
      BY <1>1, <2>1 DEF Whole, States, Knows, CameLater
    <3> HIDE DEF s
    <3> QED  BY <1>3, <1>4, <2>1, <2>2, <3>1, <3>2, CycleStep
  <2>4. CASE PushRead(c, x)
    <3> DEFINE s == [r EXCEPT !.pc = "send", !.cur = x, !.todo = @ \ {x}, !.got = now]
    <3>1. Goto(c, s) /\ Hash(x) \notin PeerHashes(c)
      BY <2>4 DEF PushRead, r
    <3>2. r.peerHas = {}
      BY <3>1 DEF Hash, PeerHashes, r
    <3>3. Whole(s) /\ s.pc = "send" /\ s.peerHas = {} /\ s.looked = r.looked
      BY <1>1, <2>1, <3>2, NoneAssumption DEF Whole, States
    <3>4. Knows(c, s)
      BY <1>1, <2>1, <3>2, <3>3 DEF Knows, CameLater
    <3> HIDE DEF s
    <3> QED  BY <1>3, <1>4, <2>1, <2>2, <3>1, <3>3, <3>4, CycleStep
  <2> QED  BY <1>13, <2>3, <2>4
<1> QED  BY <1>6, <1>7, <1>8, <1>9, <1>10, <1>11, <1>12, <1>13

-----------------------------------------------------------------------------
(* Steps that write a file                                                 *)

\* What a write to o at n changes.
LEMMA WriteFacts ==
  ASSUME Types, NEW n \in Nodes, NEW o \in Objects, NEW t \in 1..now, Write(n, o, t)
  PROVE  /\ \A m \in Nodes, x \in Objects :
              /\ file'[m][x] = IF m = n /\ x = o THEN t ELSE file[m][x]
              /\ came'[m][x] = IF m = n /\ x = o THEN now ELSE came[m][x]
         /\ file' \in [Nodes -> [Objects -> Times \cup {None}]]
         /\ came' \in [Nodes -> [Objects -> 0..now]]
         /\ lost' \subseteq Nodes \X Nodes \X Objects
         /\ \A m, p \in Nodes, x \in Objects :
              (x = o => n \notin {m, p}) /\ <<m, p, x>> \in lost => <<m, p, x>> \in lost'
         /\ \A m \in Nodes :
              n \in PeersOf[m] /\ file[m][o] = None /\ (Overlooks(m, n, o) \/ t < last[m][n])
                => <<m, n, o>> \in lost'
<1>1. now \in Times /\ now \in 0..now /\ now \in Nat /\ t \in Times
  BY TypeFacts, BoundsAssumption DEF Times
<1>2. /\ file' \in [Nodes -> [Objects -> Times \cup {None}]]
      /\ came' \in [Nodes -> [Objects -> 0..now]]
  BY <1>1 DEF Types, Write
<1>3. \A m \in Nodes, x \in Objects :
        /\ file'[m][x] = IF m = n /\ x = o THEN t ELSE file[m][x]
        /\ came'[m][x] = IF m = n /\ x = o THEN now ELSE came[m][x]
  BY DEF Types, Write
<1>4. lost' = Written(n, o, t) /\ lost \subseteq Nodes \X Nodes \X Objects
  BY DEF Types, Write
<1> QED  BY <1>2, <1>3, <1>4 DEF Written

\* The goroutine for d does nothing, or the write of o at n was its own.
Continues(d, n, o) ==
  \/ cycle'[d] = cycle[d]
  \/ /\ d[1] = n /\ cycle[d].pc = "put" /\ cycle[d].cur = o
     /\ cycle'[d] = [cycle[d] EXCEPT !.pc = "pull", !.cur = None, !.looked = 0, !.got = 0]
  \/ /\ cycle[d].pc = "send"
     /\ cycle'[d] = [cycle[d] EXCEPT !.pc = "push", !.cur = None, !.got = 0]

\* A write keeps the invariant, be it an upload or the end of a copy.
LEMMA WriteStep ==
  ASSUME IInv, NEW n \in Nodes, NEW o \in Objects, NEW t \in 1..now, Write(n, o, t),
         UNCHANGED <<now, last>>,
         ops' \in 0..MaxOps, faults' \in 0..MaxFaults,
         cycle' = [d \in Cycles |-> cycle'[d]],
         \A d \in Cycles : Continues(d, n, o)
  PROVE  IInv'
<1> USE DEF IInv
<1>1. /\ now \in Nat /\ now \in Times
      /\ \A c \in Cycles : cycle[c] \in States /\ cycle[c].looked \in 0..now
  <2>1. Types
    OBVIOUS
  <2>2. \A c \in Cycles : cycle[c] \in States /\ cycle[c].looked \in 0..now
    BY <2>1, CarriedFacts
  <2> QED  BY <2>1, <2>2, TypeFacts
<1>2. /\ \A m \in Nodes, x \in Objects :
           /\ file'[m][x] = IF m = n /\ x = o THEN t ELSE file[m][x]
           /\ came'[m][x] = IF m = n /\ x = o THEN now ELSE came[m][x]
      /\ file' \in [Nodes -> [Objects -> Times \cup {None}]]
      /\ came' \in [Nodes -> [Objects -> 0..now]]
      /\ lost' \subseteq Nodes \X Nodes \X Objects
      /\ \A m, p \in Nodes, x \in Objects :
           (x = o => n \notin {m, p}) /\ <<m, p, x>> \in lost => <<m, p, x>> \in lost'
      /\ \A m \in Nodes :
           n \in PeersOf[m] /\ file[m][o] = None /\ (Overlooks(m, n, o) \/ t < last[m][n])
             => <<m, n, o>> \in lost'
  BY WriteFacts
<1>3. t \in Nat /\ t # None
  BY <1>1, NoneAssumption
<1>4. ASSUME NEW m \in Nodes, NEW p \in Nodes, NEW x \in Objects,
             file'[p][x] # None, file'[m][x] = None
      PROVE  /\ ~(x = o /\ m = n)
             /\ x = o /\ p = n => m # n /\ file[m][o] = None /\ file'[p][x] = t
             /\ (x = o => n \notin {m, p}) => /\ file[p][x] # None /\ file[m][x] = None
                                             /\ file'[p][x] = file[p][x]
  <2>2. /\ file'[p][x] = IF p = n /\ x = o THEN t ELSE file[p][x]
        /\ file'[m][x] = IF m = n /\ x = o THEN t ELSE file[m][x]
    BY <1>2
  <2> QED  BY <1>3, <1>4, <2>2
<1>5. ASSUME NEW d \in Cycles
      PROVE  /\ Whole(cycle[d]) /\ cycle[d] \in States /\ cycle[d].looked \in 0..now
             /\ \/ /\ d[1] = n /\ cycle[d].pc = "put" /\ cycle[d].cur = o
                   /\ cycle'[d] \in States /\ cycle'[d].pc = "pull" /\ cycle'[d].cur = None
                   /\ cycle'[d].looked = 0 /\ cycle'[d].todo = cycle[d].todo
                \/ /\ cycle[d].pc = "send"
                   /\ cycle'[d] \in States /\ cycle'[d].pc = "push" /\ cycle'[d].cur = None
                   /\ cycle'[d].looked = cycle[d].looked /\ cycle'[d].peerHas = cycle[d].peerHas
                \/ cycle'[d] = cycle[d]
  <2>1. Whole(cycle[d]) /\ 0 \in 0..now
    BY <1>1 DEF Types
  <2>2. ASSUME cycle'[d] = [cycle[d] EXCEPT !.pc = "pull", !.cur = None, !.looked = 0, !.got = 0]
        PROVE  /\ cycle'[d] \in States /\ cycle'[d].pc = "pull" /\ cycle'[d].cur = None
               /\ cycle'[d].looked = 0 /\ cycle'[d].todo = cycle[d].todo
    BY <1>1, <2>1, <2>2 DEF States
  <2>3. ASSUME cycle'[d] = [cycle[d] EXCEPT !.pc = "push", !.cur = None, !.got = 0]
        PROVE  /\ cycle'[d] \in States /\ cycle'[d].pc = "push" /\ cycle'[d].cur = None
               /\ cycle'[d].looked = cycle[d].looked /\ cycle'[d].peerHas = cycle[d].peerHas
    BY <1>1, <2>1, <2>3 DEF States
  <2> QED  BY <1>1, <2>1, <2>2, <2>3 DEF Continues
<1>6. Types'
  <2>1. \A d \in Cycles : Whole(cycle[d])'
    BY <1>5 DEF Whole, States
  <2> QED  BY <1>1, <1>2, <2>1 DEF Types
<1>7. Passed'
  <2> SUFFICES ASSUME NEW pair \in Pairs, NEW x \in Objects,
                      file'[pair[2]][x] # None, file'[pair[1]][x] = None,
                      x \notin Modified(pair[1], pair[2])'
               PROVE  <<pair[1], pair[2], x>> \in lost'
    BY DEF Passed, Present
  <2>1. pair[1] \in Nodes /\ pair[2] \in Nodes
    BY DEF Pairs
  <2>2. last[pair[1]][pair[2]] \in 0..now
    BY <2>1, TypeFacts
  <2>3. last[pair[1]][pair[2]] > 0 /\ ~(file'[pair[2]][x] >= last[pair[1]][pair[2]])
    BY DEF Modified, Present
  <2>4. ~(x = o /\ n = pair[1])
    BY <1>4, <2>1
  <2>5. CASE x = o /\ n = pair[2]
    <3>1. n \in PeersOf[pair[1]] /\ file[pair[1]][o] = None /\ file'[pair[2]][x] = t
      BY <1>4, <2>1, <2>5 DEF Pairs
    <3>2. t < last[pair[1]][n]
      BY <1>1, <1>3, <2>2, <2>3, <2>5, <3>1
    <3> QED  BY <1>2, <2>1, <2>5, <3>1, <3>2
  <2>6. CASE ~(x = o /\ n \in {pair[1], pair[2]})
    <3>1. /\ file[pair[2]][x] # None /\ file[pair[1]][x] = None
          /\ file'[pair[2]][x] = file[pair[2]][x]
      BY <1>4, <2>1, <2>6
    <3>2. <<pair[1], pair[2], x>> \in lost
      BY <2>3, <3>1 DEF Passed, Present, Modified
    <3> QED  BY <1>2, <2>1, <2>6, <3>2
  <2> QED  BY <2>4, <2>5, <2>6
<1>8. Covered'
  <2> SUFFICES ASSUME NEW d \in Cycles, PastListing(d)', NEW x \in Objects,
                      file'[d[2]][x] # None, file'[d[1]][x] = None
               PROVE  HasToStore(cycle'[d], x) \/ <<d[1], d[2], x>> \in lost'
    BY DEF Covered, HasToStore, Present
  <2>1. d[1] \in Nodes /\ d[2] \in Nodes /\ d[2] \in PeersOf[d[1]] /\ d[1] # d[2]
        /\ d[3] \in 1..Overlap /\ d = <<d[1], d[2], d[3]>>
    BY CycleFacts
  <2>2. PastListing(d)
    BY <1>5 DEF PastListing
  <2>3. CASE x = o /\ d[2] = n
    <3>1. file[d[1]][o] = None /\ d[1] # n
      BY <1>4, <2>1, <2>3
    <3>2. CASE Brings(d, o)
      BY <1>5, <2>3, <3>1, <3>2 DEF Brings, HasToStore
    <3>3. CASE ~Brings(d, o)
      <4>1. Overlooks(d[1], n, o)
        BY <2>1, <2>2, <2>3, <3>3 DEF Overlooks
      <4> QED  BY <1>2, <2>1, <2>3, <3>1, <4>1
    <3> QED  BY <3>2, <3>3
  <2>4. CASE x = o => n \notin {d[1], d[2]}
    <3>1. file[d[2]][x] # None /\ file[d[1]][x] = None
      BY <1>4, <2>1, <2>4
    <3>2. HasToStore(cycle[d], x) \/ <<d[1], d[2], x>> \in lost
      BY <2>2, <3>1 DEF Covered, Present
    <3>3. CASE HasToStore(cycle[d], x)
      BY <1>5, <2>4, <3>3 DEF HasToStore
    <3> QED  BY <1>2, <2>1, <2>4, <3>2, <3>3
  <2>5. ~(x = o /\ d[1] = n)
    BY <1>4, <2>1
  <2> QED  BY <2>3, <2>4, <2>5
<1>9. Informed'
  <2> SUFFICES ASSUME NEW d \in Cycles  PROVE Knows(d, cycle[d])'
    BY DEF Informed
  <2>1. d[1] \in Nodes /\ d[2] \in Nodes
    BY CycleFacts
  <2>2. ASSUME NEW m \in Nodes, NEW x \in Objects, CameLater(m, x, cycle[d]),
               cycle'[d].looked = cycle[d].looked
        PROVE  CameLater(m, x, cycle[d])'
    <3>1. cycle[d].looked \in 0..now
      BY <1>1
    <3>2. /\ file'[m][x] = IF m = n /\ x = o THEN t ELSE file[m][x]
          /\ came'[m][x] = IF m = n /\ x = o THEN now ELSE came[m][x]
      BY <1>2
    <3> QED  BY <1>1, <2>2, <3>1, <3>2 DEF CameLater
  <2>3. Knows(d, cycle[d])
    BY DEF Informed
  <2>4. CASE cycle'[d] = cycle[d]
    <3>1. cycle[d].pc = "put" => cycle[d].cur \in Objects
      BY <1>5 DEF Whole, States
    <3> QED  BY <2>1, <2>2, <2>3, <2>4, <3>1 DEF Knows
  <2>5. CASE cycle[d].pc = "send" /\ cycle'[d].pc = "push"
    <3>1. \A x \in Objects : CameLater(d[2], x, cycle[d]) /\ cycle'[d].looked = cycle[d].looked
      BY <1>5, <2>3, <2>5 DEF Knows
    <3>2. \A x \in Objects : CameLater(d[2], x, cycle[d])'
      BY <2>1, <2>2, <3>1
    <3> QED  BY <2>5, <3>2 DEF Knows
  <2>6. CASE cycle'[d].pc = "pull" /\ cycle'[d].looked = 0
    BY <2>6 DEF Knows
  <2> QED  BY <1>5, <2>4, <2>5, <2>6
<1> QED  BY <1>6, <1>7, <1>8, <1>9

\* Uploads, and the ends of downloads and of pushes.
LEMMA WritesGood ==
  ASSUME IInv,
         \/ \E n \in Nodes, o \in Objects : Upload(n, o)
         \/ \E c \in Cycles : PutPulled(c) \/ PushStore(c)
  PROVE  IInv'
<1> USE DEF IInv
<1>1. ops \in 0..MaxOps /\ faults \in 0..MaxFaults /\ (Op => ops' \in 0..MaxOps)
  BY BoundsAssumption DEF Types, Op
<1>2. cycle = [d \in Cycles |-> cycle[d]]
  BY DEF Types
<1>3. ASSUME NEW n \in Nodes, NEW o \in Objects, Upload(n, o)  PROVE IInv'
  <2>1. PICK t \in 1..now : Write(n, o, t)
    BY <1>3 DEF Upload
  <2>3. Op /\ UNCHANGED <<now, last, cycle, faults>>
    BY <1>3 DEF Upload
  <2>2. cycle' = [d \in Cycles |-> cycle'[d]] /\ \A d \in Cycles : Continues(d, n, o)
    BY <1>2, <2>3 DEF Continues
  <2> HIDE DEF IInv
  <2> QED  BY <1>1, <2>1, <2>2, <2>3, WriteStep
<1>4. ASSUME NEW c \in Cycles, PutPulled(c)  PROVE IInv'
  <2>1. /\ c[1] \in Nodes /\ cycle[c].cur \in Objects
        /\ \A t \in cycle[c].got .. now : t \in 1..now
    BY <1>4, CycleFacts, CarriedFacts DEF PutPulled
  <2>2. /\ cycle[c].pc = "put"
        /\ cycle' = [cycle EXCEPT ![c] = [cycle[c] EXCEPT !.pc = "pull", !.cur = None, !.looked = 0, !.got = 0]]
        /\ UNCHANGED <<now, last, ops, faults>>
    BY <1>4 DEF PutPulled, Goto
  <2>4. PICK t \in 1..now : Write(c[1], cycle[c].cur, t)
    BY <1>4, <2>1 DEF PutPulled
  <2>3. cycle' = [d \in Cycles |-> cycle'[d]] /\ \A d \in Cycles : Continues(d, c[1], cycle[c].cur)
    BY <1>2, <2>2 DEF Continues
  <2> HIDE DEF IInv
  <2> QED  BY <1>1, <2>1, <2>2, <2>3, <2>4, WriteStep
<1>5. ASSUME NEW c \in Cycles, PushStore(c)  PROVE IInv'
  <2>1. /\ c[2] \in Nodes /\ cycle[c].cur \in Objects
        /\ \A t \in cycle[c].got .. now : t \in 1..now
    BY <1>5, CycleFacts, CarriedFacts DEF PushStore
  <2>2. /\ cycle[c].pc = "send"
        /\ cycle' = [cycle EXCEPT ![c] = [cycle[c] EXCEPT !.pc = "push", !.cur = None, !.got = 0]]
        /\ UNCHANGED <<now, last, ops, faults>>
    BY <1>5 DEF PushStore, Goto
  <2>4. PICK t \in 1..now : Write(c[2], cycle[c].cur, t)
    BY <1>5, <2>1 DEF PushStore
  <2>3. cycle' = [d \in Cycles |-> cycle'[d]] /\ \A d \in Cycles : Continues(d, c[2], cycle[c].cur)
    BY <1>2, <2>2 DEF Continues
  <2> HIDE DEF IInv
  <2> QED  BY <1>1, <2>1, <2>2, <2>3, <2>4, WriteStep
<1> QED  BY <1>3, <1>4, <1>5

-----------------------------------------------------------------------------
(* The other steps                                                         *)

\* A cycle ends: what it did not bring is lost, so LastSync may pass it by.
LEMMA DoneGood ==
  ASSUME IInv, NEW c \in Cycles, Done(c)
  PROVE  IInv'
<1> USE DEF IInv
<1>1. /\ cycle[c].pc = "push" /\ last' = [last EXCEPT ![c[1]][c[2]] = now]
      /\ cycle' = [cycle EXCEPT ![c] = Resting]
      /\ UNCHANGED <<now, file, lost, came, ops, faults>>
  BY DEF Done, Goto
<1>2. now \in Nat /\ 0 \in 0..now /\ now \in 0..now
  BY TypeFacts
<1>3. c[1] \in Nodes /\ c[2] \in Nodes
  BY CycleFacts
<1>4. /\ cycle' = [d \in Cycles |-> cycle'[d]]
      /\ \A d \in Cycles : cycle'[d] = IF d = c THEN Resting ELSE cycle[d]
  BY <1>1 DEF Types
<1>5. \A n, p \in Nodes : last'[n][p] = IF n = c[1] /\ p = c[2] THEN now ELSE last[n][p]
  BY <1>1, <1>3 DEF Types
<1>6. Types'
  <2>1. Whole(Resting)
    BY <1>2 DEF Whole, States, Resting
  <2>2. \A d \in Cycles : Whole(cycle[d])'
    BY <1>1, <1>4, <2>1 DEF Types, Whole, States
  <2>3. last' \in [Nodes -> [Nodes -> 0..now]]
    BY <1>1, <1>2, <1>3 DEF Types
  <2> QED  BY <1>1, <1>4, <2>2, <2>3 DEF Types
<1>7. Passed'
  <2> SUFFICES ASSUME NEW pair \in Pairs, NEW o \in Present(pair[2]) \ Present(pair[1]),
                      ~(last'[pair[1]][pair[2]] > 0 => file[pair[2]][o] >= last'[pair[1]][pair[2]])
               PROVE  <<pair[1], pair[2], o>> \in lost
    BY <1>1 DEF Passed, Present, Modified
  <2>1. pair[1] \in Nodes /\ pair[2] \in Nodes
    BY DEF Pairs
  <2>2. CASE pair[1] = c[1] /\ pair[2] = c[2]
    BY <1>1, <2>2 DEF Covered, PastListing, HasToStore
  <2>3. CASE ~(pair[1] = c[1] /\ pair[2] = c[2])
    <3>1. last'[pair[1]][pair[2]] = last[pair[1]][pair[2]]
      BY <1>5, <2>1, <2>3
    <3> QED  BY <3>1 DEF Passed, Modified
  <2> QED  BY <2>2, <2>3
<1>8. Covered'
  <2> SUFFICES ASSUME NEW d \in Cycles, PastListing(d)', NEW o \in Present(d[2]) \ Present(d[1])
               PROVE  HasToStore(cycle'[d], o) \/ <<d[1], d[2], o>> \in lost
    BY <1>1 DEF Covered, Present, HasToStore
  <2> QED  BY <1>4 DEF Covered, PastListing, Resting
<1>9. Informed'
  <2> SUFFICES ASSUME NEW d \in Cycles  PROVE Knows(d, cycle[d])'
    BY DEF Informed
  <2>1. CASE d = c
    BY <1>4, <2>1 DEF Knows, Resting
  <2>2. CASE d # c
    <3>1. Knows(d, cycle[d]) /\ cycle'[d] = cycle[d]
      BY <1>4, <2>2 DEF Informed
    <3> QED  BY <1>1, <3>1 DEF Knows, CameLater
  <2> QED  BY <2>1, <2>2
<1> QED  BY <1>6, <1>7, <1>8, <1>9

\* What a node deletes it may never get again.
LEMMA DeleteGood ==
  ASSUME IInv, NEW n \in Nodes, NEW o \in Objects, DeleteObject(n, o)
  PROVE  IInv'
<1> USE DEF IInv
<1>1. /\ file' = [file EXCEPT ![n][o] = None] /\ came' = [came EXCEPT ![n][o] = 0]
      /\ lost' = lost \cup {<<n, p, o>> : p \in PeersOf[n]}
      /\ UNCHANGED <<now, last, cycle, faults>>
  BY DEF DeleteObject
<1>2. 0 \in 0..now
  BY TypeFacts
<1>3. \A m \in Nodes, x \in Objects :
        /\ file'[m][x] = IF m = n /\ x = o THEN None ELSE file[m][x]
        /\ came'[m][x] = IF m = n /\ x = o THEN 0 ELSE came[m][x]
  BY <1>1 DEF Types
<1>4. /\ \A m, p \in Nodes, x \in Objects : <<m, p, x>> \in lost => <<m, p, x>> \in lost'
      /\ \A p \in PeersOf[n] : <<n, p, o>> \in lost'
  BY <1>1
<1>5. Types'
  <2>1. ops' \in 0..MaxOps
    BY BoundsAssumption DEF DeleteObject, Op, Types
  <2>2. lost' \subseteq Nodes \X Nodes \X Objects
    <3>1. \A p \in PeersOf[n] : <<n, p, o>> \in Nodes \X Nodes \X Objects
      BY PeersAssumption
    <3> QED  BY <1>1, <3>1 DEF Types
  <2>3. file' \in [Nodes -> [Objects -> Times \cup {None}]] /\ came' \in [Nodes -> [Objects -> 0..now]]
    BY <1>1, <1>2 DEF Types
  <2>4. \A d \in Cycles : Whole(cycle[d])'
    BY <1>1 DEF Types, Whole, States
  <2> QED  BY <1>1, <2>1, <2>2, <2>3, <2>4 DEF Types
<1>6. ASSUME NEW m \in Nodes, NEW p \in Nodes, p \in PeersOf[m], NEW x \in Objects,
             file'[p][x] # None, file'[m][x] = None
      PROVE  /\ file'[p][x] = file[p][x] /\ file[p][x] # None
             /\ file[m][x] = None \/ <<m, p, x>> \in lost'
  BY <1>3, <1>4, <1>6
<1>7. Passed'
  <2> SUFFICES ASSUME NEW pair \in Pairs, NEW x \in Objects,
                      file'[pair[2]][x] # None, file'[pair[1]][x] = None,
                      x \notin Modified(pair[1], pair[2])'
               PROVE  <<pair[1], pair[2], x>> \in lost'
    BY DEF Passed, Present
  <2>1. pair[1] \in Nodes /\ pair[2] \in Nodes /\ pair[2] \in PeersOf[pair[1]]
    BY DEF Pairs
  <2>2. last[pair[1]][pair[2]] > 0 /\ ~(file'[pair[2]][x] >= last[pair[1]][pair[2]])
    BY <1>1 DEF Modified, Present
  <2>3. CASE file[pair[1]][x] = None
    BY <1>4, <1>6, <2>1, <2>2, <2>3 DEF Passed, Present, Modified
  <2> QED  BY <1>6, <2>1, <2>3
<1>8. Covered'
  <2> SUFFICES ASSUME NEW d \in Cycles, PastListing(d)', NEW x \in Objects,
                      file'[d[2]][x] # None, file'[d[1]][x] = None
               PROVE  HasToStore(cycle'[d], x) \/ <<d[1], d[2], x>> \in lost'
    BY DEF Covered, HasToStore, Present
  <2>1. d[1] \in Nodes /\ d[2] \in Nodes /\ d[2] \in PeersOf[d[1]]
    BY CycleFacts
  <2>2. CASE file[d[1]][x] = None
    BY <1>1, <1>4, <1>6, <2>1, <2>2 DEF Covered, Present, PastListing
  <2> QED  BY <1>6, <2>1, <2>2
<1>9. Informed'
  <2> SUFFICES ASSUME NEW d \in Cycles  PROVE Knows(d, cycle[d])'
    BY DEF Informed
  <2>1. d[1] \in Nodes /\ d[2] \in Nodes /\ Knows(d, cycle[d]) /\ cycle'[d] = cycle[d]
    BY <1>1, CycleFacts DEF Informed
  <2>2. cycle[d].pc = "put" => cycle[d].cur \in Objects
    BY CarriedFacts
  <2>3. ASSUME NEW m \in Nodes, NEW x \in Objects, CameLater(m, x, cycle[d])
        PROVE  CameLater(m, x, cycle[d])'
    BY <1>3, <2>1, <2>3 DEF CameLater
  <2> QED  BY <2>1, <2>2, <2>3 DEF Knows
<1> QED  BY <1>5, <1>7, <1>8, <1>9

\* A moved file keeps its modification time: nobody may ask for it under its new name.
LEMMA MoveGood ==
  ASSUME IInv, NEW n \in Nodes, NEW s \in Objects, NEW d \in Objects, MoveObject(n, s, d)
  PROVE  IInv'
<1> USE DEF IInv
<1>1. /\ s # d /\ file[n][s] # None
      /\ file' = [file EXCEPT ![n][d] = file[n][s], ![n][s] = None]
      /\ came' = [came EXCEPT ![n][d] = now, ![n][s] = 0]
      /\ lost' = (lost \ {<<n, p, d>> : p \in PeersOf[n]})
                   \cup {<<n, p, s>> : p \in PeersOf[n]}
                   \cup {<<m, n, d>> : m \in {m \in Nodes : n \in PeersOf[m] /\ file[m][d] = None}}
      /\ UNCHANGED <<now, last, cycle, faults>>
  BY DEF MoveObject
<1>2. 0 \in 0..now /\ now \in 0..now /\ now \in Nat /\ file[n][s] \in Times \cup {None}
  BY TypeFacts
<1>3. \A m \in Nodes, x \in Objects :
        /\ file'[m][x] = IF m = n /\ x = s THEN None
                         ELSE IF m = n /\ x = d THEN file[n][s] ELSE file[m][x]
        /\ came'[m][x] = IF m = n /\ x = s THEN 0
                         ELSE IF m = n /\ x = d THEN now ELSE came[m][x]
  BY <1>1 DEF Types
<1>4. /\ \A m, p \in Nodes, x \in Objects :
           <<m, p, x>> \in lost /\ ~(m = n /\ x = d) => <<m, p, x>> \in lost'
      /\ \A p \in PeersOf[n] : <<n, p, s>> \in lost'
      /\ \A m \in Nodes : n \in PeersOf[m] /\ file[m][d] = None => <<m, n, d>> \in lost'
  BY <1>1
<1>5. Types'
  <2>1. ops' \in 0..MaxOps
    BY BoundsAssumption DEF MoveObject, Op, Types
  <2>2. lost' \subseteq Nodes \X Nodes \X Objects
    BY <1>1, PeersAssumption DEF Types
  <2>3. file' \in [Nodes -> [Objects -> Times \cup {None}]]
    BY <1>1, <1>2 DEF Types
  <2>4. came' \in [Nodes -> [Objects -> 0..now]]
    BY <1>1, <1>2 DEF Types
  <2>5. \A c \in Cycles : Whole(cycle[c])'
    BY <1>1 DEF Types, Whole, States
  <2> QED  BY <1>1, <2>1, <2>2, <2>3, <2>4, <2>5 DEF Types
<1>6. ASSUME NEW m \in Nodes, NEW p \in Nodes, p \in PeersOf[m], NEW x \in Objects,
             file'[p][x] # None, file'[m][x] = None
      PROVE  \/ <<m, p, x>> \in lost'
             \/ /\ file'[p][x] = file[p][x] /\ file[p][x] # None /\ file[m][x] = None
                /\ <<m, p, x>> \in lost => <<m, p, x>> \in lost'
  <2>1. CASE p = n /\ x = d
    <3>1. m # n
      BY <1>6, <2>1, SelfAssumption
    <3> QED  BY <1>3, <1>4, <1>6, <2>1, <3>1
  <2>2. CASE m = n /\ x = s
    BY <1>4, <1>6, <2>2
  <2>3. CASE ~(p = n /\ x = d) /\ ~(m = n /\ x = s)
    <3>1. ~(m = n /\ x = d)
      BY <1>1, <1>3, <1>6
    <3> QED  BY <1>3, <1>4, <1>6, <2>3, <3>1
  <2> QED  BY <2>1, <2>2, <2>3
<1>7. Passed'
  <2> SUFFICES ASSUME NEW pair \in Pairs, NEW x \in Objects,
                      file'[pair[2]][x] # None, file'[pair[1]][x] = None,
                      x \notin Modified(pair[1], pair[2])'
               PROVE  <<pair[1], pair[2], x>> \in lost'
    BY DEF Passed, Present
  <2>1. pair[1] \in Nodes /\ pair[2] \in Nodes /\ pair[2] \in PeersOf[pair[1]]
    BY DEF Pairs
  <2>2. last[pair[1]][pair[2]] > 0 /\ ~(file'[pair[2]][x] >= last[pair[1]][pair[2]])
    BY <1>1 DEF Modified, Present
  <2>3. ASSUME file'[pair[2]][x] = file[pair[2]][x], file[pair[2]][x] # None, file[pair[1]][x] = None
        PROVE  <<pair[1], pair[2], x>> \in lost
    BY <2>2, <2>3 DEF Passed, Present, Modified
  <2> QED  BY <1>6, <2>1, <2>3
<1>8. Covered'
  <2> SUFFICES ASSUME NEW c \in Cycles, PastListing(c)', NEW x \in Objects,
                      file'[c[2]][x] # None, file'[c[1]][x] = None
               PROVE  HasToStore(cycle'[c], x) \/ <<c[1], c[2], x>> \in lost'
    BY DEF Covered, HasToStore, Present
  <2>1. c[1] \in Nodes /\ c[2] \in Nodes /\ c[2] \in PeersOf[c[1]]
    BY CycleFacts
  <2>2. ASSUME file[c[2]][x] # None, file[c[1]][x] = None
        PROVE  HasToStore(cycle'[c], x) \/ <<c[1], c[2], x>> \in lost
    BY <1>1, <2>2 DEF Covered, Present, PastListing
  <2> QED  BY <1>6, <2>1, <2>2
<1>9. Informed'
  <2> SUFFICES ASSUME NEW c \in Cycles  PROVE Knows(c, cycle[c])'
    BY DEF Informed
  <2>1. c[1] \in Nodes /\ c[2] \in Nodes /\ Knows(c, cycle[c]) /\ cycle'[c] = cycle[c]
    BY <1>1, CycleFacts DEF Informed
  <2>2. (cycle[c].pc = "put" => cycle[c].cur \in Objects) /\ cycle[c].looked \in 0..now
    BY CarriedFacts
  <2>3. ASSUME NEW m \in Nodes, NEW x \in Objects, CameLater(m, x, cycle[c])
        PROVE  CameLater(m, x, cycle[c])'
    BY <1>2, <1>3, <2>1, <2>2, <2>3 DEF CameLater
  <2> QED  BY <2>1, <2>2, <2>3 DEF Knows
<1> QED  BY <1>5, <1>7, <1>8, <1>9

\* A restarted node asks for everything again, and time passes.
LEMMA RestartGood ==
  ASSUME IInv, NEW n \in Nodes, Restart(n)
  PROVE  IInv'
<1> USE DEF IInv
<1>1. /\ cycle' = [c \in Cycles |-> IF c[1] = n THEN Resting ELSE cycle[c]]
      /\ last' = [last EXCEPT ![n] = [p \in Nodes |-> 0]]
      /\ lost' = {t \in lost : t[1] # n} /\ Fault
      /\ UNCHANGED <<now, file, came, ops>>
  BY DEF Restart
<1>2. 0 \in 0..now
  BY TypeFacts
<1>3. \A m, p \in Nodes : last'[m][p] = IF m = n THEN 0 ELSE last[m][p]
  BY <1>1 DEF Types
<1>4. Types'
  <2>1. Whole(Resting)
    BY <1>2 DEF Whole, States, Resting
  <2>2. \A c \in Cycles : Whole(cycle[c])'
    BY <1>1, <2>1 DEF Types, Whole, States
  <2>3. last' \in [Nodes -> [Nodes -> 0..now]]
    BY <1>1, <1>2 DEF Types
  <2>4. faults' \in 0..MaxFaults
    BY <1>1, BoundsAssumption DEF Fault, Types
  <2> QED  BY <1>1, <2>2, <2>3, <2>4 DEF Types
<1>5. Passed'
  <2> SUFFICES ASSUME NEW pair \in Pairs, NEW o \in Present(pair[2]) \ Present(pair[1]),
                      ~(last'[pair[1]][pair[2]] > 0 => file[pair[2]][o] >= last'[pair[1]][pair[2]])
               PROVE  <<pair[1], pair[2], o>> \in lost'
    BY <1>1 DEF Passed, Present, Modified
  <2>1. pair[1] \in Nodes /\ pair[2] \in Nodes
    BY DEF Pairs
  <2>2. pair[1] # n /\ last'[pair[1]][pair[2]] = last[pair[1]][pair[2]]
    BY <1>3, <2>1
  <2> QED  BY <1>1, <2>2 DEF Passed, Modified
<1>6. Covered'
  <2> SUFFICES ASSUME NEW c \in Cycles, PastListing(c)', NEW o \in Present(c[2]) \ Present(c[1])
               PROVE  HasToStore(cycle'[c], o) \/ <<c[1], c[2], o>> \in lost'
    BY <1>1 DEF Covered, Present, HasToStore
  <2>1. c[1] # n /\ cycle'[c] = cycle[c]
    BY <1>1 DEF PastListing, Resting
  <2> QED  BY <1>1, <2>1 DEF Covered, PastListing
<1>7. Informed'
  <2> SUFFICES ASSUME NEW c \in Cycles  PROVE Knows(c, cycle[c])'
    BY DEF Informed
  <2>1. CASE cycle'[c] = Resting
    BY <2>1 DEF Knows, Resting
  <2>2. CASE cycle'[c] = cycle[c]
    <3>1. Knows(c, cycle[c])
      BY DEF Informed
    <3> QED  BY <1>1, <2>2, <3>1 DEF Knows, CameLater
  <2> QED  BY <1>1, <2>1, <2>2
<1> QED  BY <1>4, <1>5, <1>6, <1>7

LEMMA TimeGood ==
  ASSUME IInv, Tick \/ UNCHANGED vars
  PROVE  IInv'
<1> USE DEF IInv
<1>1. /\ UNCHANGED <<file, last, cycle, lost, came, ops, faults>>
      /\ now' \in Times /\ now \in Nat /\ now' \in Nat /\ now <= now'
  BY TypeFacts, BoundsAssumption DEF Tick, vars, Times
<1>2. \A i \in 0..now : i \in 0..now'
  BY <1>1
<1>3. Types'
  <2>1. \A c \in Cycles : Whole(cycle[c])'
    BY <1>1, <1>2 DEF Types, Whole, States
  <2>2. last \in [Nodes -> [Nodes -> 0..now']] /\ came \in [Nodes -> [Objects -> 0..now']]
    BY <1>1, <1>2 DEF Types
  <2> QED  BY <1>1, <2>1, <2>2 DEF Types
<1>4. Passed' /\ Covered'
  BY <1>1 DEF Passed, Covered, Present, Modified, PastListing, HasToStore
<1>5. Informed'
  BY <1>1 DEF Informed, Knows, CameLater
<1> QED  BY <1>3, <1>4, <1>5

-----------------------------------------------------------------------------
(* The invariance and what follows                                         *)

LEMMA StepGood == IInv /\ [Next]_vars => IInv'
<1> SUFFICES ASSUME IInv, [Next]_vars  PROVE IInv'
  OBVIOUS
<1>1. ASSUME NEW c \in Cycles, syncWithPeer(c) \/ Fails(c)  PROVE IInv'
  BY <1>1, ReadsGood, WritesGood, DoneGood DEF syncWithPeer, Pull, Push, Fails
<1>2. ASSUME NEW n \in Nodes, NEW o \in Objects, Upload(n, o) \/ DeleteObject(n, o)  PROVE IInv'
  BY <1>2, WritesGood, DeleteGood
<1>3. ASSUME NEW n \in Nodes, NEW s \in Objects, NEW d \in Objects, MoveObject(n, s, d)  PROVE IInv'
  BY <1>3, MoveGood
<1>4. ASSUME NEW n \in Nodes, Restart(n)  PROVE IInv'
  BY <1>4, RestartGood
<1>5. CASE Tick \/ UNCHANGED vars
  BY <1>5, TimeGood
<1> QED  BY <1>1, <1>2, <1>3, <1>4, <1>5 DEF Next

LEMMA Invariance == Spec => []IInv
  BY InitGood, StepGood, PTL DEF Spec

\* The property MissedOnlyIfLost: however cycles overlap with each other and
\* with uploads, deletes, moves and restarts, LastSync passes no object of a
\* peer by that the node has not got, unless a call failed, an answer was cut
\* short, or the object was written late, moved or deleted.
THEOREM MissedForAReason == Spec => []MissedOnlyIfLost
<1>1. IInv => MissedOnlyIfLost
  <2> SUFFICES ASSUME IInv  PROVE MissedOnlyIfLost
    OBVIOUS
  <2>1. TypeOK
    <3>1. cycle \in [Cycles -> States]
      BY CarriedFacts DEF IInv, Types
    <3> QED  BY <3>1 DEF IInv, Types, TypeOK, Whole, States
  <2> QED  BY <2>1 DEF IInv, Passed, MissedOnlyIfLost
<1> QED  BY <1>1, Invariance, PTL

\* The property OverwritesOnlyLate: what the end of a download or of a push
\* replaces came after the cycle had looked for it.
THEOREM OverwritesLate == Spec => OverwritesOnlyLate
<1> DEFINE Late == \A c \in Cycles, n \in Nodes :
                     (PutPulled(c) /\ n = c[1]) \/ (PushStore(c) /\ n = c[2]) =>
                       LET o == cycle[c].cur IN file[n][o] = None \/ came[n][o] >= cycle[c].looked
<1>1. IInv => Late
  <2> SUFFICES ASSUME IInv, NEW c \in Cycles
               PROVE  /\ PutPulled(c) => CameLater(c[1], cycle[c].cur, cycle[c])
                      /\ PushStore(c) => CameLater(c[2], cycle[c].cur, cycle[c])
    BY DEF CameLater
  <2>1. Knows(c, cycle[c]) /\ (cycle[c].pc \in {"put", "send"} => cycle[c].cur \in Objects)
    BY CarriedFacts DEF IInv, Informed
  <2> QED  BY <2>1 DEF Knows, PutPulled, PushStore
<1>2. IInv /\ [Next]_vars => [Late]_vars
  BY <1>1
<1> QED  BY <1>2, Invariance, PTL DEF Spec, OverwritesOnlyLate

-----------------------------------------------------------------------------
(* Discovery: the inductive invariant                                      *)

\* Whoever is at an address was the last one there, and the node last asked as a static
\* peer still is, or the address went to another.
Owned ==
  /\ \A n \in Others : at[n] # Nil => owner[at[n]] = n
  /\ \A a \in Static : met[a] \notin {Nil, owner[a]} => a \in taken

\* What is said of id is its address: that of the configuration, or one where it was.
Was(id, a) == IF id \in Static THEN a = id ELSE owner[a] = id \/ a \in taken

\* Answers, table and goroutines have nothing but such addresses.
Rightful ==
  /\ \A x \in answers : Was(x[1], x[2])
  /\ \A id \in Known : Was(id, peers[id].addr)
  /\ \A c \in pending : Was(c.id, c.addr)

DiscoveryIInv == ConfusedOnlyIfTaken /\ Owned /\ Rightful

\* The nodes are no addresses, so the two kinds of IDs are apart.
LEMMA IDsApart ==
  /\ Others \cap Static = {} /\ Static \subseteq Addresses /\ IDs = Others \cup Static
  /\ Nil \notin IDs \cup Addresses
  BY StaticAssumption, NilAssumption DEF IDs

LEMMA DiscoveryInitGood == DiscoveryInit => DiscoveryIInv
<1> SUFFICES ASSUME DiscoveryInit PROVE DiscoveryIInv
  OBVIOUS
<1>1. DiscoveryTypeOK
  BY IDsApart, NumbersAssumption DEF DiscoveryInit, DiscoveryTypeOK
<1>2. Owned /\ Rightful /\ confused = {}
  BY IDsApart DEF DiscoveryInit, Owned, Rightful, Known
<1>3. QED
  BY <1>1, <1>2 DEF DiscoveryIInv, ConfusedOnlyIfTaken

\* A node that moves to an address others have had makes it taken, so that whatever
\* says of an earlier node that it is there, stays rightful.
LEMMA MoveToGood ==
  ASSUME DiscoveryIInv, NEW n \in Others, NEW a \in Addresses \cup {Nil}, MoveTo(n, a)
  PROVE  DiscoveryIInv'
<1> USE DEF DiscoveryIInv, ConfusedOnlyIfTaken
<1>1. /\ at' = [at EXCEPT ![n] = a]
      /\ a # Nil => \A m \in Others : at[m] # a
      /\ owner' = [x \in Addresses |-> IF x = a THEN n ELSE owner[x]]
      /\ taken' = taken \cup {x \in {a} \ {Nil} : owner[x] \notin {Nil, n}}
      /\ moves' \in 0..MaxMoves
      /\ UNCHANGED <<loop, answers, peers, pending, met, confused>>
  BY NumbersAssumption DEF MoveTo, DiscoveryTypeOK
<1>2. DiscoveryTypeOK'
  BY <1>1, IDsApart DEF DiscoveryTypeOK
<1>3. \A x \in Addresses : /\ owner'[x] = owner[x] \/ (x = a /\ owner'[x] = n)
                           /\ owner[x] \notin {Nil, owner'[x]} => x \in taken'
  BY <1>1, NilAssumption DEF DiscoveryTypeOK
<1>4. Owned'
  <2>1. ASSUME NEW m \in Others, at'[m] # Nil PROVE owner'[at'[m]] = m
    <3>1. CASE m = n
      BY <1>1, <2>1, <3>1 DEF DiscoveryTypeOK
    <3>2. CASE m # n
      <4>1. at'[m] = at[m] /\ at[m] \in Addresses /\ at[m] # a
        BY <1>1, <2>1, <3>2 DEF DiscoveryTypeOK
      <4>2. QED
        BY <1>1, <2>1, <4>1 DEF Owned
    <3>3. QED
      BY <3>1, <3>2
  <2>2. ASSUME NEW x \in Static, met'[x] \notin {Nil, owner'[x]} PROVE x \in taken'
    <3>1. x \in Addresses /\ met'[x] = met[x] /\ taken \subseteq taken'
      BY <1>1, IDsApart
    <3>2. QED
      BY <1>3, <2>2, <3>1 DEF Owned
  <2>3. QED
    BY <2>1, <2>2 DEF Owned
<1>5. ASSUME NEW id \in IDs, NEW x \in Addresses, Was(id, x)
      PROVE  Was(id, x)'
  BY <1>1, <1>3, <1>5, IDsApart DEF Was
<1>6. Rightful'
  <2>1. ASSUME NEW x \in answers PROVE Was(x[1], x[2])'
    BY <1>5, IDsApart DEF Rightful, DiscoveryTypeOK
  <2>2. ASSUME NEW id \in Known PROVE Was(id, peers[id].addr)'
    <3>1. id \in IDs /\ peers[id].addr \in Addresses
      BY DEF Known, DiscoveryTypeOK, Peer
    <3>2. peers' = peers
      BY <1>1
    <3>3. QED
      BY <1>5, <3>1, <3>2 DEF Rightful, Was
  <2>3. ASSUME NEW c \in pending PROVE Was(c.id, c.addr)'
    BY <1>5 DEF Rightful, DiscoveryTypeOK
  <2>4. QED
    BY <1>1, <2>1, <2>2, <2>3 DEF Rightful, Known, Was
<1>7. QED
  BY <1>1, <1>2, <1>4, <1>6

\* A step of discovery changes what is known of peers, and nothing of the network.
LEMMA TableGood ==
  ASSUME DiscoveryIInv, UNCHANGED <<at, owner, taken, pending, met, confused, moves>>,
         loop' \in {"off", "wait", "scan"},
         answers' \subseteq Others \X Addresses, peers' \in [IDs -> Peer \cup {Nil}],
         \A x \in answers' : Was(x[1], x[2]),
         \A id \in IDs : peers'[id] # Nil => Was(id, peers'[id].addr)
  PROVE  DiscoveryIInv'
<1> USE DEF DiscoveryIInv, ConfusedOnlyIfTaken
<1>1. DiscoveryTypeOK'
  BY DEF DiscoveryTypeOK
<1>2. Owned' /\ Rightful'
  BY DEF Owned, Rightful, Known, Was
<1>3. QED
  BY <1>1, <1>2

\* An answer is given by the node that is there.
LEMMA AnswerGood ==
  ASSUME DiscoveryIInv, NEW n \in Others, Answer(n)
  PROVE  DiscoveryIInv'
<1>1. at[n] \in Addresses /\ answers' = answers \cup {<<n, at[n]>>} /\ loop' = loop
  BY DEF Answer, DiscoveryIInv, ConfusedOnlyIfTaken, DiscoveryTypeOK
<1>2. Was(n, at[n])
  BY <1>1, IDsApart DEF Answer, DiscoveryIInv, Owned, Was
<1>3. QED
  BY <1>1, <1>2, TableGood
     DEF Answer, DiscoveryIInv, ConfusedOnlyIfTaken, DiscoveryTypeOK, Rightful, Known

\* An entry is made of what the answer or the configuration says.
LEMMA EntryGood ==
  ASSUME DiscoveryIInv, NEW id \in IDs, NEW a \in Addresses, Was(id, a),
         peers' = [peers EXCEPT ![id] = Entry(a)], answers' \subseteq answers,
         UNCHANGED <<at, owner, taken, loop, pending, met, confused, moves>>
  PROVE  DiscoveryIInv'
<1>1. Entry(a) \in Peer /\ Entry(a).addr = a
  BY NumbersAssumption DEF Entry, Peer
<1>2. /\ peers' \in [IDs -> Peer \cup {Nil}] /\ peers'[id] = Entry(a)
      /\ \A i \in IDs \ {id} : peers'[i] = peers[i]
  BY <1>1 DEF DiscoveryIInv, ConfusedOnlyIfTaken, DiscoveryTypeOK
<1>3. QED
  BY <1>1, <1>2, TableGood
     DEF DiscoveryIInv, ConfusedOnlyIfTaken, DiscoveryTypeOK, Rightful, Known

LEMMA StaticGood ==
  ASSUME DiscoveryIInv, NEW a \in Static, AddStaticPeer(a)
  PROVE  DiscoveryIInv'
<1>1. a \in IDs /\ a \in Addresses /\ Was(a, a)
  BY IDsApart DEF Was
<1>2. QED
  BY <1>1, EntryGood DEF AddStaticPeer

LEMMA HandleGood ==
  ASSUME DiscoveryIInv, NEW x \in answers, handleEntry(x[1], x[2])
  PROVE  DiscoveryIInv'
<1>1. x[1] \in IDs /\ x[2] \in Addresses /\ Was(x[1], x[2])
  BY IDsApart DEF DiscoveryIInv, ConfusedOnlyIfTaken, DiscoveryTypeOK, Rightful
<1>2. QED
  BY <1>1, EntryGood DEF handleEntry

\* Pruning keeps the addresses of what it keeps.
LEMMA ScanGood ==
  ASSUME DiscoveryIInv, ScanBegin \/ ScanEnd
  PROVE  DiscoveryIInv'
<1>1. CASE ScanBegin
  BY <1>1, TableGood
     DEF ScanBegin, DiscoveryIInv, ConfusedOnlyIfTaken, DiscoveryTypeOK, Rightful, Known
<1>2. CASE ScanEnd
  <2>1. ASSUME NEW id \in IDs
        PROVE  /\ Aged(id) \in Peer \cup {Nil}
               /\ Aged(id) # Nil => peers[id] # Nil /\ Aged(id).addr = peers[id].addr
    <3>1. peers[id] \in Peer \cup {Nil}
      BY DEF DiscoveryIInv, ConfusedOnlyIfTaken, DiscoveryTypeOK
    <3>2. CASE id \in Static \/ peers[id] = Nil \/ peers[id].left = 0
      BY <3>1, <3>2 DEF Aged
    <3>3. CASE ~(id \in Static \/ peers[id] = Nil \/ peers[id].left = 0)
      <4>1. /\ Aged(id) = [peers[id] EXCEPT !.left = @ - 1]
            /\ peers[id] \in Peer /\ peers[id].left - 1 \in 0..StaleScans
        BY <3>1, <3>3, NumbersAssumption DEF Aged, Peer
      <4>2. QED
        BY <3>3, <4>1 DEF Peer
    <3>4. QED
      BY <3>2, <3>3
  <2>2. /\ peers' = [id \in IDs |-> Aged(id)] /\ loop' = "wait"
        /\ UNCHANGED <<at, owner, taken, answers, pending, met, confused, moves>>
    BY <1>2 DEF ScanEnd
  <2>3. /\ peers' \in [IDs -> Peer \cup {Nil}]
        /\ \A id \in IDs : peers'[id] # Nil => Was(id, peers'[id].addr)
    BY <2>1, <2>2 DEF DiscoveryIInv, Rightful, Known
  <2>4. QED
    BY <2>2, <2>3, TableGood
       DEF DiscoveryIInv, ConfusedOnlyIfTaken, DiscoveryTypeOK, Rightful
<1>3. QED
  BY <1>1, <1>2

\* A cycle asks at the addresses of the table, each once.
LEMMA SyncAllGood == ASSUME DiscoveryIInv, syncAll PROVE DiscoveryIInv'
<1> USE DEF DiscoveryIInv, ConfusedOnlyIfTaken
<1>1. PICK ids \in SUBSET Known :
        Unique(ids) /\ pending' = {[id |-> id, addr |-> peers[id].addr] : id \in ids}
  BY DEF syncAll
<1>2. UNCHANGED <<at, owner, taken, loop, answers, peers, met, confused, moves>>
  BY DEF syncAll
<1>3. \A id \in ids : id \in IDs /\ id \in Known /\ peers[id].addr \in Addresses
  BY <1>1 DEF Known, DiscoveryTypeOK, Peer
<1>4. pending' \subseteq [id : IDs, addr : Addresses]
  BY <1>1, <1>3
<1>5. \A c, d \in pending' : c.addr = d.addr => c = d
  BY <1>1 DEF Unique
<1>6. \A c \in pending' : Was(c.id, c.addr)
  BY <1>1, <1>3 DEF Rightful
<1>7. DiscoveryTypeOK' /\ Owned'
  BY <1>2, <1>4, <1>5 DEF DiscoveryTypeOK, Owned
<1>8. Rightful'
  BY <1>2, <1>6 DEF Rightful, Known, Was
<1>9. QED
  BY <1>2, <1>7, <1>8

\* Whoever answers is the last at the address. If it is not the node that the state is
\* about, the address was taken.
LEMMA ConnectGood ==
  ASSUME DiscoveryIInv, NEW c \in pending, Connect(c)
  PROVE  DiscoveryIInv'
<1> USE DEF DiscoveryIInv, ConfusedOnlyIfTaken
<1> DEFINE here == {n \in Others : at[n] = c.addr}
           about == IF c.id \in Others THEN c.id ELSE met[c.id]
<1>1. /\ pending' = pending \ {c}
      /\ confused' = confused \cup {id \in {c.id} : \E n \in here : about \notin {Nil, n}}
      /\ met' = [a \in Static |-> IF a = c.id /\ here # {} THEN CHOOSE n \in here : TRUE
                                  ELSE met[a]]
      /\ UNCHANGED <<at, owner, taken, loop, answers, peers, moves>>
  BY DEF Connect
<1>2. c.id \in IDs /\ c.addr \in Addresses /\ Was(c.id, c.addr)
  BY DEF DiscoveryTypeOK, Rightful
<1>3. \A n \in here : n \in Others /\ owner[c.addr] = n
  BY <1>2, IDsApart DEF Owned
<1>4. \A a \in Static : \/ met'[a] = met[a]
                        \/ a = c.id /\ met'[a] \in here
  BY <1>1
<1>5. DiscoveryTypeOK'
  BY <1>1, <1>2, <1>4 DEF DiscoveryTypeOK
<1>6. Owned'
  <2>1. ASSUME NEW a \in Static, met'[a] \notin {Nil, owner[a]} PROVE a \in taken
    <3>1. CASE met'[a] = met[a]
      BY <2>1, <3>1 DEF Owned
    <3>2. CASE a = c.id /\ met'[a] \in here
      BY <1>2, <1>3, <2>1, <3>2 DEF Was
    <3>3. QED
      BY <1>4, <3>1, <3>2
  <2>2. QED
    BY <1>1, <2>1 DEF Owned
<1>7. Rightful'
  BY <1>1 DEF Rightful, Known, Was
<1>8. ASSUME NEW n \in here, about \notin {Nil, n}
      PROVE  IF c.id \in Static THEN c.id \in taken ELSE taken # {}
  <2>1. CASE c.id \in Static
    <3>1. c.addr = c.id /\ about = met[c.id]
      BY <1>2, <2>1, IDsApart DEF Was
    <3>2. QED
      BY <1>3, <1>8, <2>1, <3>1 DEF Owned
  <2>2. CASE c.id \in Others
    <3>1. c.addr \in taken
      BY <1>2, <1>3, <1>8, <2>2, IDsApart DEF Was
    <3>2. QED
      BY <2>2, <3>1, IDsApart
  <2>3. QED
    BY <1>2, <2>1, <2>2, IDsApart
<1> HIDE DEF here, about
<1>9. QED
  BY <1>1, <1>5, <1>6, <1>7, <1>8

LEMMA DiscoveryStep ==
  DiscoveryIInv /\ [DiscoveryNext]_discoveryVars => DiscoveryIInv'
<1> SUFFICES ASSUME DiscoveryIInv, [DiscoveryNext]_discoveryVars PROVE DiscoveryIInv'
  OBVIOUS
<1>1. CASE \E n \in Others, a \in Addresses \cup {Nil} : MoveTo(n, a)
  BY <1>1, MoveToGood
<1>2. CASE \E n \in Others : Answer(n)
  BY <1>2, AnswerGood
<1>3. CASE \E a \in Static : AddStaticPeer(a)
  BY <1>3, StaticGood
<1>4. CASE ScanBegin \/ ScanEnd
  BY <1>4, ScanGood
<1>5. CASE \E x \in answers : handleEntry(x[1], x[2])
  BY <1>5, HandleGood
<1>6. CASE syncAll
  BY <1>6, SyncAllGood
<1>7. CASE \E c \in pending : Connect(c)
  BY <1>7, ConnectGood
<1>8. CASE UNCHANGED discoveryVars
  BY <1>8, TableGood
     DEF discoveryVars, DiscoveryIInv, ConfusedOnlyIfTaken, DiscoveryTypeOK, Rightful, Known
<1>9. QED
  BY <1>1, <1>2, <1>3, <1>4, <1>5, <1>6, <1>7, <1>8 DEF DiscoveryNext

\* The replicator's state under one ID serves two nodes only if an address passed from one
\* node to another: for a peer of the configuration, its address.
THEOREM ConfusionNeedsTaking == DiscoverySpec => []ConfusedOnlyIfTaken
<1>1. DiscoveryIInv => ConfusedOnlyIfTaken
  BY DEF DiscoveryIInv
<1>2. QED
  BY <1>1, DiscoveryInitGood, DiscoveryStep, PTL DEF DiscoverySpec
=============================================================================
