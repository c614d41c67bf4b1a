----------------------------- MODULE Discovery ------------------------------
(***************************************************************************)
(* What a node knows of its peers (internal/sync/discovery.go) and whom    *)
(* its replicator asks because of it (syncAll and the start of             *)
(* syncWithPeer in internal/sync/replicator.go).                           *)
(*                                                                         *)
(* Peers are found by scans every 30 seconds, or named in the              *)
(* configuration.  The entries of a scan are handled by a goroutine of its *)
(* own, which nobody waits for, so that an answer may be handled after     *)
(* its scan, and after those of later scans.  A peer that was not heard of *)
(* for two minutes, StaleScans scans, is pruned: left is the number of     *)
(* scans after which it is still known (the clock enters only through it). *)
(* Meanwhile nodes go, come back, and change their addresses.              *)
(***************************************************************************)
EXTENDS Naturals

CONSTANTS Others,      \* the other nodes
          Addresses,   \* host and port
          HostOf,      \* the host of an address
          Static,      \* the addresses in the configuration
          StaleScans,  \* 4: two minutes, by scans every 30 seconds
          Nil,         \* no address, no entry, no node
          MaxMoves     \* bound on changes of address

ASSUME StaticAssumption == Static \subseteq Addresses /\ Others \cap Addresses = {}
ASSUME HostsAssumption == DOMAIN HostOf = Addresses
ASSUME NilAssumption == Nil \notin Others \cup Addresses
ASSUME NumbersAssumption == StaleScans \in Nat \ {0} /\ MaxMoves \in Nat

VARIABLES
  at,        \* at[n]: the address of node n, or Nil while it is off
  owner,     \* history: the last node at an address
  taken,     \* history: the addresses that went from one node to another
  loop,      \* discoveryLoop: off | wait | scan
  answers,   \* answers to scans that are not handled yet
  peers,     \* peers[id]: address and scans left, or Nil
  pending,   \* goroutines of syncAll that have not connected yet
  met,       \* history: the node last asked as a static peer
  confused,  \* history: peer IDs under which different nodes were asked
  moves

discoveryVars == <<at, owner, taken, loop, answers, peers, pending, met, confused, moves>>

\* An mDNS peer has the node's ID, a static peer one made of its address.
IDs == Others \cup Static
Peer == [addr : Addresses, left : 0..StaleScans]
Known == {id \in IDs : peers[id] # Nil}
Entry(a) == [addr |-> a, left |-> StaleScans]

-----------------------------------------------------------------------------
(* The network                                                             *)

\* A node goes off, comes back, or changes its address. No two share one.
MoveTo(n, a) ==
  /\ moves < MaxMoves /\ at[n] # a
  /\ a # Nil => \A m \in Others : at[m] # a
  /\ at' = [at EXCEPT ![n] = a]
  /\ owner' = [x \in Addresses |-> IF x = a THEN n ELSE owner[x]]
  /\ taken' = taken \cup {x \in {a} \ {Nil} : owner[x] \notin {Nil, n}}
  /\ moves' = moves + 1
  /\ UNCHANGED <<loop, answers, peers, pending, met, confused>>

\* An answer on its way. It may be lost: nothing obliges Answer to happen.
Answer(n) ==
  /\ loop = "scan" /\ at[n] # Nil
  /\ answers' = answers \cup {<<n, at[n]>>}
  /\ UNCHANGED <<at, owner, taken, loop, peers, pending, met, confused, moves>>

-----------------------------------------------------------------------------
(* Discovery                                                               *)

AddStaticPeer(a) ==
  /\ peers[a] = Nil
  /\ peers' = [peers EXCEPT ![a] = Entry(a)]
  /\ UNCHANGED <<at, owner, taken, loop, answers, pending, met, confused, moves>>

ScanBegin == /\ loop = "wait"
             /\ loop' = "scan"
             /\ UNCHANGED <<at, owner, taken, answers, peers, pending, met, confused, moves>>

\* Our own answer is skipped before: no node of Others gives it.
handleEntry_KeepsAddress(n, a) ==
  /\ <<n, a>> \in answers
  /\ answers' = answers \ {<<n, a>>}
  /\ peers' = [peers EXCEPT ![n] = IF @ = Nil THEN Entry(a) ELSE Entry(@.addr)]
  /\ UNCHANGED <<at, owner, taken, loop, pending, met, confused, moves>>

handleEntry(n, a) ==
  /\ <<n, a>> \in answers
  /\ answers' = answers \ {<<n, a>>}
  /\ peers' = [peers EXCEPT ![n] = Entry(a)]
  /\ UNCHANGED <<at, owner, taken, loop, pending, met, confused, moves>>

\* Static peers are never stale.
Aged(id) ==
  IF id \in Static THEN peers[id]
  ELSE IF peers[id] = Nil \/ peers[id].left = 0 THEN Nil
  ELSE [peers[id] EXCEPT !.left = @ - 1]

\* The query times out; pruneStale follows. The first scan is not followed by it,
\* but there is nothing to prune then.
ScanEnd == /\ loop = "scan"
           /\ loop' = "wait"
           /\ peers' = [id \in IDs |-> Aged(id)]
           /\ UNCHANGED <<at, owner, taken, answers, pending, met, confused, moves>>

-----------------------------------------------------------------------------
(* The replicator                                                          *)

AddressesOf(ids) == {peers[id].addr : id \in ids}

Unique_ByHost(ids) ==
  /\ ids \subseteq Known
  /\ {HostOf[a] : a \in AddressesOf(ids)} = {HostOf[a] : a \in AddressesOf(Known)}
  /\ \A i, j \in ids : HostOf[peers[i].addr] = HostOf[peers[j].addr] => i = j

\* One peer for each address; which one is a matter of Go's map order.
Unique(ids) ==
  /\ ids \subseteq Known
  /\ AddressesOf(ids) = AddressesOf(Known)
  /\ \A i, j \in ids : peers[i].addr = peers[j].addr => i = j

syncAll_OwnPort ==
  /\ pending = {}
  /\ \E ids \in SUBSET Known :
       /\ Unique(ids)
       /\ pending' = {[id |-> id, addr |-> CHOOSE a \in Addresses : HostOf[a] = HostOf[peers[id].addr]]
                       : id \in ids}
  /\ UNCHANGED <<at, owner, taken, loop, answers, peers, met, confused, moves>>

\* Cycles do not overlap here: Replicator has them.
syncAll ==
  /\ pending = {}
  /\ \E ids \in SUBSET Known :
       Unique(ids) /\ pending' = {[id |-> id, addr |-> peers[id].addr] : id \in ids}
  /\ UNCHANGED <<at, owner, taken, loop, answers, peers, met, confused, moves>>

\* The states are kept by ID, the connection goes to the address, and the ID in the
\* answer to the handshake is not looked at. If nobody is there the cycle ends.
Connect(c) ==
  LET here == {n \in Others : at[n] = c.addr}
      about == IF c.id \in Others THEN c.id ELSE met[c.id]
  IN  /\ c \in pending
      /\ pending' = pending \ {c}
      /\ confused' = confused \cup {id \in {c.id} : \E n \in here : about \notin {Nil, n}}
      /\ met' = [a \in Static |-> IF a = c.id /\ here # {} THEN CHOOSE n \in here : TRUE
                                  ELSE met[a]]
      /\ UNCHANGED <<at, owner, taken, loop, answers, peers, moves>>

-----------------------------------------------------------------------------
\* If mDNS cannot be started (loop is off), static peers are all there is.
DiscoveryInit == /\ at = [n \in Others |-> Nil]
                 /\ owner = [a \in Addresses |-> Nil]
                 /\ taken = {} /\ confused = {} /\ answers = {} /\ pending = {}
                 /\ loop \in {"off", "wait"}
                 /\ peers = [id \in IDs |-> Nil]
                 /\ met = [a \in Static |-> Nil]
                 /\ moves = 0

DiscoveryNext == \/ \E n \in Others, a \in Addresses \cup {Nil} : MoveTo(n, a)
                 \/ \E n \in Others : Answer(n)
                 \/ \E a \in Static : AddStaticPeer(a)
                 \/ ScanBegin
                 \/ ScanEnd
                 \/ \E x \in answers : handleEntry(x[1], x[2])
                 \/ syncAll
                 \/ \E c \in pending : Connect(c)

\* The tickers of discovery and replicator go on, and connections are made or fail.
DiscoveryFairness == /\ WF_discoveryVars(ScanBegin \/ ScanEnd)
                     /\ WF_discoveryVars(syncAll \/ \E c \in pending : Connect(c))

DiscoverySpec == DiscoveryInit /\ [][DiscoveryNext]_discoveryVars /\ DiscoveryFairness

-----------------------------------------------------------------------------
\* Every variable holds a value of its type, and no address is asked twice in one cycle.
DiscoveryTypeOK ==
  /\ at \in [Others -> Addresses \cup {Nil}]
  /\ owner \in [Addresses -> Others \cup {Nil}] /\ taken \subseteq Addresses
  /\ loop \in {"off", "wait", "scan"}
  /\ answers \subseteq Others \X Addresses
  /\ peers \in [IDs -> Peer \cup {Nil}]
  /\ pending \subseteq [id : IDs, addr : Addresses]
  /\ \A c, d \in pending : c.addr = d.addr => c = d
  /\ met \in [Static -> Others \cup {Nil}]
  /\ confused \subseteq IDs /\ moves \in 0..MaxMoves

\* A state of the replicator is about one node, unless an address passed from one node
\* to another: then LastSync of one node hides what the other has (syncWithPeer keeps
\* states by ID and connects by address). Types are as declared.
ConfusedOnlyIfTaken ==
  /\ DiscoveryTypeOK
  /\ \A id \in confused : IF id \in Static THEN id \in taken ELSE taken # {}

\* If a node stays where it is, or stays off, what is known of it becomes right for good:
\* its address, or nothing. Answers lost or handled late, even those of an
\* older address after newer ones, only delay it (discoveryLoop, handleEntry, pruneStale).
Converges ==
  \A n \in Others, a \in Addresses \cup {Nil} :
    <>[](at[n] = a) => loop = "off" \/ <>[](peers[n] = Nil \/ peers[n].addr = a)

\* An address that stays known is asked again and again, whatever IDs it is known by and
\* whoever shares its host, and one of the configuration from when it is added
\* (syncAll skips equal addresses only, pruneStale no static peers).
KeptInSync ==
  \A a \in Addresses :
    <>[](\E id \in Known : peers[id].addr = a) \/ <>(a \in Static /\ peers[a] # Nil)
      => []<>(\E c \in pending : c.addr = a)
=============================================================================
