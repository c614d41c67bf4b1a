----------------------------- MODULE UsageProofs -----------------------------
(***************************************************************************)
(* What users use.  First usage, quota and index, for any users, objects,  *)
(* sizes and quotas and any number of handlers at work at once; then usage *)
(* events, for any capacity of the buffer and any number of requests under *)
(* way and of restarts.  The two modules share no state.                   *)
(***************************************************************************)
EXTENDS Accounting, Metering, FiniteSetTheorems, TLAPS

-----------------------------------------------------------------------------
(* Accounting: the inductive invariant                                     *)

Puts == {"store", "putmeta", "putusage"}
Deletes == {"unlink", "metaread", "metadel", "delusage"}

\* The state of a handler: a request has an object, and an upload a size.
Requests ==
  [pc : {"idle"}, user : Callers, obj : {None}, size : {0}, whose : Callers]
    \cup [pc : Puts, user : Callers, obj : Objects, size : Sizes, whose : Callers]
    \cup [pc : Deletes, user : Callers, obj : Objects, size : Sizes \cup {0}, whose : Callers]

Typed ==
  /\ file \in [Places -> Sizes \cup {None}]
  /\ meta \in [Objects -> [size : Sizes, user : Callers] \cup {None}]
  /\ index \in [Users -> SUBSET Objects]
  /\ bucket \in [Users -> [quota : Nat, used : Nat, files : Nat] \cup {None}]
  /\ req \in [Clients -> Requests]
  /\ owner \in [Places -> Callers]
  /\ exact \in [Users -> BOOLEAN]
  /\ high \in [Users -> Nat]
  /\ requests \in 0..MaxRequests /\ admin \in 0..MaxAdmin /\ failures \in 0..MaxFailures

\* IndexComplete without the types.
Indexed == \A o \in Objects, u \in Users : meta[o] # None /\ meta[o].user = u => o \in index[u]

\* The bytes of uploads of u that were let in and are not in its usage.
Pending(u) == Outstanding(u, Puts)

\* What all handlers but one can have let in, and one upload for each failure.
Slack == (Cardinality(Clients) - 1 + failures) * MaxSize

\* The quota bounds the usage and what was let in together; the part of
\* UsageExact that is about u.
Account(u) ==
  /\ Bucket(u).quota <= high[u] /\ FreeQuota <= high[u]
  /\ Bucket(u).used + Cardinality(Pending(u)) <= high[u] + Slack
  /\ exact[u] => Bucket(u).used + Cardinality(ToAdd(u)) = Cardinality(Stored(u)) + Cardinality(ToTake(u))

IInv == Typed /\ Indexed /\ \A u \in Users : Account(u)

-----------------------------------------------------------------------------
(* Counting bytes                                                          *)

\* The bytes of a finite number of things can be counted.
LEMMA ByteSets ==
  ASSUME NEW X, IsFiniteSet(X), NEW A \in SUBSET (X \X (1..MaxSize))
  PROVE  /\ IsFiniteSet(A) /\ Cardinality(A) \in Nat
         /\ Cardinality(A) <= Cardinality(X) * MaxSize
<1>1. IsFiniteSet(1..MaxSize) /\ Cardinality(1..MaxSize) = MaxSize
  BY SizesAssumption, FS_Interval
<1>2. /\ IsFiniteSet(X \X (1..MaxSize))
      /\ Cardinality(X \X (1..MaxSize)) = Cardinality(X) * MaxSize
  BY <1>1, FS_Product
<1> QED  BY <1>2, FS_Subset, FS_CardinalityType

\* The bytes of one thing are its size, the others make up the rest.
LEMMA SplitOff ==
  ASSUME NEW X, IsFiniteSet(X), NEW A \in SUBSET (X \X (1..MaxSize)),
         NEW x \in X, NEW s \in 0..MaxSize,
         \A i \in 1..MaxSize : <<x, i>> \in A <=> i <= s
  PROVE  Cardinality(A) = Cardinality({b \in A : b[1] # x}) + s
<1> DEFINE R == {b \in A : b[1] # x}
           P == {x} \X (1..s)
<1>1. s \in Nat /\ s <= MaxSize /\ MaxSize \in Nat
  BY SizesAssumption
<1>2. IsFiniteSet(1..s) /\ Cardinality(1..s) = s
  BY <1>1, FS_Interval
<1>3. IsFiniteSet(P) /\ Cardinality(P) = s
  <2>1. IsFiniteSet({x}) /\ Cardinality({x}) = 1
    BY FS_Singleton
  <2>2. IsFiniteSet(P) /\ Cardinality(P) = Cardinality({x}) * Cardinality(1..s)
    BY <1>2, <2>1, FS_Product
  <2>3. 1 * s = s
    BY <1>1
  <2> QED  BY <1>2, <2>1, <2>2, <2>3
<1>4. IsFiniteSet(R) /\ Cardinality(R) \in Nat
  BY ByteSets
<1>5. A = R \cup P /\ R \cap P = {}
  <2>1. \A b \in A : b = <<b[1], b[2]>> /\ b[2] \in 1..MaxSize
    OBVIOUS
  <2>2. \A i \in 1..s : i \in 1..MaxSize /\ i <= s
    BY <1>1
  <2>3. A \subseteq R \cup P
    <3> SUFFICES ASSUME NEW b \in A, b[1] = x  PROVE b \in P
      OBVIOUS
    <3>1. b[2] \in 1..s
      BY <1>1, <2>1
    <3> QED  BY <2>1, <3>1
  <2>4. P \subseteq A
    <3> SUFFICES ASSUME NEW i \in 1..s  PROVE <<x, i>> \in A
      OBVIOUS
    <3> QED  BY <2>2
  <2> QED  BY <2>3, <2>4
<1>6. Cardinality(R \cup P) = Cardinality(R) + Cardinality(P) - Cardinality(R \cap P)
  BY <1>3, <1>4, FS_Union
<1> HIDE DEF R, P
<1>7. Cardinality(R \cap P) = 0
  BY <1>5, FS_EmptySet
<1>8. Cardinality(A) = Cardinality(R) + s
  BY <1>1, <1>3, <1>4, <1>5, <1>6, <1>7
<1> QED  BY <1>8 DEF R

\* A and B, bytes of the things X, differ in x only, which has s bytes in A and t in B.
DifferAt(X, x, A, s, B, t) ==
  /\ IsFiniteSet(X) /\ x \in X
  /\ A \in SUBSET (X \X (1..MaxSize)) /\ B \in SUBSET (X \X (1..MaxSize))
  /\ s \in 0..MaxSize /\ t \in 0..MaxSize
  /\ \A b \in X \X (1..MaxSize) : b[1] # x => (b \in A <=> b \in B)
  /\ \A i \in 1..MaxSize : (<<x, i>> \in A <=> i <= s) /\ (<<x, i>> \in B <=> i <= t)

\* When the size of one thing changes, so does the number of bytes.
LEMMA Resized ==
  ASSUME NEW X, NEW x, NEW A, NEW s, NEW B, NEW t, DifferAt(X, x, A, s, B, t)
  PROVE  /\ Cardinality(A) \in Nat /\ Cardinality(B) \in Nat
         /\ Cardinality(B) = Cardinality(A) - s + t
<1>0. /\ IsFiniteSet(X) /\ x \in X
      /\ A \in SUBSET (X \X (1..MaxSize)) /\ B \in SUBSET (X \X (1..MaxSize))
      /\ s \in 0..MaxSize /\ t \in 0..MaxSize
      /\ \A b \in X \X (1..MaxSize) : b[1] # x => (b \in A <=> b \in B)
      /\ \A i \in 1..MaxSize : (<<x, i>> \in A <=> i <= s) /\ (<<x, i>> \in B <=> i <= t)
  BY DEF DifferAt
<1> DEFINE R == {b \in A : b[1] # x}
<1>1. R = {b \in B : b[1] # x}
  BY <1>0
<1>2. Cardinality(A) = Cardinality(R) + s
  BY <1>0, SplitOff
<1>3. Cardinality(B) = Cardinality({b \in B : b[1] # x}) + t
  BY <1>0, SplitOff
<1>4. Cardinality(A) \in Nat /\ Cardinality(B) \in Nat /\ Cardinality(R) \in Nat
  BY <1>0, ByteSets
<1> HIDE DEF R
<1>5. Cardinality(B) = Cardinality(R) + t
  BY <1>1, <1>3
<1> QED  BY <1>0, <1>2, <1>4, <1>5, SizesAssumption

\* What a handler in state r owes the usage of u.
Owes(u, pcs, r) == IF r.user = u /\ r.pc \in pcs THEN r.size ELSE 0

\* Sizes and the states of handlers.
LEMMA SizeFacts ==
  /\ MaxSize \in Nat /\ None \notin Sizes /\ None \notin Nat
  /\ \A s \in Sizes : s \in 1..MaxSize /\ s \in Nat
  /\ \A r \in Requests : r.size \in 0..MaxSize /\ r.size \in Nat
<1>1. MaxSize \in Nat /\ None \notin Nat /\ \A s \in Sizes : s \in 1..MaxSize /\ s \in Nat
  BY SizesAssumption, MarkersAssumption
<1>2. None \notin Sizes
  BY <1>1
<1>3. \A r \in Requests : r.size \in Sizes \cup {0}
  BY DEF Requests
<1> QED  BY <1>1, <1>2, <1>3

\* A step of one handler changes what its user is owed or owes.
LEMMA OwedChange ==
  ASSUME Typed, NEW c \in Clients, NEW r \in Requests, Goto(c, r), NEW u, NEW pcs
  PROVE  /\ Cardinality(Outstanding(u, pcs)) \in Nat /\ Cardinality(Outstanding(u, pcs)') \in Nat
         /\ Cardinality(Outstanding(u, pcs)')
              = Cardinality(Outstanding(u, pcs)) - Owes(u, pcs, req[c]) + Owes(u, pcs, r)
<1> DEFINE A == Outstanding(u, pcs)
           B == Outstanding(u, pcs)'
<1>1. req[c] \in Requests /\ req'[c] = r /\ \A d \in Clients : d # c => req'[d] = req[d]
  BY DEF Typed, Goto
<1>2. Owes(u, pcs, req[c]) \in 0..MaxSize /\ Owes(u, pcs, r) \in 0..MaxSize
  BY <1>1, SizeFacts DEF Owes
<1>3. A \in SUBSET (Clients \X (1..MaxSize)) /\ B \in SUBSET (Clients \X (1..MaxSize))
  BY DEF Outstanding
<1>4. ASSUME NEW b \in Clients \X (1..MaxSize), b[1] # c  PROVE b \in A <=> b \in B
  BY <1>1, <1>4 DEF Outstanding
<1>5. ASSUME NEW i \in 1..MaxSize
      PROVE  /\ <<c, i>> \in A <=> i <= Owes(u, pcs, req[c])
             /\ <<c, i>> \in B <=> i <= Owes(u, pcs, r)
  BY <1>1, SizeFacts DEF Outstanding, Owes
<1> HIDE DEF A, B
<1>6. PICK s \in 0..MaxSize, t \in 0..MaxSize : s = Owes(u, pcs, req[c]) /\ t = Owes(u, pcs, r)
  BY <1>2
<1>7. \A i \in 1..MaxSize : (<<c, i>> \in A <=> i <= s) /\ (<<c, i>> \in B <=> i <= t)
  BY <1>5, <1>6
<1>8. DifferAt(Clients, c, A, s, B, t)
  BY <1>3, <1>4, <1>7, FiniteAssumption DEF DifferAt
<1>9. /\ Cardinality(A) \in Nat /\ Cardinality(B) \in Nat
      /\ Cardinality(B) = Cardinality(A) - s + t
  BY <1>8, Resized
<1> QED  BY <1>6, <1>9 DEF A, B

\* The slack grows by one upload for each failure.
LEMMA SlackFacts ==
  ASSUME Typed, failures' \in {failures, failures + 1}
  PROVE  /\ Slack \in Int /\ Slack' \in Int /\ failures \in Nat
         /\ failures' = failures => Slack' = Slack
         /\ failures' = failures + 1 => Slack' = Slack + MaxSize
         /\ Slack <= Slack'
<1>1. Cardinality(Clients) \in Nat /\ failures \in Nat /\ MaxSize \in Nat
  BY FiniteAssumption, FS_CardinalityType, BoundsAssumption, SizeFacts DEF Typed
<1>2. \A k \in Int, m \in Nat : k * m \in Int /\ (k + 1) * m = k * m + m
  OBVIOUS
<1>3. PICK k \in Int : k = Cardinality(Clients) - 1 + failures
  BY <1>1
<1>4. Slack = k * MaxSize /\ Slack \in Int
  BY <1>1, <1>2, <1>3 DEF Slack
<1>5. Slack' = (Cardinality(Clients) - 1 + failures') * MaxSize
  BY DEF Slack
<1>6. failures' = failures => Slack' = Slack
  BY <1>5 DEF Slack
<1>7. failures' = failures + 1 => Slack' = Slack + MaxSize
  <2> SUFFICES ASSUME failures' = failures + 1  PROVE Slack' = Slack + MaxSize
    OBVIOUS
  <2>1. Cardinality(Clients) - 1 + failures' = k + 1
    BY <1>1, <1>3
  <2> QED  BY <1>1, <1>2, <1>3, <1>4, <1>5, <2>1
<1> QED  BY <1>1, <1>4, <1>6, <1>7

LEMMA SlackInt == ASSUME Typed  PROVE Slack \in Int
<1>1. Cardinality(Clients) \in Nat /\ failures \in Nat
  BY FiniteAssumption, FS_CardinalityType, BoundsAssumption DEF Typed
<1> QED  BY <1>1, SizeFacts DEF Slack

\* The places are finitely many, and objects have their homes among them.
LEMMA PlaceFacts ==
  /\ IsFiniteSet(Places)
  /\ \A o \in Objects : Home(o) \in Places /\ Homes(o) \subseteq Places
<1>1. IsFiniteSet({"plain", "dedup"})
  <2>1. IsFiniteSet({"plain"}) /\ {"plain", "dedup"} = {"plain"} \cup {"dedup"}
    BY FS_Singleton
  <2> QED  BY <2>1, FS_AddElement
<1>2. IsFiniteSet(Places)
  BY <1>1, FiniteAssumption, FS_Product DEF Places
<1> QED  BY <1>2 DEF Places, Home, Homes

\* What the file at a place is to u.
Worth(u, f, who) == IF f # None /\ who = u THEN f ELSE 0

\* A change of one file changes what its owner, old or new, has stored.
LEMMA StoredChange ==
  ASSUME Typed, NEW p \in Places, NEW f \in Sizes \cup {None},
         file' = [file EXCEPT ![p] = f],
         \A x \in Places : x # p => owner'[x] = owner[x],
         NEW u
  PROVE  /\ Cardinality(Stored(u)) \in Nat /\ Cardinality(Stored(u)') \in Nat
         /\ Cardinality(Stored(u)') = Cardinality(Stored(u)) - Worth(u, file[p], owner[p])
                                        + Worth(u, f, owner'[p])
<1> DEFINE A == Stored(u)
           B == Stored(u)'
<1>1. file[p] \in Sizes \cup {None} /\ file'[p] = f /\ \A x \in Places : x # p => file'[x] = file[x]
  BY DEF Typed
<1>2. Worth(u, file[p], owner[p]) \in 0..MaxSize /\ Worth(u, f, owner'[p]) \in 0..MaxSize
  BY <1>1, SizeFacts DEF Worth
<1>3. A \in SUBSET (Places \X (1..MaxSize)) /\ B \in SUBSET (Places \X (1..MaxSize))
  BY DEF Stored
<1>4. ASSUME NEW b \in Places \X (1..MaxSize), b[1] # p  PROVE b \in A <=> b \in B
  BY <1>1, <1>4 DEF Stored
<1>5. ASSUME NEW i \in 1..MaxSize
      PROVE  /\ <<p, i>> \in A <=> i <= Worth(u, file[p], owner[p])
             /\ <<p, i>> \in B <=> i <= Worth(u, f, owner'[p])
  BY <1>1, SizeFacts DEF Stored, Worth
<1> HIDE DEF A, B
<1>6. PICK s \in 0..MaxSize, t \in 0..MaxSize :
        s = Worth(u, file[p], owner[p]) /\ t = Worth(u, f, owner'[p])
  BY <1>2
<1>7. \A i \in 1..MaxSize : (<<p, i>> \in A <=> i <= s) /\ (<<p, i>> \in B <=> i <= t)
  BY <1>5, <1>6
<1>8. \A b \in Places \X (1..MaxSize) : b[1] # p => (b \in A <=> b \in B)
  BY <1>4
<1>9. IsFiniteSet(Places)
  BY PlaceFacts
<1>10. DifferAt(Places, p, A, s, B, t)
  BY <1>3, <1>7, <1>8, <1>9 DEF DifferAt
<1>11. /\ Cardinality(A) \in Nat /\ Cardinality(B) \in Nat
       /\ Cardinality(B) = Cardinality(A) - s + t
  BY <1>10, Resized
<1> QED  BY <1>6, <1>11 DEF A, B

Adds == {"putmeta", "putusage"}
Takes == {"metaread", "metadel", "delusage"}

\* A step of a handler, and what it does to the counts of u.
LEMMA StepFacts ==
  ASSUME IInv, NEW c \in Clients, NEW r \in Requests, Goto(c, r), NEW u \in Users
  PROVE  /\ {Cardinality(Pending(u)), Cardinality(ToAdd(u)), Cardinality(ToTake(u)),
             Cardinality(Stored(u)), Bucket(u).used, Bucket(u).quota, high[u]} \subseteq Nat
         /\ {Cardinality(Pending(u)'), Cardinality(ToAdd(u)'), Cardinality(ToTake(u)')} \subseteq Nat
         /\ Slack \in Int /\ u # Anyone /\ MaxSize \in Nat
         /\ Cardinality(Pending(u)')
              = Cardinality(Pending(u)) - Owes(u, Puts, req[c]) + Owes(u, Puts, r)
         /\ Cardinality(ToAdd(u)')
              = Cardinality(ToAdd(u)) - Owes(u, Adds, req[c]) + Owes(u, Adds, r)
         /\ Cardinality(ToTake(u)')
              = Cardinality(ToTake(u)) - Owes(u, Takes, req[c]) + Owes(u, Takes, r)
<1> USE DEF IInv
<1>1. /\ Cardinality(Pending(u)) \in Nat /\ Cardinality(Pending(u)') \in Nat
      /\ Cardinality(Pending(u)')
           = Cardinality(Pending(u)) - Owes(u, Puts, req[c]) + Owes(u, Puts, r)
  BY OwedChange DEF Pending
<1>2. /\ Cardinality(ToAdd(u)) \in Nat /\ Cardinality(ToAdd(u)') \in Nat
      /\ Cardinality(ToAdd(u)')
           = Cardinality(ToAdd(u)) - Owes(u, Adds, req[c]) + Owes(u, Adds, r)
  BY OwedChange DEF ToAdd, Adds
<1>3. /\ Cardinality(ToTake(u)) \in Nat /\ Cardinality(ToTake(u)') \in Nat
      /\ Cardinality(ToTake(u)')
           = Cardinality(ToTake(u)) - Owes(u, Takes, req[c]) + Owes(u, Takes, r)
  BY OwedChange DEF ToTake, Takes
<1>4. Cardinality(Stored(u)) \in Nat
  BY ByteSets, PlaceFacts DEF Stored
<1>5. Slack \in Int
  BY SlackInt
<1>6. Bucket(u).used \in Nat /\ Bucket(u).quota \in Nat /\ high[u] \in Nat
  BY QuotasAssumption DEF Bucket, FreeBucket, Typed
<1>7. u # Anyone /\ MaxSize \in Nat
  BY MarkersAssumption, SizeFacts
<1> QED  BY <1>1, <1>2, <1>3, <1>4, <1>5, <1>6, <1>7

\* A handler that has let nothing in leaves the slack to the others.
LEMMA OthersWithinSlack ==
  ASSUME Typed, NEW c \in Clients, req[c].pc = "idle", NEW u
  PROVE  Cardinality(Pending(u)) <= Slack
<1> DEFINE Others == Clients \ {c}
<1>1. IsFiniteSet(Others) /\ Cardinality(Others) = Cardinality(Clients) - 1
  BY FiniteAssumption, FS_RemoveElement
<1>2. Pending(u) \in SUBSET (Others \X (1..MaxSize))
  BY DEF Pending, Outstanding, Puts
<1> HIDE DEF Others
<1>3. Cardinality(Pending(u)) \in Nat /\ Cardinality(Pending(u)) <= Cardinality(Others) * MaxSize
  BY <1>1, <1>2, ByteSets
<1>4. Cardinality(Clients) \in Nat /\ failures \in Nat /\ MaxSize \in Nat
  BY FiniteAssumption, FS_CardinalityType, BoundsAssumption, SizeFacts DEF Typed
<1>5. \A k \in Int, f \in Nat, m \in Nat : k * m \in Int /\ k * m <= (k + f) * m
  <2> SUFFICES ASSUME NEW k \in Int, NEW f \in Nat, NEW m \in Nat
               PROVE  k * m \in Int /\ k * m <= (k + f) * m
    OBVIOUS
  <2>1. (k + f) * m = k * m + f * m /\ f * m >= 0 /\ k * m \in Int /\ f * m \in Int
    OBVIOUS
  <2> QED  BY <2>1
<1>6. PICK k \in Int : k = Cardinality(Clients) - 1
  BY <1>4
<1>7. k * MaxSize <= Slack /\ Slack \in Int /\ Cardinality(Pending(u)) <= k * MaxSize
  BY <1>1, <1>3, <1>4, <1>5, <1>6, SlackInt DEF Slack
<1> QED  BY <1>3, <1>4, <1>5, <1>7

\* There are no files, no metadata and no requests at first.
LEMMA InitGood == Init => IInv
<1> SUFFICES ASSUME Init  PROVE IInv
  OBVIOUS
<1> USE DEF Init
<1>1. Idle \in Requests
  BY DEF Idle, Requests, Callers
<1>2. Typed
  <2>1. file \in [Places -> Sizes \cup {None}] /\ meta \in [Objects -> [size : Sizes, user : Callers] \cup {None}]
    OBVIOUS
  <2>2. /\ index \in [Users -> SUBSET Objects]
        /\ bucket \in [Users -> [quota : Nat, used : Nat, files : Nat] \cup {None}]
        /\ owner \in [Places -> Callers]
    BY DEF Callers
  <2>3. exact \in [Users -> BOOLEAN] /\ high \in [Users -> Nat]
    BY QuotasAssumption
  <2>4. requests \in 0..MaxRequests /\ admin \in 0..MaxAdmin /\ failures \in 0..MaxFailures
    BY BoundsAssumption
  <2> QED  BY <1>1, <2>1, <2>2, <2>3, <2>4 DEF Typed
<1>3. Indexed
  BY DEF Indexed
<1>4. ASSUME NEW u \in Users  PROVE Account(u)
  <2>1. Stored(u) = {} /\ ToAdd(u) = {} /\ ToTake(u) = {} /\ Pending(u) = {}
    BY DEF Stored, ToAdd, ToTake, Pending, Outstanding, Idle, Puts
  <2>2. Cardinality({}) = 0
    BY FS_EmptySet
  <2>3. Bucket(u).used = 0 /\ Bucket(u).quota = FreeQuota /\ high[u] = FreeQuota /\ FreeQuota \in Nat
    BY QuotasAssumption DEF Bucket, FreeBucket
  <2>4. Slack >= 0
    <3>1. PICK c \in Clients : TRUE
      BY FiniteAssumption
    <3>2. Cardinality(Pending(u)) <= Slack
      BY <1>2, <3>1, OthersWithinSlack DEF Idle
    <3> QED  BY <1>2, <2>1, <2>2, <3>2, SlackInt
  <2> QED  BY <1>2, <2>1, <2>2, <2>3, <2>4, SlackInt DEF Account
<1> QED  BY <1>2, <1>3, <1>4 DEF IInv

-----------------------------------------------------------------------------
(* The steps of handlers                                                   *)

\* Exactness is only lost.
LEMMA ExactFacts ==
  ASSUME Typed, NEW us, Inexact(us)
  PROVE  /\ exact' \in [Users -> BOOLEAN]
         /\ \A u \in Users : exact'[u] => exact[u] /\ u \notin us
  BY DEF Typed, Inexact

\* There are never more failures than the bound.
LEMMA FailureFacts ==
  ASSUME Typed, Failure \/ UNCHANGED failures
  PROVE  failures' \in 0..MaxFailures /\ failures' \in {failures, failures + 1}
BY BoundsAssumption DEF Typed, Failure

\* A step that leaves what is stored and the usage as they are, and lets nothing in,
\* keeps the accounts: what is owed stays, or the user's usage is inexact after it.
LEMMA QuietStep ==
  ASSUME IInv, NEW c \in Clients, NEW r \in Requests, Goto(c, r),
         UNCHANGED <<file, owner, bucket, high>>, failures' \in {failures, failures + 1},
         \A u \in Users : /\ Owes(u, Puts, r) <= Owes(u, Puts, req[c])
                          /\ exact'[u] => /\ exact[u]
                                          /\ Owes(u, Adds, r) = Owes(u, Adds, req[c])
                                          /\ Owes(u, Takes, r) = Owes(u, Takes, req[c])
  PROVE  \A u \in Users : Account(u)'
<1> SUFFICES ASSUME NEW u \in Users  PROVE Account(u)'
  OBVIOUS
<1>1. Account(u) /\ Typed
  BY DEF IInv
<1>2. Stored(u)' = Stored(u) /\ Bucket(u)' = Bucket(u) /\ high' = high
  BY DEF Stored, Bucket
<1>3. req[c] \in Requests
  BY DEF IInv, Typed
<1>4. /\ Owes(u, Puts, req[c]) \in Nat /\ Owes(u, Adds, req[c]) \in Nat /\ Owes(u, Takes, req[c]) \in Nat
      /\ Owes(u, Puts, r) \in Nat /\ Owes(u, Adds, r) \in Nat /\ Owes(u, Takes, r) \in Nat
  BY <1>3, SizeFacts DEF Owes
<1>5. /\ Cardinality(Pending(u)') <= Cardinality(Pending(u))
      /\ exact'[u] => /\ Cardinality(ToAdd(u)') = Cardinality(ToAdd(u))
                      /\ Cardinality(ToTake(u)') = Cardinality(ToTake(u))
  BY <1>4, StepFacts
<1>6. {Cardinality(Pending(u)), Cardinality(Pending(u)'), Bucket(u).used, high[u]} \subseteq Nat
  BY StepFacts
<1>7. Slack \in Int /\ Slack' \in Int /\ Slack <= Slack'
  BY <1>1, SlackFacts
<1>8. Bucket(u).used + Cardinality(Pending(u)') <= high[u] + Slack'
  BY <1>1, <1>5, <1>6, <1>7 DEF Account
<1> QED  BY <1>1, <1>2, <1>5, <1>8 DEF Account

\* A delete begins.
LEMMA DeleteBeginGood ==
  ASSUME IInv, NEW c \in Clients, NEW v \in Callers, NEW o \in Objects,
         DeleteBegins(c, v, o) \/ DeleteMisreads(c, v, o)
  PROVE  IInv'
<1> USE DEF IInv
<1>1. PICK size : /\ DeleteSize(c, v, o, size)
                  /\ size \in {IF meta[o] # None THEN meta[o].size ELSE 0, FileSize(v, o)}
                  /\ Failure \/ UNCHANGED failures
  BY DEF DeleteBegins, DeleteMisreads
<1>2. /\ req[c].pc = "idle" /\ requests' \in 0..MaxRequests
      /\ UNCHANGED <<file, meta, index, bucket, owner, exact, high, admin>>
  BY <1>1, BoundsAssumption DEF DeleteSize, Begin, At, Typed
<1>3. Goto(c, [Idle EXCEPT !.pc = "unlink", !.user = v, !.obj = o, !.size = size])
  BY <1>1 DEF DeleteSize
<1>4. size \in Sizes \cup {0}
  <2>1. meta[o] # None => meta[o] \in [size : Sizes, user : Callers]
    BY DEF Typed
  <2>2. file[Home(o)] \in Sizes \cup {None}
    BY PlaceFacts DEF Typed
  <2> QED  BY <1>1, <2>1, <2>2 DEF FileSize
<1> DEFINE r == [Idle EXCEPT !.pc = "unlink", !.user = v, !.obj = o, !.size = size]
<1>5. r \in Requests /\ r.pc = "unlink"
  BY <1>4 DEF Requests, Idle, Deletes, Callers
<1>6. Goto(c, r)
  BY <1>3
<1> HIDE DEF r
<1>7. failures' \in 0..MaxFailures /\ failures' \in {failures, failures + 1}
  BY <1>1, FailureFacts
<1>8. Typed'
  BY <1>2, <1>5, <1>6, <1>7 DEF Typed, Goto
<1>9. \A u \in Users : /\ Owes(u, Puts, r) = 0 /\ Owes(u, Adds, r) = 0 /\ Owes(u, Takes, r) = 0
                       /\ Owes(u, Puts, req[c]) = 0 /\ Owes(u, Adds, req[c]) = 0
                       /\ Owes(u, Takes, req[c]) = 0
  BY <1>2, <1>5 DEF Owes, Puts, Adds, Takes
<1>10. \A u \in Users : Account(u)'
  BY <1>2, <1>5, <1>6, <1>7, <1>9, QuietStep
<1>11. Indexed'
  BY <1>2 DEF Indexed
<1> QED  BY <1>8, <1>10, <1>11

\* An upload begins: it fits into what the others have left of the quota, or
\* is let in by a failure.
LEMMA PutBeginGood ==
  ASSUME IInv, NEW c \in Clients, NEW v \in Callers, NEW o \in Objects, NEW s \in Sizes,
         PutCheck(c, v, o, s) \/ PutCheckMisreads(c, v, o, s)
  PROVE  IInv'
<1> USE DEF IInv
<1> DEFINE r == [Idle EXCEPT !.pc = "store", !.user = v, !.obj = o, !.size = s]
<1>1. /\ req[c].pc = "idle" /\ requests' \in 0..MaxRequests /\ Goto(c, r)
      /\ UNCHANGED <<file, meta, index, bucket, owner, exact, high, admin>>
      /\ \/ (v # Anyone => s <= Bucket(v).quota - Bucket(v).used) /\ failures' = failures
         \/ Failure
  BY BoundsAssumption DEF PutCheck, PutCheckMisreads, CheckQuota, Begin, At, Typed
<1>2. r \in Requests /\ r.pc = "store" /\ r.user = v /\ r.size = s /\ s \in 1..MaxSize /\ s \in Nat
  BY SizeFacts DEF Requests, Idle, Puts, Callers
<1> HIDE DEF r
<1>3. failures' \in 0..MaxFailures /\ failures' \in {failures, failures + 1}
  BY <1>1, FailureFacts
<1>4. Typed'
  BY <1>1, <1>2, <1>3 DEF Typed, Goto
<1>5. Indexed'
  BY <1>1 DEF Indexed
<1>6. ASSUME NEW u \in Users  PROVE Account(u)'
  <2> DEFINE w == IF v = u THEN s ELSE 0
  <2>1. /\ Owes(u, Puts, r) = w /\ Owes(u, Adds, r) = 0 /\ Owes(u, Takes, r) = 0
        /\ Owes(u, Puts, req[c]) = 0 /\ Owes(u, Adds, req[c]) = 0 /\ Owes(u, Takes, req[c]) = 0
    BY <1>1, <1>2 DEF Owes, Puts, Adds, Takes
  <2>2. w \in Nat /\ w <= MaxSize /\ (w = 0 \/ (v = u /\ w = s))
    BY <1>2, SizeFacts
  <2> HIDE DEF w
  <2>3. /\ Cardinality(Pending(u)') = Cardinality(Pending(u)) + w
        /\ Cardinality(ToAdd(u)') = Cardinality(ToAdd(u))
        /\ Cardinality(ToTake(u)') = Cardinality(ToTake(u))
    BY <1>1, <1>2, <2>1, <2>2, StepFacts
  <2>4. Stored(u)' = Stored(u) /\ Bucket(u)' = Bucket(u) /\ high' = high
    BY <1>1 DEF Stored, Bucket
  <2>5. Cardinality(Pending(u)) <= Slack
    BY <1>1, OthersWithinSlack
  <2>6. /\ Cardinality(Pending(u)) \in Nat /\ u # Anyone /\ MaxSize \in Nat
        /\ Bucket(u).used \in Nat /\ Bucket(u).quota \in Nat /\ high[u] \in Nat
    BY <1>1, <1>2, StepFacts
  <2>7. /\ Slack \in Int /\ Slack' \in Int /\ Slack <= Slack'
        /\ failures' = failures + 1 => Slack' = Slack + MaxSize
    BY <1>3, SlackFacts
  <2>8. Account(u)
    OBVIOUS
  <2>9. Bucket(u).used + Cardinality(Pending(u)') <= high[u] + Slack'
    <3>1. CASE Failure
      <4>1. Slack' = Slack + MaxSize
        BY <2>7, <3>1 DEF Failure
      <4> QED  BY <2>2, <2>3, <2>6, <2>7, <2>8, <4>1 DEF Account
    <3>2. CASE w = 0
      BY <2>3, <2>6, <2>7, <2>8, <3>2 DEF Account
    <3>3. CASE ~Failure /\ w # 0
      <4>1. w <= Bucket(u).quota - Bucket(u).used
        BY <1>1, <2>2, <2>6, <3>3
      <4> QED  BY <2>2, <2>3, <2>5, <2>6, <2>7, <2>8, <4>1 DEF Account
    <3> QED  BY <3>1, <3>2, <3>3
  <2> QED  BY <1>1, <2>3, <2>4, <2>8, <2>9 DEF Account
<1> QED  BY <1>4, <1>5, <1>6

\* The uploaded file is stored, maybe over another.
LEMMA PutStoreGood ==
  ASSUME IInv, NEW c \in Clients, PutStore(c)
  PROVE  IInv'
<1> USE DEF IInv
<1> DEFINE old == req[c]
           r == [old EXCEPT !.pc = "putmeta"]
           f == old.size
<1>1. PICK p \in Homes(old.obj) :
        /\ file' = [file EXCEPT ![p] = f]
        /\ owner' = [owner EXCEPT ![p] = old.user]
        /\ Inexact(IF file[p] = None THEN {} ELSE {owner[p]})
  BY DEF PutStore
<1>2. /\ old.pc = "store" /\ Goto(c, r)
      /\ UNCHANGED <<meta, index, bucket, high, requests, admin, failures>>
  BY DEF PutStore, At
<1>3. /\ old \in [pc : Puts, user : Callers, obj : Objects, size : Sizes, whose : Callers]
      /\ old.obj \in Objects /\ f \in Sizes /\ old.user \in Callers
  BY <1>2 DEF Typed, Requests, Deletes
<1>4. r \in Requests /\ r.pc = "putmeta" /\ r.user = old.user /\ r.size = f
  BY <1>3 DEF Requests, Puts
<1>5. p \in Places
  BY <1>1, <1>3, PlaceFacts
<1> HIDE DEF r, f, old
<1>6. exact' \in [Users -> BOOLEAN]
  BY <1>1, ExactFacts
<1>7. Typed'
  BY <1>1, <1>2, <1>3, <1>4, <1>6 DEF Typed, Goto
<1>8. Indexed'
  BY <1>2 DEF Indexed
<1>9. ASSUME NEW u \in Users  PROVE Account(u)'
  <2> DEFINE w == IF old.user = u THEN f ELSE 0
             worth == Worth(u, file[p], owner[p])
  <2>1. /\ Owes(u, Puts, old) = w /\ Owes(u, Puts, r) = w
        /\ Owes(u, Adds, old) = 0 /\ Owes(u, Adds, r) = w
        /\ Owes(u, Takes, old) = 0 /\ Owes(u, Takes, r) = 0
    BY <1>2, <1>4 DEF Owes, Puts, Adds, Takes, f
  <2>2. f \in Nat /\ w \in Nat /\ f # None
    BY <1>3, SizeFacts
  <2>3. /\ Cardinality(Pending(u)') = Cardinality(Pending(u))
        /\ Cardinality(ToAdd(u)') = Cardinality(ToAdd(u)) + w
        /\ Cardinality(ToTake(u)') = Cardinality(ToTake(u))
    <3> HIDE DEF w
    <3> QED  BY <1>2, <1>4, <2>1, <2>2, StepFacts DEF old
  <2>4. owner'[p] = old.user /\ \A x \in Places : x # p => owner'[x] = owner[x]
    BY <1>1, <1>3, <1>5 DEF Typed
  <2>5. Cardinality(Stored(u)') = Cardinality(Stored(u)) - worth + w
    <3>1. Worth(u, f, owner'[p]) = w
      BY <2>2, <2>4 DEF Worth
    <3>2. PICK q \in Places, n \in Sizes \cup {None} : q = p /\ n = f
      BY <1>3, <1>5
    <3>3. file' = [file EXCEPT ![q] = n] /\ \A x \in Places : x # q => owner'[x] = owner[x]
      BY <1>1, <2>4, <3>2
    <3>4. Cardinality(Stored(u)') = Cardinality(Stored(u)) - Worth(u, file[q], owner[q])
                                                           + Worth(u, n, owner'[q])
      BY <3>3, StoredChange
    <3> QED  BY <3>1, <3>2, <3>4
  <2>6. exact'[u] => exact[u] /\ worth = 0
    BY <1>1, ExactFacts DEF Worth
  <2>7. Bucket(u)' = Bucket(u) /\ Account(u) /\ Slack' = Slack
    BY <1>2 DEF Bucket, Slack
  <2>8. {Cardinality(ToAdd(u)), Cardinality(ToTake(u)), Cardinality(Stored(u)), Bucket(u).used} \subseteq Nat
    BY <1>2, <1>4, StepFacts
  <2> HIDE DEF w, worth
  <2>9. exact'[u] => Bucket(u).used + Cardinality(ToAdd(u)') = Cardinality(Stored(u)') + Cardinality(ToTake(u)')
    BY <2>2, <2>3, <2>5, <2>6, <2>7, <2>8 DEF Account
  <2> QED  BY <1>2, <2>3, <2>7, <2>9 DEF Account
<1> QED  BY <1>7, <1>8, <1>9

\* The steps between, which leave files and usage alone: the metadata is
\* written, or not; a delete reads and deletes the metadata, or fails to.
LEMMA BetweenGood ==
  ASSUME IInv, NEW c \in Clients,
         \/ PutMeta(c) \/ PutMetaFails(c)
         \/ DeleteMetaRead(c) \/ DeleteMeta(c) \/ DeleteMetaFails(c)
  PROVE  IInv'
<1> USE DEF IInv
<1> DEFINE old == req[c]
<1>1. /\ old \in Requests
      /\ UNCHANGED <<file, bucket, owner, exact, high, requests, admin>>
      /\ Failure \/ UNCHANGED failures
  BY DEF PutMeta, PutMetaFails, DeleteMetaRead, DeleteMeta, DeleteMetaFails, Typed
<1>2. failures' \in 0..MaxFailures /\ failures' \in {failures, failures + 1}
  BY <1>1, FailureFacts
<1>3. /\ old.pc \in Puts => old \in [pc : Puts, user : Callers, obj : Objects, size : Sizes, whose : Callers]
      /\ old.pc \in Deletes => old \in [pc : Deletes, user : Callers, obj : Objects,
                                        size : Sizes \cup {0}, whose : Callers]
  BY <1>1 DEF Requests, Puts, Deletes
\* A handler that stays on its way owes what it did.
<1>4. ASSUME NEW r \in Requests, Goto(c, r), r.user = old.user, r.size = old.size,
             \/ old.pc \in Adds /\ r.pc \in Adds
             \/ old.pc \in Takes /\ r.pc \in Takes
      PROVE  \A u \in Users : Account(u)'
  <2>1. \A u \in Users : /\ Owes(u, Puts, r) = Owes(u, Puts, old) /\ Owes(u, Adds, r) = Owes(u, Adds, old)
                         /\ Owes(u, Takes, r) = Owes(u, Takes, old)
    BY <1>4 DEF Owes, Puts, Adds, Takes
  <2>2. \A u \in Users : Owes(u, Puts, old) \in Nat
    BY <1>1, SizeFacts DEF Owes
  <2>3. \A u \in Users : Owes(u, Puts, r) <= Owes(u, Puts, old)
    BY <2>1, <2>2
  <2> HIDE DEF old
  <2> QED  BY <1>1, <1>2, <1>4, <2>1, <2>3, QuietStep DEF old
<1>5. CASE PutMeta(c)
  <2> DEFINE r == [old EXCEPT !.pc = "putusage"]
  <2>1. /\ old.pc = "putmeta" /\ Goto(c, r)
        /\ meta' = [meta EXCEPT ![old.obj] = [size |-> old.size, user |-> old.user]]
        /\ index' = [u \in Users |-> IF u = old.user THEN index[u] \cup {old.obj} ELSE index[u]]
    BY <1>5 DEF PutMeta, At
  <2>2. r \in Requests /\ r.pc = "putusage" /\ r.user = old.user /\ r.size = old.size
        /\ old.obj \in Objects /\ old.size \in Sizes /\ old.user \in Callers
    BY <1>3, <2>1 DEF Requests, Puts
  <2> HIDE DEF r, old
  <2>3. Typed'
    BY <1>1, <1>2, <2>1, <2>2 DEF Typed, Goto
  <2>4. Indexed'
    BY <1>1, <2>1, <2>2 DEF Indexed, Typed
  <2>5. \A u \in Users : Account(u)'
    BY <1>4, <2>1, <2>2 DEF Adds
  <2> QED  BY <2>3, <2>4, <2>5
<1>6. CASE PutMetaFails(c)
  <2> DEFINE r == [old EXCEPT !.pc = "putusage"]
  <2>1. old.pc = "putmeta" /\ Goto(c, r) /\ UNCHANGED <<meta, index>>
    BY <1>6 DEF PutMetaFails, At
  <2>2. r \in Requests /\ r.pc = "putusage" /\ r.user = old.user /\ r.size = old.size
    BY <1>3, <2>1 DEF Requests, Puts
  <2> HIDE DEF r, old
  <2>3. Typed'
    BY <1>1, <1>2, <2>1, <2>2 DEF Typed, Goto
  <2>4. Indexed'
    BY <2>1 DEF Indexed
  <2>5. \A u \in Users : Account(u)'
    BY <1>4, <2>1, <2>2 DEF Adds
  <2> QED  BY <2>3, <2>4, <2>5
<1>7. CASE DeleteMetaRead(c)
  <2> DEFINE r == IF meta[old.obj] = None THEN [old EXCEPT !.pc = "delusage"]
                  ELSE [old EXCEPT !.pc = "metadel", !.whose = meta[old.obj].user]
  <2>1. old.pc = "metaread" /\ Goto(c, r) /\ UNCHANGED <<meta, index>>
    BY <1>7 DEF DeleteMetaRead, At
  <2>2. meta[old.obj] # None => meta[old.obj].user \in Callers
    BY <1>3, <2>1 DEF Typed, Deletes
  <2>3. r \in Requests /\ r.pc \in Takes /\ r.user = old.user /\ r.size = old.size
    BY <1>3, <2>1, <2>2 DEF Requests, Deletes, Takes
  <2> HIDE DEF r, old
  <2>4. Typed'
    BY <1>1, <1>2, <2>1, <2>3 DEF Typed, Goto
  <2>5. Indexed'
    BY <2>1 DEF Indexed
  <2>6. \A u \in Users : Account(u)'
    BY <1>4, <2>1, <2>3 DEF Takes
  <2> QED  BY <2>4, <2>5, <2>6
<1>8. CASE DeleteMeta(c)
  <2> DEFINE r == [old EXCEPT !.pc = "delusage"]
  <2>1. /\ old.pc = "metadel" /\ Goto(c, r)
        /\ meta' = [meta EXCEPT ![old.obj] = None]
        /\ index' = [u \in Users |-> IF u = old.whose THEN index[u] \ {old.obj} ELSE index[u]]
    BY <1>8 DEF DeleteMeta, At
  <2>2. r \in Requests /\ r.pc \in Takes /\ r.user = old.user /\ r.size = old.size
        /\ old.obj \in Objects
    BY <1>3, <2>1 DEF Requests, Deletes, Takes
  <2> HIDE DEF r, old
  <2>3. Typed'
    BY <1>1, <1>2, <2>1, <2>2 DEF Typed, Goto
  <2>4. Indexed'
    BY <2>1, <2>2 DEF Indexed, Typed
  <2>5. \A u \in Users : Account(u)'
    BY <1>4, <2>1, <2>2 DEF Takes
  <2> QED  BY <2>3, <2>4, <2>5
<1>9. CASE DeleteMetaFails(c)
  <2> DEFINE r == [old EXCEPT !.pc = "delusage"]
  <2>1. old.pc \in {"metaread", "metadel"} /\ Goto(c, r) /\ UNCHANGED <<meta, index>>
    BY <1>9 DEF DeleteMetaFails
  <2>2. r \in Requests /\ r.pc \in Takes /\ r.user = old.user /\ r.size = old.size
    BY <1>3, <2>1 DEF Requests, Deletes, Takes
  <2> HIDE DEF r, old
  <2>3. Typed'
    BY <1>1, <1>2, <2>1, <2>2 DEF Typed, Goto
  <2>4. Indexed'
    BY <2>1 DEF Indexed
  <2>5. \A u \in Users : Account(u)'
    BY <1>4, <2>1, <2>2 DEF Takes
  <2> QED  BY <2>3, <2>4, <2>5
<1> QED  BY <1>5, <1>6, <1>7, <1>8, <1>9

\* The requests that end at once: nothing there to delete, or the store has failed.
LEMMA EndGood ==
  ASSUME IInv, NEW c \in Clients, DeleteMissing(c) \/ StoreFails(c)
  PROVE  IInv'
<1> USE DEF IInv
<1> DEFINE old == req[c]
<1>1. /\ old \in Requests /\ old.pc \in {"store", "unlink"} /\ Goto(c, Idle)
      /\ UNCHANGED <<file, meta, index, bucket, owner, exact, high, requests, admin>>
      /\ Failure \/ UNCHANGED failures
  BY DEF DeleteMissing, StoreFails, Typed, At
<1>2. failures' \in 0..MaxFailures /\ failures' \in {failures, failures + 1}
  BY <1>1, FailureFacts
<1>3. Idle \in Requests /\ Idle.pc = "idle"
  BY DEF Idle, Requests, Callers
<1>4. \A u \in Users : Owes(u, Puts, old) \in Nat
  BY <1>1, SizeFacts DEF Owes
<1> HIDE DEF old
<1>5. Typed'
  BY <1>1, <1>2, <1>3 DEF Typed, Goto
<1>6. Indexed'
  BY <1>1 DEF Indexed
<1>7. \A u \in Users : /\ Owes(u, Puts, Idle) = 0
                       /\ Owes(u, Adds, Idle) = Owes(u, Adds, old)
                       /\ Owes(u, Takes, Idle) = Owes(u, Takes, old)
  BY <1>1, <1>3 DEF Owes, Puts, Adds, Takes
<1>8. \A u \in Users : Owes(u, Puts, Idle) <= Owes(u, Puts, old)
  BY <1>4, <1>7
<1>9. \A u \in Users : Account(u)'
  BY <1>1, <1>2, <1>3, <1>7, <1>8, QuietStep DEF old
<1> QED  BY <1>5, <1>6, <1>9

\* The deleted file is no more in its owner's bytes.
LEMMA DeleteFileGood ==
  ASSUME IInv, NEW c \in Clients, DeleteFile(c)
  PROVE  IInv'
<1> USE DEF IInv
<1> DEFINE old == req[c]
           r == [old EXCEPT !.pc = "metaread"]
<1>1. PICK p : p = Home(old.obj)
  OBVIOUS
<1>2. /\ old.pc = "unlink" /\ file[p] # None /\ file' = [file EXCEPT ![p] = None]
      /\ Inexact(IF old.user = owner[p]
                 THEN IF old.size = file[p] THEN {} ELSE {old.user}
                 ELSE {old.user, owner[p]})
      /\ Goto(c, r)
      /\ UNCHANGED <<meta, index, bucket, owner, high, requests, admin, failures>>
  BY <1>1 DEF DeleteFile, At
<1>3. /\ old \in [pc : Deletes, user : Callers, obj : Objects, size : Sizes \cup {0}, whose : Callers]
      /\ old \in Requests
  BY <1>2 DEF Typed, Requests, Puts
<1>4. r \in Requests /\ r.pc = "metaread" /\ r.user = old.user /\ r.size = old.size
  BY <1>3 DEF Requests, Deletes
<1>5. p \in Places
  BY <1>1, <1>3, PlaceFacts
<1> HIDE DEF r, old
<1>6. exact' \in [Users -> BOOLEAN]
  BY <1>2, ExactFacts
<1>7. Typed'
  BY <1>2, <1>4, <1>5, <1>6 DEF Typed, Goto
<1>8. Indexed'
  BY <1>2 DEF Indexed
<1>9. ASSUME NEW u \in Users  PROVE Account(u)'
  <2> DEFINE w == IF old.user = u THEN old.size ELSE 0
             worth == Worth(u, file[p], owner[p])
  <2>1. /\ Owes(u, Puts, old) = 0 /\ Owes(u, Puts, r) = 0
        /\ Owes(u, Adds, old) = 0 /\ Owes(u, Adds, r) = 0
        /\ Owes(u, Takes, old) = 0 /\ Owes(u, Takes, r) = w
    BY <1>2, <1>4 DEF Owes, Puts, Adds, Takes
  <2>2. w \in Nat /\ None \in Sizes \cup {None}
    BY <1>3, SizeFacts
  <2> HIDE DEF w
  <2>3. /\ Cardinality(Pending(u)') = Cardinality(Pending(u))
        /\ Cardinality(ToAdd(u)') = Cardinality(ToAdd(u))
        /\ Cardinality(ToTake(u)') = Cardinality(ToTake(u)) + w
    BY <1>2, <1>4, <2>1, <2>2, StepFacts DEF old
  <2>4. Cardinality(Stored(u)') = Cardinality(Stored(u)) - worth
    <3>1. file' = [file EXCEPT ![p] = None] /\ owner' = owner
      BY <1>2
    <3>2. Cardinality(Stored(u)) \in Nat /\ Cardinality(Stored(u)') \in Nat
          /\ Cardinality(Stored(u)') = Cardinality(Stored(u)) - worth + Worth(u, None, owner'[p])
      BY <1>5, <2>2, <3>1, StoredChange
    <3>3. Worth(u, None, owner'[p]) = 0 /\ worth \in Nat
      BY <1>5, SizeFacts DEF Worth, Typed
    <3> HIDE DEF worth
    <3> QED  BY <3>2, <3>3
  <2>5. exact'[u] => exact[u] /\ worth = w
    BY <1>2, ExactFacts DEF Worth, w
  <2>6. Bucket(u)' = Bucket(u) /\ Account(u) /\ Slack' = Slack
    BY <1>2 DEF Bucket, Slack
  <2>7. {Cardinality(ToAdd(u)), Cardinality(ToTake(u)), Cardinality(Stored(u)), Bucket(u).used} \subseteq Nat
    BY <1>2, <1>4, StepFacts
  <2> HIDE DEF worth
  <2>8. exact'[u] => Bucket(u).used + Cardinality(ToAdd(u)') = Cardinality(Stored(u)') + Cardinality(ToTake(u)')
    BY <2>2, <2>3, <2>4, <2>5, <2>6, <2>7 DEF Account
  <2> QED  BY <1>2, <2>3, <2>6, <2>8 DEF Account
<1> QED  BY <1>7, <1>8, <1>9

\* A second delete of the dedup store goes on: what it takes off is no one's file.
LEMMA DeleteGoneGood ==
  ASSUME IInv, NEW c \in Clients, DeleteGone(c)
  PROVE  IInv'
<1> USE DEF IInv
<1> DEFINE old == req[c]
           r == [old EXCEPT !.pc = "metaread"]
<1>1. /\ old.pc = "unlink" /\ Goto(c, r)
      /\ Inexact(IF old.size = 0 THEN {} ELSE {old.user})
      /\ UNCHANGED <<file, meta, index, bucket, owner, high, requests, admin, failures>>
  BY DEF DeleteGone, At
<1>2. /\ old \in [pc : Deletes, user : Callers, obj : Objects, size : Sizes \cup {0}, whose : Callers]
      /\ old \in Requests
  BY <1>1 DEF Typed, Requests, Puts
<1>3. r \in Requests /\ r.pc = "metaread" /\ r.user = old.user /\ r.size = old.size
  BY <1>2 DEF Requests, Deletes
<1> HIDE DEF r, old
<1>4. /\ exact' \in [Users -> BOOLEAN]
      /\ \A u \in Users : exact'[u] => exact[u] /\ u \notin (IF old.size = 0 THEN {} ELSE {old.user})
  BY <1>1, ExactFacts
<1>5. Typed'
  BY <1>1, <1>3, <1>4 DEF Typed, Goto
<1>6. Indexed'
  BY <1>1 DEF Indexed
<1>7. \A u \in Users : /\ Owes(u, Puts, r) = 0 /\ Owes(u, Puts, old) = 0
                       /\ Owes(u, Adds, r) = 0 /\ Owes(u, Adds, old) = 0
                       /\ Owes(u, Takes, old) = 0
                       /\ exact'[u] => exact[u] /\ Owes(u, Takes, r) = 0
  BY <1>1, <1>3, <1>4 DEF Owes, Puts, Adds, Takes
<1>8. \A u \in Users : Account(u)'
  BY <1>1, <1>3, <1>7, QuietStep DEF old
<1> QED  BY <1>5, <1>6, <1>8

\* A change of the usage of one user, from the record b that was read.
LEMMA UsageChange ==
  ASSUME Typed, NEW v \in Users, NEW b \in [quota : Nat, used : Nat, files : Nat],
         NEW s \in Int, NEW n \in Int, AddUsage(v, b, s, n)
  PROVE  /\ bucket' \in [Users -> [quota : Nat, used : Nat, files : Nat] \cup {None}]
         /\ \A u \in Users : /\ Bucket(u)'.quota = IF u = v THEN b.quota ELSE Bucket(u).quota
                             /\ Bucket(u)'.used = IF u = v THEN AtLeastZero(b.used + s)
                                                  ELSE Bucket(u).used
<1>1. \A i \in Int : AtLeastZero(i) \in Nat
  BY DEF AtLeastZero
<1> DEFINE new == [quota |-> b.quota, used |-> AtLeastZero(b.used + s),
                   files |-> AtLeastZero(b.files + n)]
<1>2. new \in [quota : Nat, used : Nat, files : Nat]
  BY <1>1
<1>3. bucket' = [bucket EXCEPT ![v] = new]
  BY DEF AddUsage
<1>4. new # None
  <2>1. None \notin [quota : Nat, used : Nat, files : Nat]
    BY BucketAssumption
  <2> QED  BY <1>2, <2>1
<1>5. new.quota = b.quota /\ new.used = AtLeastZero(b.used + s)
  OBVIOUS
<1> HIDE DEF new
<1>6. bucket' \in [Users -> [quota : Nat, used : Nat, files : Nat] \cup {None}]
  BY <1>2, <1>3 DEF Typed
<1>7. \A u \in Users : Bucket(u)' = IF u = v THEN new ELSE Bucket(u)
  BY <1>3, <1>4 DEF Typed, Bucket
<1> QED  BY <1>5, <1>6, <1>7

\* The record of a user, or the one the store makes up.
LEMMA BucketType ==
  ASSUME Typed
  PROVE  /\ FreeBucket \in [quota : Nat, used : Nat, files : Nat]
         /\ \A u \in Users : Bucket(u) \in [quota : Nat, used : Nat, files : Nat]
BY QuotasAssumption DEF Typed, Bucket, FreeBucket

\* The upload is added to the usage: what was let in becomes usage.
LEMMA PutUsageGood ==
  ASSUME IInv, NEW c \in Clients, PutUsage(c)
  PROVE  IInv'
<1> USE DEF IInv
<1> DEFINE old == req[c]
<1>1. /\ old.pc = "putusage" /\ Goto(c, Idle)
      /\ IF old.user = Anyone THEN UNCHANGED bucket
         ELSE AddUsage(old.user, Bucket(old.user), old.size, 1)
      /\ UNCHANGED <<file, meta, index, owner, exact, high, requests, admin, failures>>
  BY DEF PutUsage, At
<1>2. /\ old \in [pc : Puts, user : Callers, obj : Objects, size : Sizes, whose : Callers]
      /\ old.size \in Nat /\ old.user \in Callers
  BY <1>1, SizeFacts DEF Typed, Requests, Deletes
<1>3. Idle \in Requests /\ Idle.pc = "idle"
  BY DEF Idle, Requests, Callers
<1> HIDE DEF old
<1>4. /\ bucket' \in [Users -> [quota : Nat, used : Nat, files : Nat] \cup {None}]
      /\ \A u \in Users : /\ Bucket(u)'.quota = Bucket(u).quota
                          /\ Bucket(u)'.used = Bucket(u).used + IF old.user = u THEN old.size ELSE 0
  <2>0. \A u \in Users : Bucket(u).used \in Nat /\ u # Anyone
    BY <1>1, <1>3, StepFacts
  <2>1. CASE old.user = Anyone
    <3>1. \A u \in Users : Bucket(u)' = Bucket(u)
      BY <1>1, <2>1 DEF Bucket
    <3> QED  BY <1>1, <2>0, <2>1, <3>1 DEF Typed
  <2>2. CASE old.user # Anyone
    <3>1. PICK v \in Users, s \in Int : v = old.user /\ s = old.size
      BY <1>2, <2>2 DEF Callers
    <3>2. AddUsage(v, Bucket(v), s, 1) /\ s \in Nat
      BY <1>1, <1>2, <2>2, <3>1
    <3>3. Bucket(v) \in [quota : Nat, used : Nat, files : Nat]
      BY BucketType
    <3>4. /\ bucket' \in [Users -> [quota : Nat, used : Nat, files : Nat] \cup {None}]
          /\ \A u \in Users : /\ Bucket(u)'.quota = IF u = v THEN Bucket(v).quota ELSE Bucket(u).quota
                              /\ Bucket(u)'.used = IF u = v THEN AtLeastZero(Bucket(v).used + s)
                                                   ELSE Bucket(u).used
      BY <3>2, <3>3, UsageChange
    <3>5. \A n \in Nat : AtLeastZero(n + s) = n + s
      BY <3>2 DEF AtLeastZero
    <3> QED  BY <2>0, <3>1, <3>4, <3>5
  <2> QED  BY <2>1, <2>2
<1>5. Typed'
  BY <1>1, <1>3, <1>4 DEF Typed, Goto
<1>6. Indexed'
  BY <1>1 DEF Indexed
<1>7. ASSUME NEW u \in Users  PROVE Account(u)'
  <2> DEFINE w == IF old.user = u THEN old.size ELSE 0
  <2>1. /\ Owes(u, Puts, old) = w /\ Owes(u, Puts, Idle) = 0
        /\ Owes(u, Adds, old) = w /\ Owes(u, Adds, Idle) = 0
        /\ Owes(u, Takes, old) = 0 /\ Owes(u, Takes, Idle) = 0
    BY <1>1, <1>3 DEF Owes, Puts, Adds, Takes
  <2>2. w \in Nat /\ Bucket(u)'.used = Bucket(u).used + w /\ Bucket(u)'.quota = Bucket(u).quota
    BY <1>2, <1>4
  <2> HIDE DEF w
  <2>3. /\ Cardinality(Pending(u)') = Cardinality(Pending(u)) - w
        /\ Cardinality(ToAdd(u)') = Cardinality(ToAdd(u)) - w
        /\ Cardinality(ToTake(u)') = Cardinality(ToTake(u))
    BY <1>1, <1>3, <2>1, <2>2, StepFacts DEF old
  <2>4. Stored(u)' = Stored(u) /\ Account(u) /\ Slack' = Slack
    BY <1>1 DEF Stored, Slack
  <2>5. /\ {Cardinality(Pending(u)), Cardinality(ToAdd(u)), Cardinality(ToTake(u)),
            Cardinality(Stored(u)), Bucket(u).used, high[u]} \subseteq Nat
        /\ Slack \in Int
    BY <1>1, <1>3, StepFacts
  <2>6. Bucket(u)'.used + Cardinality(Pending(u)') <= high[u] + Slack'
    BY <2>2, <2>3, <2>4, <2>5 DEF Account
  <2>7. exact[u] => Bucket(u)'.used + Cardinality(ToAdd(u)') = Cardinality(Stored(u)') + Cardinality(ToTake(u)')
    BY <2>2, <2>3, <2>4, <2>5 DEF Account
  <2> QED  BY <1>1, <2>2, <2>4, <2>6, <2>7 DEF Account
<1> QED  BY <1>5, <1>6, <1>7

\* The deleted file is taken off the usage, as far as there is any.
LEMMA DeleteUsageGood ==
  ASSUME IInv, NEW c \in Clients, DeleteUsage(c)
  PROVE  IInv'
<1> USE DEF IInv
<1> DEFINE old == req[c]
           Paid == ~(old.user = Anyone \/ old.size = 0)
<1>1. /\ old.pc = "delusage" /\ Goto(c, Idle)
      /\ ~Paid => UNCHANGED <<bucket, exact>>
      /\ Paid => /\ AddUsage(old.user, Bucket(old.user), -old.size, -1)
                 /\ Inexact(IF Bucket(old.user).used < old.size THEN {old.user} ELSE {})
      /\ UNCHANGED <<file, meta, index, owner, high, requests, admin, failures>>
  BY DEF DeleteUsage, At
<1>2. /\ old \in [pc : Deletes, user : Callers, obj : Objects, size : Sizes \cup {0}, whose : Callers]
      /\ old.size \in Nat /\ old.user \in Callers
  BY <1>1, SizeFacts DEF Typed, Requests, Puts
<1>3. Idle \in Requests /\ Idle.pc = "idle"
  BY DEF Idle, Requests, Callers
<1> HIDE DEF old
<1>4. /\ bucket' \in [Users -> [quota : Nat, used : Nat, files : Nat] \cup {None}]
      /\ exact' \in [Users -> BOOLEAN]
      /\ \A u \in Users :
           LET w == IF old.user = u THEN old.size ELSE 0
           IN  /\ Bucket(u)'.quota = Bucket(u).quota
               /\ Bucket(u)'.used = AtLeastZero(Bucket(u).used - w)
               /\ exact'[u] => exact[u] /\ Bucket(u).used >= w
  <2>1. \A u \in Users : u # Anyone /\ Bucket(u).used \in Nat
    BY <1>1, <1>3, StepFacts
  <2>2. \A n \in Nat : AtLeastZero(n - 0) = n
    BY DEF AtLeastZero
  <2>3. CASE ~Paid
    <3>1. UNCHANGED <<bucket, exact>> /\ \A u \in Users : Bucket(u)' = Bucket(u)
      BY <1>1, <2>3 DEF Bucket
    <3>2. \A u \in Users : (IF old.user = u THEN old.size ELSE 0) = 0
      BY <2>1, <2>3
    <3> QED  BY <2>1, <2>2, <3>1, <3>2 DEF Typed
  <2>4. CASE Paid
    <3>1. PICK v \in Users, s \in Nat : v = old.user /\ s = old.size
      BY <1>2, <2>4 DEF Callers
    <3>2. AddUsage(v, Bucket(v), -s, -1) /\ -s \in Int /\ -1 \in Int
      BY <1>1, <2>4, <3>1
    <3>3. /\ bucket' \in [Users -> [quota : Nat, used : Nat, files : Nat] \cup {None}]
          /\ \A u \in Users : /\ Bucket(u)'.quota = IF u = v THEN Bucket(v).quota ELSE Bucket(u).quota
                              /\ Bucket(u)'.used = IF u = v THEN AtLeastZero(Bucket(v).used + (-s))
                                                   ELSE Bucket(u).used
      <4>1. Bucket(v) \in [quota : Nat, used : Nat, files : Nat]
        BY BucketType
      <4> QED  BY <3>2, <4>1, UsageChange
    <3>4. Inexact(IF Bucket(v).used < s THEN {v} ELSE {})
      BY <1>1, <2>4, <3>1
    <3>5. /\ exact' \in [Users -> BOOLEAN]
          /\ \A u \in Users : exact'[u] => exact[u] /\ u \notin (IF Bucket(v).used < s THEN {v} ELSE {})
      BY <3>4, ExactFacts
    <3>6. ASSUME NEW u \in Users
          PROVE  LET w == IF v = u THEN s ELSE 0
                 IN  /\ Bucket(u)'.quota = Bucket(u).quota
                     /\ Bucket(u)'.used = AtLeastZero(Bucket(u).used - w)
                     /\ exact'[u] => exact[u] /\ Bucket(u).used >= w
      <4>1. CASE u = v
        <5>1. Bucket(u).used + (-s) = Bucket(u).used - s
          BY <2>1
        <5>2. exact'[u] => exact[u] /\ ~(Bucket(u).used < s)
          BY <3>5, <4>1
        <5> QED  BY <2>1, <3>3, <4>1, <5>1, <5>2
      <4>2. CASE u # v
        <5>1. Bucket(u)'.quota = Bucket(u).quota /\ Bucket(u)'.used = Bucket(u).used
          BY <3>3, <4>2
        <5>2. exact'[u] => exact[u]
          BY <3>5
        <5> QED  BY <2>1, <2>2, <4>2, <5>1, <5>2
      <4> QED  BY <4>1, <4>2
    <3> QED  BY <3>1, <3>3, <3>5, <3>6
  <2> QED  BY <2>3, <2>4
<1>5. Typed'
  BY <1>1, <1>3, <1>4 DEF Typed, Goto
<1>6. Indexed'
  BY <1>1 DEF Indexed
<1>7. ASSUME NEW u \in Users  PROVE Account(u)'
  <2> DEFINE w == IF old.user = u THEN old.size ELSE 0
  <2>1. /\ Owes(u, Puts, old) = 0 /\ Owes(u, Puts, Idle) = 0
        /\ Owes(u, Adds, old) = 0 /\ Owes(u, Adds, Idle) = 0
        /\ Owes(u, Takes, old) = w /\ Owes(u, Takes, Idle) = 0
    BY <1>1, <1>3 DEF Owes, Puts, Adds, Takes
  <2>2. /\ w \in Nat /\ Bucket(u)'.used = AtLeastZero(Bucket(u).used - w)
        /\ Bucket(u)'.quota = Bucket(u).quota
    BY <1>2, <1>4
  <2>3. exact'[u] => exact[u] /\ Bucket(u).used >= w
    BY <1>4
  <2> HIDE DEF w
  <2>4. /\ Cardinality(Pending(u)') = Cardinality(Pending(u))
        /\ Cardinality(ToAdd(u)') = Cardinality(ToAdd(u))
        /\ Cardinality(ToTake(u)') = Cardinality(ToTake(u)) - w
    BY <1>1, <1>3, <2>1, <2>2, StepFacts DEF old
  <2>5. Stored(u)' = Stored(u) /\ Account(u) /\ Slack' = Slack
    BY <1>1 DEF Stored, Slack
  <2>6. /\ {Cardinality(Pending(u)), Cardinality(ToAdd(u)), Cardinality(ToTake(u)),
            Cardinality(Stored(u)), Bucket(u).used, high[u]} \subseteq Nat
        /\ Slack \in Int
    BY <1>1, <1>3, StepFacts
  <2>7. /\ Bucket(u)'.used \in Nat /\ Bucket(u)'.used <= Bucket(u).used
        /\ Bucket(u).used >= w => Bucket(u)'.used = Bucket(u).used - w
    BY <2>2, <2>6 DEF AtLeastZero
  <2>8. Bucket(u)'.used + Cardinality(Pending(u)') <= high[u] + Slack'
    BY <2>4, <2>5, <2>6, <2>7 DEF Account
  <2>9. exact'[u] => Bucket(u)'.used + Cardinality(ToAdd(u)') = Cardinality(Stored(u)') + Cardinality(ToTake(u)')
    BY <2>2, <2>3, <2>4, <2>5, <2>6, <2>7 DEF Account
  <2> QED  BY <1>1, <2>2, <2>5, <2>8, <2>9 DEF Account
<1> QED  BY <1>5, <1>6, <1>7

\* AddUsage fails: the usage stays without the upload or with the file, or begins anew.
LEMMA UsageFailsGood ==
  ASSUME IInv, NEW c \in Clients, UsageFails(c)
  PROVE  IInv'
<1> USE DEF IInv
<1> DEFINE old == req[c]
           s == IF old.pc = "putusage" THEN 1 ELSE -1
<1>1. /\ old.pc \in {"putusage", "delusage"} /\ old.user # Anyone
      /\ Goto(c, Idle) /\ Failure /\ Inexact({old.user})
      /\ UNCHANGED <<file, meta, index, owner, high, requests, admin>>
      /\ \/ UNCHANGED bucket
         \/ AddUsage(old.user, FreeBucket, s * old.size, s)
  BY DEF UsageFails
<1>2. /\ old \in Requests /\ old.size \in Nat /\ old.user \in Callers
  BY SizeFacts DEF Typed, Requests
<1>3. Idle \in Requests /\ Idle.pc = "idle"
  BY DEF Idle, Requests, Callers
<1>4. s \in Int /\ s * old.size \in Int
      /\ AtLeastZero(0 + s * old.size) = IF old.pc = "putusage" THEN old.size ELSE 0
  BY <1>2 DEF AtLeastZero
<1> HIDE DEF old, s
<1>5. PICK v \in Users : v = old.user
  BY <1>1, <1>2 DEF Callers
<1>6. /\ failures' \in 0..MaxFailures /\ failures' \in {failures, failures + 1}
  BY <1>1, FailureFacts
<1>7. exact' \in [Users -> BOOLEAN] /\ \A u \in Users : exact'[u] => exact[u] /\ u # v
  <2>1. Inexact({v})
    BY <1>1, <1>5
  <2> QED  BY <2>1, ExactFacts
<1> DEFINE w(u) == IF v = u /\ old.pc = "putusage" THEN old.size ELSE 0
\* The usage grows by no more than the upload, from what it was or from nothing.
<1>8. /\ bucket' \in [Users -> [quota : Nat, used : Nat, files : Nat] \cup {None}]
      /\ \A u \in Users : /\ Bucket(u)'.quota \in {Bucket(u).quota, FreeQuota}
                          /\ Bucket(u)'.used \in {Bucket(u).used, w(u)}
                          /\ u # v => Bucket(u)'.used = Bucket(u).used
  <2>1. CASE UNCHANGED bucket
    BY <2>1 DEF Typed, Bucket
  <2>2. CASE AddUsage(old.user, FreeBucket, s * old.size, s)
    <3>1. FreeBucket \in [quota : Nat, used : Nat, files : Nat]
          /\ FreeBucket.used = 0 /\ FreeBucket.quota = FreeQuota
      BY BucketType DEF FreeBucket
    <3>2. PICK k \in Int, n \in Int : k = s * old.size /\ n = s
      BY <1>4
    <3>3. AddUsage(v, FreeBucket, k, n)
      BY <1>5, <2>2, <3>2
    <3>4. /\ bucket' \in [Users -> [quota : Nat, used : Nat, files : Nat] \cup {None}]
          /\ \A u \in Users : /\ Bucket(u)'.quota = IF u = v THEN FreeBucket.quota ELSE Bucket(u).quota
                              /\ Bucket(u)'.used = IF u = v THEN AtLeastZero(FreeBucket.used + k)
                                                   ELSE Bucket(u).used
      BY <3>1, <3>3, UsageChange
    <3>5. AtLeastZero(FreeBucket.used + k) = w(v)
      BY <1>4, <3>1, <3>2
    <3> QED  BY <3>1, <3>4, <3>5
  <2> QED  BY <1>1, <2>1, <2>2
<1>9. Typed'
  BY <1>1, <1>3, <1>6, <1>7, <1>8 DEF Typed, Goto
<1>10. Indexed'
  BY <1>1 DEF Indexed
<1>11. ASSUME NEW u \in Users  PROVE Account(u)'
  <2> DEFINE x == w(u)
  <2>1. /\ Owes(u, Puts, old) = x /\ Owes(u, Puts, Idle) = 0
        /\ u # v => /\ Owes(u, Adds, old) = 0 /\ Owes(u, Adds, Idle) = 0
                    /\ Owes(u, Takes, old) = 0 /\ Owes(u, Takes, Idle) = 0
    BY <1>1, <1>3, <1>5 DEF Owes, Puts, Adds, Takes
  <2>2. /\ x \in Nat /\ Bucket(u)'.used \in {Bucket(u).used, x}
        /\ Bucket(u)'.quota \in {Bucket(u).quota, FreeQuota}
        /\ u # v => Bucket(u)'.used = Bucket(u).used
    BY <1>2, <1>8
  <2> HIDE DEF x
  <2>3. /\ Cardinality(Pending(u)') = Cardinality(Pending(u)) - x
        /\ u # v => /\ Cardinality(ToAdd(u)') = Cardinality(ToAdd(u))
                    /\ Cardinality(ToTake(u)') = Cardinality(ToTake(u))
    BY <1>1, <1>3, <2>1, <2>2, StepFacts DEF old
  <2>4. Stored(u)' = Stored(u) /\ Account(u)
    BY <1>1 DEF Stored
  <2>5. /\ {Cardinality(Pending(u)), Cardinality(Pending(u)'), Cardinality(ToAdd(u)), Cardinality(ToTake(u)),
            Cardinality(Stored(u)), Bucket(u).used, high[u]} \subseteq Nat
    BY <1>1, <1>3, StepFacts
  <2>6. Slack \in Int /\ Slack' \in Int /\ Slack <= Slack'
    BY <1>6, SlackFacts
  <2>7. Bucket(u)'.used + Cardinality(Pending(u)') <= high[u] + Slack'
    <3>1. CASE Bucket(u)'.used = Bucket(u).used
      BY <2>2, <2>3, <2>4, <2>5, <2>6, <3>1 DEF Account
    <3>2. CASE Bucket(u)'.used = x
      BY <2>2, <2>3, <2>4, <2>5, <2>6, <3>2 DEF Account
    <3> QED  BY <2>2, <3>1, <3>2
  <2>8. exact'[u] => Bucket(u)'.used + Cardinality(ToAdd(u)') = Cardinality(Stored(u)') + Cardinality(ToTake(u)')
    BY <1>7, <2>2, <2>3, <2>4 DEF Account
  <2> QED  BY <1>1, <2>2, <2>4, <2>7, <2>8 DEF Account
<1> QED  BY <1>9, <1>10, <1>11

\* The process dies: who had bytes under way is no more exact, and nobody has.
LEMMA CrashGood == ASSUME IInv, Crash  PROVE IInv'
<1> USE DEF IInv
<1> DEFINE us == {req[c].user : c \in {c \in Clients : req[c].pc \notin {"idle", "store", "unlink"}}}
<1>1. /\ Failure /\ req' = [c \in Clients |-> Idle] /\ Inexact(us)
      /\ UNCHANGED <<file, meta, index, bucket, owner, high, requests, admin>>
  BY DEF Crash
<1>2. exact' \in [Users -> BOOLEAN] /\ \A u \in Users : exact'[u] => exact[u] /\ u \notin us
  BY <1>1, ExactFacts
<1>3. Idle \in Requests /\ Idle.pc = "idle"
  BY DEF Idle, Requests, Callers
<1>4. failures' \in 0..MaxFailures /\ failures' \in {failures, failures + 1}
  BY <1>1, FailureFacts
<1>5. Typed'
  BY <1>1, <1>2, <1>3, <1>4 DEF Typed
<1>6. Indexed'
  BY <1>1 DEF Indexed
<1>7. ASSUME NEW u \in Users  PROVE Account(u)'
  <2>1. /\ Pending(u)' = {} /\ ToAdd(u)' = {} /\ ToTake(u)' = {}
        /\ Stored(u)' = Stored(u) /\ Bucket(u)' = Bucket(u)
    BY <1>1, <1>3 DEF Pending, ToAdd, ToTake, Outstanding, Puts, Stored, Bucket
  <2>2. Cardinality({}) = 0
    BY FS_EmptySet
  <2>3. u \notin us => ToAdd(u) = {} /\ ToTake(u) = {}
    BY DEF ToAdd, ToTake, Outstanding
  <2>4. Cardinality(Pending(u)) \in Nat /\ Account(u)
    BY ByteSets, FiniteAssumption DEF Pending, Outstanding
  <2>5. Bucket(u).used \in Nat /\ high[u] \in Nat
    BY BucketType DEF Typed
  <2>6. Slack \in Int /\ Slack' \in Int /\ Slack <= Slack'
    BY <1>4, SlackFacts
  <2>7. Bucket(u).used + 0 <= high[u] + Slack'
    BY <2>4, <2>5, <2>6 DEF Account
  <2>8. exact'[u] => Bucket(u).used + 0 = Cardinality(Stored(u)) + 0
    BY <1>2, <2>2, <2>3, <2>4 DEF Account
  <2> QED  BY <1>1, <2>1, <2>2, <2>4, <2>7, <2>8 DEF Account
<1> QED  BY <1>5, <1>6, <1>7

-----------------------------------------------------------------------------
(* The administrator's steps                                               *)

\* A bucket made, changed or deleted: the free quota is never above the highest.
LEMMA BucketsGood ==
  ASSUME IInv, NEW v \in Users, Buckets(v)
  PROVE  IInv'
<1> USE DEF IInv
<1>1. /\ UNCHANGED <<file, meta, index, req, owner, requests>>
      /\ admin < MaxAdmin /\ admin' = admin + 1
      /\ Failure \/ UNCHANGED failures
  BY DEF Buckets, DeleteBucket, CreateBucket, CreateMisreads, UpdateBucket, Admin
<1>2. /\ admin' \in 0..MaxAdmin /\ requests' \in 0..MaxRequests
      /\ failures' \in 0..MaxFailures /\ failures' \in {failures, failures + 1}
  BY <1>1, BoundsAssumption, FailureFacts DEF Typed
<1>3. \A u \in Users : /\ Bucket(u) \in [quota : Nat, used : Nat, files : Nat] /\ high[u] \in Nat
                       /\ Stored(u)' = Stored(u) /\ ToAdd(u)' = ToAdd(u) /\ ToTake(u)' = ToTake(u)
                       /\ Pending(u)' = Pending(u)
  BY <1>1, QuotasAssumption DEF Typed, Bucket, FreeBucket, Stored, ToAdd, ToTake, Pending, Outstanding
<1>4. \A u \in Users : Cardinality(Pending(u)) \in Nat
  BY ByteSets, FiniteAssumption DEF Pending, Outstanding
<1>5. Slack \in Int /\ Slack' \in Int /\ Slack <= Slack' /\ FreeQuota \in Nat
  BY <1>2, SlackFacts, QuotasAssumption
<1>6. Indexed'
  BY <1>1 DEF Indexed
<1>7. ASSUME NEW q \in Quotas, CreateBucket(v, q) \/ UpdateBucket(v, q)
      PROVE  IInv'
  <2> DEFINE new == [quota |-> q, used |-> Bucket(v).used, files |-> Bucket(v).files]
  <2>1. q \in Nat
    BY QuotasAssumption
  <2>2. new \in [quota : Nat, used : Nat, files : Nat] /\ new.quota = q /\ new.used = Bucket(v).used
    BY <1>3, <2>1
  <2>3. bucket' = [bucket EXCEPT ![v] = new] /\ exact' = exact /\ Raise(v, q)
    <3>1. CASE CreateBucket(v, q)
      <4>1. bucket[v] = None /\ bucket' = [bucket EXCEPT ![v] = [FreeBucket EXCEPT !.quota = q]]
            /\ exact' = exact /\ Raise(v, q)
        BY <3>1 DEF CreateBucket
      <4>2. Bucket(v) = FreeBucket
        BY <4>1 DEF Bucket
      <4>3. [FreeBucket EXCEPT !.quota = q] = new
        BY <4>2 DEF FreeBucket
      <4> QED  BY <4>1, <4>3
    <3>2. CASE UpdateBucket(v, q)
      <4>1. bucket[v] # None /\ bucket' = [bucket EXCEPT ![v].quota = q] /\ exact' = exact /\ Raise(v, q)
        BY <3>2 DEF UpdateBucket
      <4>2. bucket[v] \in [quota : Nat, used : Nat, files : Nat] /\ Bucket(v) = bucket[v]
        BY <4>1 DEF Typed, Bucket
      <4>3. [bucket[v] EXCEPT !.quota = q] = new
        BY <4>2
      <4> QED  BY <4>1, <4>3
    <3> QED  BY <1>7, <3>1, <3>2
  <2>4. new # None
    <3>1. None \notin [quota : Nat, used : Nat, files : Nat]
      BY BucketAssumption
    <3> QED  BY <2>2, <3>1
  <2> HIDE DEF new
  <2>5. high' \in [Users -> Nat] /\ high'[v] >= q /\ \A u \in Users : high'[u] >= high[u]
    BY <2>1, <2>3 DEF Raise, Typed
  <2>6. Typed'
    BY <1>1, <1>2, <2>2, <2>3, <2>5 DEF Typed
  <2>7. \A u \in Users : Bucket(u)' = IF u = v THEN new ELSE Bucket(u)
    BY <2>3, <2>4 DEF Typed, Bucket
  <2>8. ASSUME NEW u \in Users  PROVE Account(u)'
    <3>1. Bucket(u)'.used = Bucket(u).used /\ Bucket(u)'.quota = IF u = v THEN q ELSE Bucket(u).quota
      BY <2>2, <2>7
    <3>2. Account(u) /\ exact' = exact /\ high'[u] \in Nat
      BY <2>3, <2>5
    <3>3. Bucket(u).used \in Nat /\ Bucket(u).quota \in Nat /\ high[u] \in Nat
      BY <1>3
    <3>4. Bucket(u)'.quota <= high'[u] /\ FreeQuota <= high'[u]
      BY <1>5, <2>1, <2>5, <3>1, <3>2, <3>3 DEF Account
    <3>5. Bucket(u).used + Cardinality(Pending(u)) <= high'[u] + Slack'
      BY <1>4, <1>5, <2>5, <3>2, <3>3 DEF Account
    <3> QED  BY <1>3, <3>1, <3>2, <3>4, <3>5 DEF Account
  <2> QED  BY <1>6, <2>6, <2>8
<1>8. ASSUME NEW new \in [quota : Nat, used : Nat, files : Nat] \cup {None}, Inexact({v}),
             bucket' = [bucket EXCEPT ![v] = new],
             new # None => new.used = 0 /\ new.quota <= high'[v],
             high' \in [Users -> Nat], \A u \in Users : high'[u] >= high[u]
      PROVE  IInv'
  <2>1. exact' \in [Users -> BOOLEAN] /\ \A u \in Users : exact'[u] => exact[u] /\ u # v
    BY <1>8, ExactFacts
  <2>2. Typed'
    BY <1>1, <1>2, <1>8, <2>1 DEF Typed
  <2>3. ASSUME NEW u \in Users  PROVE Account(u)'
    <3>1. /\ Account(u) /\ Bucket(u).used \in Nat /\ Bucket(u).quota \in Nat
          /\ high[u] \in Nat /\ high'[u] \in Nat /\ high'[u] >= high[u]
      BY <1>3, <1>8
    <3>2. FreeQuota <= high'[u]
      BY <1>5, <3>1 DEF Account
    <3>3. Bucket(u).used + Cardinality(Pending(u)) <= high'[u] + Slack'
      BY <1>4, <1>5, <3>1 DEF Account
    <3>4. 0 + Cardinality(Pending(u)) <= high'[u] + Slack'
      BY <1>4, <1>5, <3>1, <3>3
    <3>5. CASE u = v
      <4>1. Bucket(u)'.used = 0 /\ Bucket(u)'.quota <= high'[u]
        BY <1>8, <3>2, <3>5 DEF Typed, Bucket, FreeBucket
      <4> QED  BY <1>3, <2>1, <3>2, <3>4, <3>5, <4>1 DEF Account
    <3>6. CASE u # v
      <4>1. Bucket(u)' = Bucket(u)
        BY <1>8, <3>6 DEF Typed, Bucket
      <4>2. Bucket(u).quota <= high'[u]
        BY <3>1 DEF Account
      <4> QED  BY <1>3, <2>1, <3>1, <3>2, <3>3, <4>1, <4>2 DEF Account
    <3> QED  BY <3>5, <3>6
  <2> QED  BY <1>6, <2>2, <2>3
<1>9. CASE DeleteBucket(v)
  <2>1. bucket' = [bucket EXCEPT ![v] = None] /\ Inexact({v}) /\ high' = high
    BY <1>9 DEF DeleteBucket
  <2>2. high' \in [Users -> Nat] /\ \A u \in Users : high'[u] >= high[u]
    BY <1>3, <2>1 DEF Typed
  <2> QED  BY <1>8, <2>1, <2>2
<1>10. ASSUME NEW q \in Quotas, CreateMisreads(v, q)  PROVE IInv'
  <2> DEFINE new == [FreeBucket EXCEPT !.quota = q]
  <2>1. bucket' = [bucket EXCEPT ![v] = new] /\ Inexact({v}) /\ Raise(v, q)
    BY <1>10 DEF CreateMisreads
  <2>2. q \in Nat
    BY QuotasAssumption
  <2>3. new \in [quota : Nat, used : Nat, files : Nat] /\ new.used = 0 /\ new.quota = q
    BY <2>2 DEF FreeBucket
  <2> HIDE DEF new
  <2>4. high' \in [Users -> Nat] /\ q <= high'[v] /\ \A u \in Users : high'[u] >= high[u]
    BY <2>1, <2>2 DEF Raise, Typed
  <2> QED  BY <1>8, <2>1, <2>3, <2>4
<1> QED  BY <1>7, <1>9, <1>10 DEF Buckets

LEMMA StepGood == IInv /\ [Next]_vars => IInv'
<1> SUFFICES ASSUME IInv, [Next]_vars  PROVE IInv'
  OBVIOUS
<1>1. ASSUME NEW c \in Clients, Handler(c) \/ Fails(c)  PROVE IInv'
  <2>1. ASSUME NEW v \in Callers, NEW o \in Objects, DeleteBegins(c, v, o) \/ DeleteMisreads(c, v, o)
        PROVE  IInv'
    BY <2>1, DeleteBeginGood
  <2>2. ASSUME NEW v \in Callers, NEW o \in Objects, NEW s \in Sizes,
               PutCheck(c, v, o, s) \/ PutCheckMisreads(c, v, o, s)
        PROVE  IInv'
    BY <2>2, PutBeginGood
  <2>3. CASE PutStore(c)
    BY <2>3, PutStoreGood
  <2>4. CASE PutUsage(c)
    BY <2>4, PutUsageGood
  <2>5. CASE DeleteFile(c)
    BY <2>5, DeleteFileGood
  <2>6. CASE DeleteGone(c)
    BY <2>6, DeleteGoneGood
  <2>7. CASE DeleteUsage(c)
    BY <2>7, DeleteUsageGood
  <2>8. CASE UsageFails(c)
    BY <2>8, UsageFailsGood
  <2>9. CASE DeleteMissing(c) \/ StoreFails(c)
    BY <2>9, EndGood
  <2>10. CASE \/ PutMeta(c) \/ PutMetaFails(c)
              \/ DeleteMetaRead(c) \/ DeleteMeta(c) \/ DeleteMetaFails(c)
    BY <2>10, BetweenGood
  <2> QED  BY <1>1, <2>1, <2>2, <2>3, <2>4, <2>5, <2>6, <2>7, <2>8, <2>9, <2>10 DEF Handler, Fails
<1>2. ASSUME NEW u \in Users, Buckets(u)  PROVE IInv'
  BY <1>2, BucketsGood
<1>3. CASE UNCHANGED vars
  <2> USE <1>3 DEF vars
  <2>1. Typed' /\ Indexed'
    BY DEF IInv, Typed, Indexed
  <2>2. ASSUME NEW u \in Users  PROVE Account(u)'
    <3>1. /\ Bucket(u)' = Bucket(u) /\ Stored(u)' = Stored(u) /\ Pending(u)' = Pending(u)
          /\ ToAdd(u)' = ToAdd(u) /\ ToTake(u)' = ToTake(u) /\ Slack' = Slack
      BY DEF Bucket, Stored, Pending, ToAdd, ToTake, Outstanding, Slack
    <3> QED  BY <3>1 DEF IInv, Account
  <2> QED  BY <2>1, <2>2 DEF IInv
<1>4. CASE Crash
  BY <1>4, CrashGood
<1> QED  BY <1>1, <1>2, <1>3, <1>4 DEF Next

LEMMA Invariance == Spec => []IInv
  BY InitGood, StepGood, PTL DEF Spec

-----------------------------------------------------------------------------
(* The properties                                                          *)

\* Usage counts a user's files, up to the handlers under way, unless one of
\* the named mishaps has happened to the user: in all other cases, whatever
\* else races or fails, bucket.Store.AddUsage is called neither too often nor
\* too little by the upload and delete handlers.
THEOREM UsageCounts == Spec => []UsageExact
<1>1. IInv => UsageExact
  BY DEF IInv, Account, UsageExact
<1> QED  BY <1>1, Invariance, PTL

\* Uploads that pass bucket.Store.CheckQuota together exceed the quota by no
\* more than one upload for each of the handlers but one, and one for each
\* failure.
THEOREM OverrunBounded == Spec => []QuotaOverrun
<1>1. IInv => QuotaOverrun
  <2> SUFFICES ASSUME IInv, NEW u \in Users
               PROVE  Bucket(u).used <= high[u] + Slack
    BY DEF QuotaOverrun, Slack
  <2>1. Cardinality(Pending(u)) \in Nat
    BY ByteSets, FiniteAssumption DEF Pending, Outstanding
  <2>2. Bucket(u).used \in Nat /\ high[u] \in Nat /\ Account(u) /\ Slack \in Int
    BY SlackInt, QuotasAssumption DEF IInv, Typed, Bucket, FreeBucket
  <2> QED  BY <2>1, <2>2 DEF Account
<1> QED  BY <1>1, Invariance, PTL

\* No object of a user is missing from the index by user, although
\* metadata.Delete works in two transactions.
THEOREM IndexHasAll == Spec => []IndexComplete
<1>1. IInv => IndexComplete
  <2> SUFFICES ASSUME IInv  PROVE IndexComplete
    OBVIOUS
  <2>1. Requests \subseteq [pc : {"idle", "store", "putmeta", "putusage", "unlink", "metaread",
                                  "metadel", "delusage"},
                            user : Callers, obj : Objects \cup {None},
                            size : Sizes \cup {0}, whose : Callers]
    BY DEF Requests, Puts, Deletes
  <2>2. TypeOK
    BY <2>1 DEF IInv, Typed, TypeOK
  <2> QED  BY <2>2 DEF IInv, Indexed, IndexComplete
<1> QED  BY <1>1, Invariance, PTL

-----------------------------------------------------------------------------
(* Usage events: the inductive invariant                                   *)

\* OnDiskUnless from the moment of writing on.
KeptUnless == \A e \in Ids : at[e] \in {"written", "counted"} => e \in disk \/ NotKept(e)

\* An event that can still be counted is not in the buffer; the buffer is in the
\* order in which a crowded event leaves it.
BufferInOrder ==
  /\ \A i \in DOMAIN events : at[events[i]] \in {"counted", "dead"}
  /\ \A i, j \in DOMAIN events :
       i < j => /\ events[i] # events[j]
                /\ at[events[i]] = "counted" => After(events[j], events[i])

\* The history of counting.
CountedInOrder ==
  /\ \A i \in DOMAIN order : at[order[i]] = "counted"
  /\ \A i, j \in DOMAIN order : order[i] = order[j] => i = j
  /\ \A e \in Counted : \E i \in DOMAIN order : order[i] = e
  /\ restarts <= faults
  /\ \A e \in Ids : lives[e] <= restarts

\* What is counted is in the buffer, or a summary may lack it.
LackingForAReason == \A e \in Counted : e \in InBuffer \/ MayLack(e)

MeteringIInv == MeteringTypeOK /\ KeptUnless /\ BufferInOrder /\ CountedInOrder /\ LackingForAReason

-----------------------------------------------------------------------------
(* Ranks                                                                   *)

\* R is a strict total order on S.
Orders(R, S) ==
  /\ \A x, y \in S : <<x, y>> \in R => <<y, x>> \notin R
  /\ \A x, y, z \in S : <<x, y>> \in R /\ <<y, z>> \in R => <<x, z>> \in R
  /\ \A x, y \in S : x = y \/ <<x, y>> \in R \/ <<y, x>> \in R

Above(R, S, x) == {y \in S : <<x, y>> \in R}
Rank(R, S, x) == Cardinality(Above(R, S, x))

LEMMA NumbersBelow ==
  ASSUME NEW n \in Nat
  PROVE  IsFiniteSet(0 .. n - 1) /\ Cardinality(0 .. n - 1) = n
<1>1. 0 \in Int /\ n - 1 \in Int
  OBVIOUS
<1>2. /\ IsFiniteSet(0 .. n - 1)
      /\ Cardinality(0 .. n - 1) = IF 0 > n - 1 THEN 0 ELSE (n - 1) - 0 + 1
  BY <1>1, FS_Interval
<1>3. QED
  BY <1>2

\* The higher of two has the lower rank, and less than all have a higher one.
LEMMA RankFacts ==
  ASSUME NEW S, IsFiniteSet(S), NEW R, Orders(R, S)
  PROVE  /\ \A x \in S : Rank(R, S, x) \in 0 .. Cardinality(S) - 1
         /\ \A x, y \in S : <<x, y>> \in R => Rank(R, S, y) < Rank(R, S, x)
<1>1. ASSUME NEW x \in S
      PROVE  IsFiniteSet(Above(R, S, x)) /\ Rank(R, S, x) \in 0 .. Cardinality(S) - 1
  <2>1. Above(R, S, x) \in SUBSET S /\ x \notin Above(R, S, x)
    BY DEF Above, Orders
  <2>2. /\ IsFiniteSet(Above(R, S, x)) /\ Cardinality(Above(R, S, x)) <= Cardinality(S)
        /\ Cardinality(S) # Cardinality(Above(R, S, x))
    BY <2>1, FS_Subset
  <2>3. Cardinality(Above(R, S, x)) \in Nat /\ Cardinality(S) \in Nat
    BY <2>2, FS_CardinalityType
  <2>4. QED
    BY <2>2, <2>3 DEF Rank
<1>2. ASSUME NEW x \in S, NEW y \in S, <<x, y>> \in R
      PROVE  Rank(R, S, y) < Rank(R, S, x)
  <2>1. Above(R, S, y) \in SUBSET Above(R, S, x)
    BY <1>2 DEF Above, Orders
  <2>2. y \in Above(R, S, x) /\ y \notin Above(R, S, y)
    BY <1>2 DEF Above, Orders
  <2>3. /\ Cardinality(Above(R, S, y)) <= Cardinality(Above(R, S, x))
        /\ Cardinality(Above(R, S, y)) # Cardinality(Above(R, S, x))
    BY <2>1, <2>2, <1>1, FS_Subset
  <2>4. Cardinality(Above(R, S, x)) \in Nat /\ Cardinality(Above(R, S, y)) \in Nat
    BY <1>1, FS_CardinalityType
  <2>5. QED
    BY <2>3, <2>4 DEF Rank
<1>3. QED
  BY <1>1, <1>2

\* The ranks of S are all numbers below its cardinality, each once.
LEMMA RanksAreNumbers ==
  ASSUME NEW S, IsFiniteSet(S), NEW R, Orders(R, S)
  PROVE  [x \in S |-> Rank(R, S, x)] \in Bijection(S, 0 .. Cardinality(S) - 1)
<1> DEFINE N == 0 .. Cardinality(S) - 1
           rank == [x \in S |-> Rank(R, S, x)]
<1>1. rank \in [S -> N]
  BY RankFacts
<1>2. \A x, y \in S : rank[x] = rank[y] => x = y
  <2> SUFFICES ASSUME NEW x \in S, NEW y \in S, x # y
               PROVE  Rank(R, S, x) # Rank(R, S, y)
    OBVIOUS
  <2>1. <<x, y>> \in R \/ <<y, x>> \in R
    BY DEF Orders
  <2>2. Rank(R, S, x) \in Int /\ Rank(R, S, y) \in Int
    BY RankFacts
  <2>3. Rank(R, S, y) < Rank(R, S, x) \/ Rank(R, S, x) < Rank(R, S, y)
    BY <2>1, RankFacts
  <2>4. QED
    BY <2>2, <2>3
<1>3. rank \in Injection(S, N)
  <2> HIDE DEF N
  <2>1. DOMAIN rank = S
    OBVIOUS
  <2>2. IsInjective(rank)
    BY <1>2, <2>1 DEF IsInjective
  <2>3. QED
    BY <1>1, <2>2 DEF Injection
<1>4. IsFiniteSet(N) /\ Cardinality(N) = Cardinality(S)
  BY FS_CardinalityType, NumbersBelow
<1>5. rank \in Surjection(S, N)
  BY <1>3, <1>4, FS_Injection
<1>6. QED
  BY <1>3, <1>5 DEF Bijection

\* As many of S as wanted have a rank below n, and they are above all others.
LEMMA LowRanks ==
  ASSUME NEW S, IsFiniteSet(S), NEW R, Orders(R, S), NEW n \in Nat
  PROVE  LET T == {x \in S : Rank(R, S, x) < n}
         IN  /\ IsFiniteSet(T) /\ Orders(R, T)
             /\ Cardinality(T) = IF Cardinality(S) < n THEN Cardinality(S) ELSE n
             /\ \A x \in S \ T, y \in T : <<x, y>> \in R
<1> DEFINE T == {x \in S : Rank(R, S, x) < n}
           low == [x \in T |-> Rank(R, S, x)]
           rank == [x \in S |-> Rank(R, S, x)]
           M == IF Cardinality(S) < n THEN Cardinality(S) ELSE n
<1>1. IsFiniteSet(T) /\ Orders(R, T)
  <2>1. T \in SUBSET S
    OBVIOUS
  <2>2. QED
    BY <2>1, FS_Subset DEF Orders
<1>2. \A x \in S : Rank(R, S, x) \in Nat /\ Rank(R, S, x) < Cardinality(S)
  BY RankFacts, FS_CardinalityType
<1>3. Cardinality(S) \in Nat
  BY FS_CardinalityType
<1>4. low \in [T -> 0 .. M - 1]
  BY <1>2, <1>3
<1>5. /\ \A x, y \in S : Rank(R, S, x) = Rank(R, S, y) => x = y
      /\ \A k \in 0 .. Cardinality(S) - 1 : \E x \in S : Rank(R, S, x) = k
  <2>1. rank \in Bijection(S, 0 .. Cardinality(S) - 1)
    BY RanksAreNumbers
  <2>2. \A x \in S : rank[x] = Rank(R, S, x)
    OBVIOUS
  <2> HIDE DEF rank
  <2>3. /\ \A x, y \in S : rank[x] = rank[y] => x = y
        /\ \A k \in 0 .. Cardinality(S) - 1 : \E x \in S : rank[x] = k
    BY <2>1 DEF Bijection, Injection, Surjection, IsInjective
  <2>4. QED
    BY <2>2, <2>3
<1>6. /\ \A x, y \in T : low[x] = low[y] => x = y
      /\ \A k \in 0 .. M - 1 : \E x \in T : low[x] = k
  <2>1. \A x, y \in T : low[x] = low[y] => x = y
    BY <1>5
  <2>2. ASSUME NEW k \in 0 .. M - 1
        PROVE  \E x \in T : low[x] = k
    <3>1. k \in 0 .. Cardinality(S) - 1 /\ k < n
      BY <1>3
    <3>2. PICK x \in S : Rank(R, S, x) = k
      BY <3>1, <1>5
    <3>3. QED
      BY <3>1, <3>2
  <2>3. QED
    BY <2>1, <2>2
<1>7. low \in Bijection(T, 0 .. M - 1)
  <2>1. DOMAIN low = T
    OBVIOUS
  <2> HIDE DEF low, T, M
  <2>2. QED
    BY <1>4, <1>6, <2>1 DEF Bijection, Injection, Surjection, IsInjective
<1>8. Cardinality(T) = M
  <2>1. ExistsBijection(T, 0 .. M - 1)
    BY <1>7 DEF ExistsBijection
  <2>2. Cardinality(0 .. M - 1) = Cardinality(T)
    BY <2>1, <1>1, FS_Bijection
  <2>3. M \in Nat
    BY <1>3
  <2> HIDE DEF M, T
  <2>4. Cardinality(0 .. M - 1) = M
    BY <2>3, NumbersBelow
  <2>5. QED
    BY <2>2, <2>4
<1>9. ASSUME NEW x \in S \ T, NEW y \in T
      PROVE  <<x, y>> \in R
  <2>1. ~(Rank(R, S, x) < Rank(R, S, y))
    BY <1>2
  <2>2. x # y /\ ~(<<y, x>> \in R)
    BY <2>1, RankFacts
  <2>3. QED
    BY <2>2 DEF Orders
<1>10. QED
  BY <1>1, <1>8, <1>9

-----------------------------------------------------------------------------
(* What warmup loads                                                       *)

ToNewer == {p \in Ids \X Ids : Older(p[1], p[2])}
ToOlder == {p \in Ids \X Ids : Older(p[2], p[1])}

DistinctKeys(S) == \A e, f \in S : Key(e) = Key(f) => e = f

LEMMA EventFacts ==
  ASSUME MeteringTypeOK
  PROVE  /\ \A e \in Ids : /\ ev[e].ts \in Nat /\ ev[e].type \in Nat
                           /\ ev[e].user \in UserIDs /\ ev[e].ts \in 1..MaxTime
                           /\ ev[e].type \in Types
         /\ IsFiniteSet(Ids) /\ Len(ev) \in Nat
<1> DEFINE Events == [user : UserIDs, type : Types, ts : 1..MaxTime]
<1>1. ev \in Seq(Events)
  BY DEF MeteringTypeOK
<1>2. \A e \in Ids : ev[e] \in Events
  <2> HIDE DEF Events
  <2>1. QED
    BY <1>1 DEF Ids
<1>3. Len(ev) \in Nat
  BY <1>1
<1>4. IsFiniteSet(Ids)
  <2>1. 1 \in Int /\ Len(ev) \in Int
    BY <1>3
  <2>2. QED
    BY <2>1, FS_Interval DEF Ids
<1>5. 1..MaxTime \subseteq Nat
  BY MeteringBoundsAssumption
<1>6. QED
  BY <1>2, <1>3, <1>4, <1>5, TypesAssumption

\* Of events with different keys, one is always the older.
LEMMA OlderOrders ==
  ASSUME MeteringTypeOK, NEW S \in SUBSET Ids, DistinctKeys(S)
  PROVE  Orders(ToNewer, S) /\ Orders(ToOlder, S) /\ IsFiniteSet(S)
<1>1. \A e, f \in S : /\ <<e, f>> \in ToNewer <=> Older(e, f)
                      /\ <<e, f>> \in ToOlder <=> Older(f, e)
  BY DEF ToNewer, ToOlder
<1>2. \A e \in S : ev[e].ts \in Nat /\ ev[e].type \in Nat
  BY EventFacts
<1>3. \A e, f \in S : Older(e, f) => ~Older(f, e)
  BY <1>2 DEF Older
<1>4. \A e, f, g \in S : Older(e, f) /\ Older(f, g) => Older(e, g)
  BY <1>2 DEF Older
<1>5. \A e, f \in S : e = f \/ Older(e, f) \/ Older(f, e)
  BY <1>2 DEF Older, DistinctKeys, Key
<1>6. IsFiniteSet(S)
  BY EventFacts, FS_Subset
<1>7. QED
  BY <1>1, <1>3, <1>4, <1>5, <1>6 DEF Orders

LEMMA LeastFacts ==
  ASSUME NEW n \in Nat \ {0}
  PROVE  Least(n) \in Nat \ {0} /\ Least(n) <= Capacity /\ Least(n) <= n /\ Capacity \in Nat \ {0}
BY NumbersAssumption DEF Least

\* Newest(S, n) has the wanted number of events of S, each once and the oldest first;
\* the others are older than all of them.
LEMMA NewestFacts ==
  ASSUME MeteringTypeOK, NEW S \in SUBSET Ids, DistinctKeys(S), NEW n \in Nat \ {0}
  PROVE  LET s == Newest(S, n)
         IN  /\ s \in Seq(S)
             /\ Len(s) = IF Cardinality(S) < Least(n) THEN Cardinality(S) ELSE Least(n)
             /\ \A i, j \in DOMAIN s : i < j => Older(s[i], s[j]) /\ s[i] # s[j]
             /\ \A e \in S : \/ \E i \in DOMAIN s : s[i] = e
                             \/ /\ Len(s) = Least(n)
                                /\ \A i \in DOMAIN s : Older(e, s[i])
<1> DEFINE kept == {e \in S : Cardinality({f \in S : Older(e, f)}) < Least(n)}
           N == Cardinality(kept)
           s == [i \in 1 .. N |->
                   CHOOSE e \in kept : Cardinality({f \in kept : Older(f, e)}) = i - 1]
<1>1. Newest(S, n) = s
  BY DEF Newest
<1>2. Orders(ToNewer, S) /\ IsFiniteSet(S)
  BY OlderOrders
<1>3. \A e, f \in Ids : /\ <<e, f>> \in ToNewer <=> Older(e, f)
                        /\ <<e, f>> \in ToOlder <=> Older(f, e)
  BY DEF ToNewer, ToOlder
<1>4. kept = {e \in S : Rank(ToNewer, S, e) < Least(n)}
  <2>1. \A e \in S : {f \in S : Older(e, f)} = Above(ToNewer, S, e)
    BY <1>3 DEF Above
  <2>2. QED
    BY <2>1 DEF Rank
<1>5. /\ N = IF Cardinality(S) < Least(n) THEN Cardinality(S) ELSE Least(n)
      /\ \A e \in S \ kept, f \in kept : Older(e, f)
  <2>1. Least(n) \in Nat
    BY LeastFacts
  <2> DEFINE T == {e \in S : Rank(ToNewer, S, e) < Least(n)}
  <2>2. /\ Cardinality(T) = IF Cardinality(S) < Least(n) THEN Cardinality(S) ELSE Least(n)
        /\ \A e \in S \ T, f \in T : <<e, f>> \in ToNewer
    BY <2>1, <1>2, LowRanks
  <2>3. T \subseteq Ids
    OBVIOUS
  <2> HIDE DEF kept, T
  <2>4. kept = T
    BY <1>4 DEF T
  <2>5. QED
    BY <2>2, <2>3, <2>4, <1>3
<1>6. kept \in SUBSET Ids /\ DistinctKeys(kept)
  BY DEF DistinctKeys
<1> DEFINE rank(e) == Cardinality({f \in kept : Older(f, e)})
<1>7. /\ IsFiniteSet(kept) /\ N \in Nat
      /\ \A e \in kept : rank(e) \in 0 .. N - 1
      /\ \A e, f \in kept : Older(f, e) => rank(f) < rank(e)
      /\ \A k \in 0 .. N - 1 : \E e \in kept : rank(e) = k
  <2> HIDE DEF kept
  <2>1. Orders(ToOlder, kept) /\ IsFiniteSet(kept)
    BY <1>6, OlderOrders
  <2>2. \A e \in kept : {f \in kept : Older(f, e)} = Above(ToOlder, kept, e)
    BY <1>3, <1>6 DEF Above
  <2>3. \A e \in kept : rank(e) = Rank(ToOlder, kept, e)
    BY <2>2 DEF Rank
  <2>4. /\ \A e \in kept : Rank(ToOlder, kept, e) \in 0 .. N - 1
        /\ \A e, f \in kept : <<e, f>> \in ToOlder => Rank(ToOlder, kept, f) < Rank(ToOlder, kept, e)
    BY <2>1, RankFacts
  <2> DEFINE R == [e \in kept |-> Rank(ToOlder, kept, e)]
  <2>5. R \in Bijection(kept, 0 .. N - 1)
    BY <2>1, RanksAreNumbers
  <2>6. \A e \in kept : R[e] = Rank(ToOlder, kept, e)
    OBVIOUS
  <2>7. \A k \in 0 .. N - 1 : \E e \in kept : R[e] = k
    <3> HIDE DEF R
    <3>1. QED
      BY <2>5 DEF Bijection, Surjection
  <2>8. N \in Nat
    BY <2>1, FS_CardinalityType
  <2> HIDE DEF R, rank, N
  <2>9. \A e, f \in kept : Older(f, e) => rank(f) < rank(e)
    BY <2>3, <2>4, <1>3, <1>6
  <2>10. QED
    BY <2>1, <2>3, <2>4, <2>6, <2>7, <2>8, <2>9
<1>8. \A e, f \in kept : e = f \/ Older(e, f) \/ Older(f, e)
  <2> HIDE DEF kept
  <2>1. Orders(ToOlder, kept)
    BY <1>6, OlderOrders
  <2>2. QED
    BY <2>1, <1>3, <1>6 DEF Orders
<1> HIDE DEF kept, N
<1>9. \A i \in 1 .. N : s[i] \in kept /\ rank(s[i]) = i - 1
  <2> SUFFICES ASSUME NEW i \in 1 .. N PROVE s[i] \in kept /\ rank(s[i]) = i - 1
    OBVIOUS
  <2>1. i - 1 \in 0 .. N - 1
    BY <1>7
  <2>2. \E e \in kept : rank(e) = i - 1
    BY <2>1, <1>7
  <2>3. s[i] = CHOOSE e \in kept : rank(e) = i - 1
    OBVIOUS
  <2> HIDE DEF rank, s
  <2>4. QED
    BY <2>2, <2>3
<1> HIDE DEF rank
<1>10. s \in Seq(kept) /\ Len(s) = N /\ DOMAIN s = 1 .. N
  <2>1. s \in [1 .. N -> kept]
    BY <1>9
  <2> HIDE DEF s
  <2>2. QED
    BY <2>1, <1>7
<1> HIDE DEF s
<1>11. \A i, j \in 1 .. N : i < j => Older(s[i], s[j]) /\ s[i] # s[j]
  <2> SUFFICES ASSUME NEW i \in 1 .. N, NEW j \in 1 .. N, i < j
               PROVE  Older(s[i], s[j]) /\ s[i] # s[j]
    OBVIOUS
  <2>1. rank(s[i]) = i - 1 /\ rank(s[j]) = j - 1 /\ s[i] \in kept /\ s[j] \in kept
    BY <1>9
  <2>2. s[i] # s[j] /\ ~(rank(s[j]) < rank(s[i]))
    BY <2>1
  <2>3. QED
    BY <2>1, <2>2, <1>7, <1>8
<1>12. \A e \in kept : \E i \in 1 .. N : s[i] = e
  <2> SUFFICES ASSUME NEW e \in kept PROVE \E i \in 1 .. N : s[i] = e
    OBVIOUS
  <2>1. rank(e) \in 0 .. N - 1
    BY <1>7
  <2>2. PICK i \in 1 .. N : i - 1 = rank(e)
    <3>1. rank(e) + 1 \in 1 .. N /\ (rank(e) + 1) - 1 = rank(e)
      BY <2>1, <1>7
    <3>2. QED
      BY <3>1
  <2>3. rank(s[i]) = rank(e) /\ s[i] \in kept
    BY <2>2, <1>9
  <2>4. ~(rank(s[i]) < rank(e)) /\ ~(rank(e) < rank(s[i]))
    BY <2>1, <2>3
  <2>5. s[i] = e
    BY <2>3, <2>4, <1>7, <1>8
  <2>6. QED
    BY <2>5
<1>13. ASSUME NEW e \in S, e \notin kept
       PROVE  N = Least(n) /\ \A i \in 1 .. N : Older(e, s[i])
  <2>1. \A i \in 1 .. N : Older(e, s[i])
    BY <1>13, <1>5, <1>9
  <2>2. Cardinality(S) # N
    <3>1. kept \in SUBSET S
      BY DEF kept
    <3>2. QED
      BY <3>1, <1>13, <1>2, FS_Subset DEF N
  <2>3. QED
    BY <2>1, <2>2, <1>5
<1>14. s \in Seq(S)
  <2>1. kept \subseteq S
    BY DEF kept
  <2>2. QED
    BY <2>1, <1>10
<1>15. QED
  BY <1>1, <1>5, <1>10, <1>11, <1>12, <1>13, <1>14

-----------------------------------------------------------------------------
(* Steps that count nothing                                                *)

LEMMA AppendFacts ==
  ASSUME NEW S, NEW n \in Nat, NEW s \in [1 .. n -> S], NEW x \in S
  PROVE  /\ s \in Seq(S) /\ Len(s) = n
         /\ Append(s, x) \in [1 .. n + 1 -> S]
         /\ \A i \in 1 .. n : Append(s, x)[i] = s[i]
         /\ Append(s, x)[n + 1] = x
<1>1. s \in Seq(S) /\ Len(s) = n
  OBVIOUS
<1>2. Append(s, x) \in Seq(S) /\ Len(Append(s, x)) = n + 1
  BY <1>1
<1>3. Append(s, x) \in [1 .. n + 1 -> S]
  <2>1. \A t \in Seq(S) : t \in [1 .. Len(t) -> S]
    OBVIOUS
  <2> DEFINE t == Append(s, x)
  <2> HIDE DEF t
  <2>2. t \in Seq(S) /\ Len(t) = n + 1
    BY <1>2 DEF t
  <2>3. t \in [1 .. n + 1 -> S]
    BY <2>1, <2>2
  <2>4. QED
    BY <2>3 DEF t
<1>4. /\ \A i \in 1 .. n : Append(s, x)[i] = s[i]
      /\ Append(s, x)[n + 1] = x
  BY <1>1
<1>5. QED
  BY <1>1, <1>3, <1>4

\* The reasons for which an event is not on disk last.
LEMMA ReasonsLast ==
  ASSUME NEW e \in Ids, NotKept(e), MeteringTypeOK, MeteringTypeOK',
         Ids \subseteq Ids', \A f \in Ids : ev'[f] = ev[f],
         failed \subseteq failed', now <= now', wrote'[e] = wrote[e],
         \A f \in Ids : wrote[f] # 0 => wrote'[f] # 0
  PROVE  NotKept(e)'
<1>1. wrote[e] \in Nat /\ now \in Nat /\ now' \in Nat /\ TTL \in Nat
  <2>1. wrote \in [Ids -> 0..MaxTime] /\ now \in 1..MaxTime /\ now' \in 1..MaxTime
    BY DEF MeteringTypeOK
  <2>2. MaxTime \in Nat /\ TTL \in Nat
    BY MeteringBoundsAssumption, NumbersAssumption
  <2>3. QED
    BY <2>1, <2>2
<1>2. CASE ev[e].type \in Generation \/ e \in failed
  BY <1>2 DEF NotKept
<1>3. CASE Overwritten(e)
  BY <1>3 DEF NotKept, Overwritten, Key
<1>4. CASE Expired(e)
  BY <1>4, <1>1 DEF NotKept, Expired
<1>5. QED
  BY <1>2, <1>3, <1>4 DEF NotKept

\* An event that is counted stays so, and what the buffer holds, unless something is counted.
LEMMA NothingCounted ==
  ASSUME MeteringIInv, MeteringTypeOK', Ids \subseteq Ids',
         \A e \in Ids : /\ ev'[e] = ev[e] /\ lives'[e] = lives[e]
                        /\ at[e] \in {"counted", "dead"} => at'[e] = at[e]
                        /\ at'[e] = "counted" => at[e] = "counted",
         \A e \in Ids' \ Ids : at'[e] # "counted" /\ lives'[e] = 0,
         UNCHANGED <<events, order, restarts>>, restarts <= faults',
         \A e \in Counted : NotKept(e) => NotKept(e)'
  PROVE  BufferInOrder' /\ CountedInOrder' /\ LackingForAReason'
<1>1. events \in Seq(Ids) /\ order \in Seq(Ids) /\ restarts \in Nat
  BY MeteringBoundsAssumption DEF MeteringIInv, MeteringTypeOK
<1>2. /\ \A i \in DOMAIN events : events[i] \in Ids
      /\ \A i \in DOMAIN order : order[i] \in Ids
  BY <1>1
<1>3. Counted' = Counted
  BY DEF Counted
<1>4. \A e, f \in Ids : (After(f, e) <=> After(f, e)')
  BY <1>3 DEF After, Older, Position
<1>5. InBuffer' = InBuffer /\ InBuffer \subseteq Ids
  BY <1>2 DEF InBuffer
<1>6. BufferInOrder'
  <2>1. \A i \in DOMAIN events : at'[events[i]] = at[events[i]]
    BY <1>2 DEF MeteringIInv, BufferInOrder
  <2>2. QED
    BY <1>2, <1>4, <2>1 DEF MeteringIInv, BufferInOrder
<1>7. CountedInOrder'
  <2>1. \A i \in DOMAIN order : at'[order[i]] = "counted"
    BY <1>2 DEF MeteringIInv, CountedInOrder
  <2>2. \A e \in Ids' : lives'[e] <= restarts'
    BY <1>1 DEF MeteringIInv, CountedInOrder
  <2>3. QED
    BY <1>3, <2>1, <2>2 DEF MeteringIInv, CountedInOrder
<1>8. LackingForAReason'
  <2> SUFFICES ASSUME NEW e \in Counted, e \notin InBuffer
               PROVE  MayLack(e)'
    BY <1>3, <1>5 DEF LackingForAReason
  <2>1. MayLack(e) /\ e \in Ids
    BY DEF MeteringIInv, LackingForAReason, Counted
  <2>2. CASE Crowded(e)
    BY <2>1, <2>2, <1>4, <1>5 DEF MayLack, Crowded, Least
  <2>3. CASE lives[e] < restarts /\ NotKept(e)
    BY <2>1, <2>3 DEF MayLack
  <2>4. QED
    BY <2>1, <2>2, <2>3 DEF MayLack
<1>9. QED
  BY <1>6, <1>7, <1>8

LEMMA RecordBeginsGood ==
  ASSUME MeteringIInv, NEW u \in UserIDs, NEW t \in Types, RecordBegins(u, t)
  PROVE  MeteringIInv'
<1> DEFINE E == [user |-> u, type |-> t, ts |-> now]
           Events == [user : UserIDs, type : Types, ts : 1..MaxTime]
           N == Len(ev)
<1>1. /\ N \in Nat /\ Ids = 1 .. N /\ ev \in Seq(Events)
      /\ at \in [Ids -> {"stamped", "written", "counted", "dead"}]
      /\ wrote \in [Ids -> 0..MaxTime] /\ lives \in [Ids -> 0..MaxFaults]
      /\ events \in Seq(Ids) /\ order \in Seq(Ids)
      /\ now \in 1..MaxTime /\ restarts \in Nat /\ faults \in Nat
      /\ MaxEvents \in Nat /\ MaxFaults \in Nat /\ MaxTime \in Nat
  BY EventFacts, MeteringBoundsAssumption DEF MeteringIInv, MeteringTypeOK, Ids
<1>2. /\ N < MaxEvents
      /\ ev' = Append(ev, E) /\ at' = Append(at, FirstStep(t))
      /\ wrote' = Append(wrote, 0) /\ lives' = Append(lives, 0)
      /\ UNCHANGED <<now, disk, events, failed, order, restarts, faults>>
  BY DEF RecordBegins
<1>3. E \in Events /\ FirstStep(t) \in {"stamped", "written"}
  BY <1>1 DEF FirstStep
<1> HIDE DEF E, Events
<1>4. /\ ev' \in Seq(Events) /\ Len(ev') = N + 1 /\ Ids' = 1 .. N + 1
      /\ \A e \in Ids : ev'[e] = ev[e] /\ ev'[N + 1] = E
  BY <1>1, <1>2, <1>3 DEF Ids
<1>5. 0 \in 0..MaxTime /\ 0 \in 0..MaxFaults
  BY <1>1
<1>6. /\ at' \in [1 .. N + 1 -> {"stamped", "written", "counted", "dead"}]
      /\ \A e \in Ids : at'[e] = at[e]
      /\ at'[N + 1] = FirstStep(t)
  <2> DEFINE S == {"stamped", "written", "counted", "dead"}
             first == FirstStep(t)
  <2>1. at \in [1 .. N -> S] /\ N \in Nat /\ first \in S
    BY <1>1, <1>3
  <2> HIDE DEF S, N, first
  <2>2. /\ Append(at, first) \in [1 .. N + 1 -> S]
        /\ \A e \in 1 .. N : Append(at, first)[e] = at[e]
        /\ Append(at, first)[N + 1] = first
    BY <2>1, AppendFacts
  <2>3. QED
    BY <1>1, <1>2, <2>2 DEF S, first
<1>7. /\ wrote' \in [1 .. N + 1 -> 0..MaxTime]
      /\ \A e \in Ids : wrote'[e] = wrote[e]
      /\ wrote'[N + 1] = 0
  <2> DEFINE S == 0..MaxTime
  <2>1. wrote \in [1 .. N -> S] /\ N \in Nat /\ 0 \in S
    BY <1>1, <1>5
  <2> HIDE DEF S, N
  <2>2. /\ Append(wrote, 0) \in [1 .. N + 1 -> S]
        /\ \A e \in 1 .. N : Append(wrote, 0)[e] = wrote[e]
        /\ Append(wrote, 0)[N + 1] = 0
    BY <2>1, AppendFacts
  <2>3. QED
    BY <1>1, <1>2, <2>2 DEF S
<1>8. /\ lives' \in [1 .. N + 1 -> 0..MaxFaults]
      /\ \A e \in Ids : lives'[e] = lives[e]
      /\ lives'[N + 1] = 0
  <2> DEFINE S == 0..MaxFaults
  <2>1. lives \in [1 .. N -> S] /\ N \in Nat /\ 0 \in S
    BY <1>1, <1>5
  <2> HIDE DEF S, N
  <2>2. /\ Append(lives, 0) \in [1 .. N + 1 -> S]
        /\ \A e \in 1 .. N : Append(lives, 0)[e] = lives[e]
        /\ Append(lives, 0)[N + 1] = 0
    BY <2>1, AppendFacts
  <2>3. QED
    BY <1>1, <1>2, <2>2 DEF S
<1>9. Ids \subseteq Ids' /\ Ids' \ Ids = {N + 1}
  BY <1>1, <1>4
<1>10. MeteringTypeOK'
  <2>1. disk' \subseteq Ids' /\ \A e, f \in disk' : Key(e)' = Key(f)' => e = f
    <3>1. disk' = disk /\ disk \subseteq Ids /\ \A e, f \in disk : Key(e) = Key(f) => e = f
      BY <1>2 DEF MeteringIInv, MeteringTypeOK
    <3>2. \A e \in Ids : Key(e)' = Key(e)
      BY <1>4 DEF Key
    <3>3. QED
      BY <3>1, <3>2, <1>9
  <2>2. events' \in Seq(Ids') /\ order' \in Seq(Ids')
    <3> HIDE DEF N
    <3>1. Ids \subseteq 1 .. N + 1 /\ Ids' = 1 .. N + 1
      BY <1>1, <1>4
    <3>2. events \in Seq(1 .. N + 1) /\ order \in Seq(1 .. N + 1)
      BY <3>1, <1>1
    <3>3. QED
      BY <3>1, <3>2, <1>2
  <2>3. ev' \in Seq(Events) /\ Len(ev') <= MaxEvents
    BY <1>1, <1>2, <1>4
  <2>4. QED
    BY <1>2, <1>4, <1>6, <1>7, <1>8, <1>9, <2>1, <2>2, <2>3
    DEF MeteringIInv, MeteringTypeOK, Events
<1>11. \A e \in Ids : NotKept(e) => NotKept(e)'
  <2>1. now <= now' /\ failed \subseteq failed'
    BY <1>1, <1>2
  <2>2. \A e \in Ids : wrote'[e] = wrote[e] /\ ev'[e] = ev[e]
    BY <1>4, <1>7
  <2>3. QED
    BY <1>9, <1>10, <2>1, <2>2, ReasonsLast DEF MeteringIInv
<1>12. KeptUnless'
  <2> SUFFICES ASSUME NEW e \in Ids', at'[e] \in {"written", "counted"}
               PROVE  e \in disk' \/ NotKept(e)'
    BY DEF KeptUnless
  <2>1. CASE e \in Ids
    BY <2>1, <1>2, <1>6, <1>11 DEF MeteringIInv, KeptUnless
  <2>2. CASE e = N + 1
    <3>1. FirstStep(t) = "written"
      BY <2>2, <1>3, <1>6
    <3>2. t \in Generation
      BY <3>1 DEF FirstStep
    <3>3. ev'[e].type = t
      <4>1. ev'[N + 1] = E
        BY <1>1, <1>2, <1>3
      <4>2. QED
        BY <2>2, <4>1 DEF E
    <3>4. QED
      BY <3>2, <3>3 DEF NotKept
  <2>3. QED
    BY <2>1, <2>2, <1>9
<1>13. BufferInOrder' /\ CountedInOrder' /\ LackingForAReason'
  <2>1. \A e \in Ids : /\ ev'[e] = ev[e] /\ lives'[e] = lives[e]
                       /\ at[e] \in {"counted", "dead"} => at'[e] = at[e]
                       /\ at'[e] = "counted" => at[e] = "counted"
    BY <1>4, <1>6, <1>8
  <2>2. \A e \in Ids' \ Ids : at'[e] # "counted" /\ lives'[e] = 0
    BY <1>3, <1>6, <1>8, <1>9
  <2>3. restarts <= faults'
    BY <1>2 DEF MeteringIInv, CountedInOrder
  <2>4. UNCHANGED <<events, order, restarts>> /\ \A e \in Counted : NotKept(e) => NotKept(e)'
    BY <1>2, <1>11 DEF Counted
  <2>5. QED
    BY <1>9, <1>10, <2>1, <2>2, <2>3, <2>4, NothingCounted
<1>14. QED
  BY <1>10, <1>12, <1>13 DEF MeteringIInv

\* The ranges of all variables but ev, disk and the sequences.
LEMMA RangeFacts ==
  ASSUME MeteringTypeOK
  PROVE  /\ now \in 1..MaxTime /\ MaxTime \in Nat /\ MaxFaults \in Nat /\ TTL \in Nat
         /\ at \in [Ids -> {"stamped", "written", "counted", "dead"}]
         /\ wrote \in [Ids -> 0..MaxTime] /\ lives \in [Ids -> 0..MaxFaults]
         /\ restarts \in 0..MaxFaults /\ faults \in 0..MaxFaults
         /\ disk \subseteq Ids /\ failed \subseteq Ids
<1>1. /\ now \in 1..MaxTime
      /\ at \in [Ids -> {"stamped", "written", "counted", "dead"}]
      /\ wrote \in [Ids -> 0..MaxTime] /\ lives \in [Ids -> 0..MaxFaults]
      /\ restarts \in 0..MaxFaults /\ faults \in 0..MaxFaults
      /\ disk \subseteq Ids /\ failed \subseteq Ids
  BY DEF MeteringTypeOK
<1>2. MaxTime \in Nat /\ MaxFaults \in Nat /\ TTL \in Nat
  BY MeteringBoundsAssumption, NumbersAssumption
<1>3. QED
  BY <1>1, <1>2

\* The same for steps that begin nothing.
LEMMA NothingBegun ==
  ASSUME MeteringIInv, MeteringTypeOK',
         UNCHANGED <<ev, events, order, lives, restarts>>, faults <= faults',
         \A e \in Ids : /\ at[e] \in {"counted", "dead"} => at'[e] = at[e]
                        /\ at'[e] = "counted" => at[e] = "counted",
         \A e \in Counted : NotKept(e) => NotKept(e)'
  PROVE  BufferInOrder' /\ CountedInOrder' /\ LackingForAReason'
<1>1. Ids' = Ids
  BY DEF Ids
<1>2. restarts <= faults'
  <2>1. restarts <= faults /\ restarts \in Nat /\ faults \in Nat /\ faults' \in Nat
    BY RangeFacts DEF MeteringIInv, MeteringTypeOK, CountedInOrder
  <2>2. QED
    BY <2>1
<1>3. \A e \in Ids : ev'[e] = ev[e] /\ lives'[e] = lives[e]
  OBVIOUS
<1>4. QED
  BY <1>1, <1>2, <1>3, NothingCounted

LEMMA PersistGood ==
  ASSUME MeteringIInv, NEW e \in Ids, Persist(e)
  PROVE  MeteringIInv'
<1>1. /\ at[e] = "stamped" /\ at' = [at EXCEPT ![e] = "written"]
      /\ disk' = {f \in disk : Key(f) # Key(e)} \cup {e}
      /\ wrote' = [wrote EXCEPT ![e] = now]
      /\ UNCHANGED <<now, ev, events, failed, order, lives, restarts, faults>>
  BY DEF Persist
<1>2. MeteringTypeOK
  BY DEF MeteringIInv
<1>3. Ids' = Ids /\ \A f \in Ids : Key(f)' = Key(f)
  BY <1>1 DEF Ids, Key
<1>4. now \in 0..MaxTime /\ now # 0
  BY <1>2, RangeFacts
<1>5. MeteringTypeOK'
  <2>1. disk' \subseteq Ids' /\ \A f, g \in disk' : Key(f)' = Key(g)' => f = g
    <3>1. disk \subseteq Ids /\ \A f, g \in disk : Key(f) = Key(g) => f = g
      BY <1>2 DEF MeteringTypeOK
    <3>2. QED
      BY <3>1, <1>1, <1>3
  <2>2. /\ at' \in [Ids' -> {"stamped", "written", "counted", "dead"}]
        /\ wrote' \in [Ids' -> 0..MaxTime]
    BY <1>1, <1>2, <1>3, <1>4, RangeFacts
  <2>3. QED
    BY <1>1, <1>2, <1>3, <2>1, <2>2 DEF MeteringTypeOK
<1>6. \A f \in Ids : wrote[f] # 0 => wrote'[f] # 0
  BY <1>1, <1>2, <1>4, RangeFacts
<1>7. \A f \in Ids \ {e} : NotKept(f) => NotKept(f)'
  <2>1. \A f \in Ids \ {e} : wrote'[f] = wrote[f]
    BY <1>1, <1>2, RangeFacts
  <2>2. now <= now'
    BY <1>1, <1>4
  <2>3. QED
    BY <1>1, <1>2, <1>3, <1>5, <1>6, <2>1, <2>2, ReasonsLast
<1>8. KeptUnless'
  <2> SUFFICES ASSUME NEW f \in Ids, at'[f] \in {"written", "counted"}, f # e, f \notin disk'
               PROVE  NotKept(f)'
    BY <1>1, <1>3 DEF KeptUnless
  <2>1. at[f] \in {"written", "counted"}
    BY <1>1, <1>2, RangeFacts
  <2>2. CASE f \in disk
    <3>1. Key(e)' = Key(f)' /\ e \in Ids' \ {f}
      BY <2>2, <1>1, <1>3
    <3>2. wrote'[e] # 0
      BY <1>1, <1>2, <1>4, RangeFacts
    <3>3. QED
      BY <3>1, <3>2 DEF NotKept, Overwritten
  <2>3. CASE NotKept(f)
    BY <2>3, <1>7
  <2>4. QED
    BY <2>1, <2>2, <2>3 DEF MeteringIInv, KeptUnless
<1>9. BufferInOrder' /\ CountedInOrder' /\ LackingForAReason'
  <2>1. \A f \in Ids : /\ at[f] \in {"counted", "dead"} => at'[f] = at[f]
                       /\ at'[f] = "counted" => at[f] = "counted"
    BY <1>1, <1>2, RangeFacts
  <2>2. \A f \in Counted : NotKept(f) => NotKept(f)'
    BY <1>1, <1>7 DEF Counted
  <2>3. faults <= faults'
    BY <1>1, <1>2, RangeFacts
  <2>4. QED
    BY <1>1, <1>5, <2>1, <2>2, <2>3, NothingBegun
<1>10. QED
  BY <1>5, <1>8, <1>9 DEF MeteringIInv

LEMMA PersistFailsGood ==
  ASSUME MeteringIInv, NEW e \in Ids, PersistFails(e)
  PROVE  MeteringIInv'
<1>1. /\ at[e] = "stamped" /\ at' = [at EXCEPT ![e] = "written"]
      /\ faults < MaxFaults /\ faults' = faults + 1
      /\ failed' = failed \cup {e}
      /\ UNCHANGED <<now, ev, disk, events, wrote, order, lives, restarts>>
  BY DEF PersistFails
<1>2. MeteringTypeOK
  BY DEF MeteringIInv
<1>3. Ids' = Ids /\ \A f \in Ids : Key(f)' = Key(f)
  BY <1>1 DEF Ids, Key
<1>4. MeteringTypeOK'
  <2>1. /\ at' \in [Ids' -> {"stamped", "written", "counted", "dead"}]
        /\ faults' \in 0..MaxFaults /\ failed' \subseteq Ids'
    BY <1>1, <1>2, <1>3, RangeFacts
  <2>2. QED
    BY <1>1, <1>2, <1>3, <2>1 DEF MeteringTypeOK
<1>5. \A f \in Ids : NotKept(f) => NotKept(f)'
  <2>1. now <= now'
    BY <1>1, <1>2, RangeFacts
  <2>2. QED
    BY <1>1, <1>2, <1>3, <1>4, <2>1, ReasonsLast
<1>6. KeptUnless'
  <2> SUFFICES ASSUME NEW f \in Ids, at'[f] \in {"written", "counted"}, f \notin disk
               PROVE  NotKept(f)'
    BY <1>1, <1>3 DEF KeptUnless
  <2>1. CASE f = e
    BY <2>1, <1>1 DEF NotKept
  <2>2. CASE f # e
    <3>1. at[f] \in {"written", "counted"}
      BY <2>2, <1>1, <1>2, RangeFacts
    <3>2. QED
      BY <3>1, <1>5 DEF MeteringIInv, KeptUnless
  <2>3. QED
    BY <2>1, <2>2
<1>7. BufferInOrder' /\ CountedInOrder' /\ LackingForAReason'
  <2>1. \A f \in Ids : /\ at[f] \in {"counted", "dead"} => at'[f] = at[f]
                       /\ at'[f] = "counted" => at[f] = "counted"
    BY <1>1, <1>2, RangeFacts
  <2>2. \A f \in Counted : NotKept(f) => NotKept(f)'
    BY <1>5 DEF Counted
  <2>3. faults <= faults'
    BY <1>1, <1>2, RangeFacts
  <2>4. QED
    BY <1>1, <1>4, <2>1, <2>2, <2>3, NothingBegun
<1>8. QED
  BY <1>4, <1>6, <1>7 DEF MeteringIInv

\* Time passes, and what is older than the TTL may go.
LEMMA TickGood ==
  ASSUME MeteringIInv, Tick
  PROVE  MeteringIInv'
<1>1. /\ now < MaxTime /\ now' = now + 1
      /\ UNCHANGED <<ev, at, disk, events, failed, wrote, order, lives, restarts, faults>>
  BY DEF Tick
<1>2. MeteringTypeOK
  BY DEF MeteringIInv
<1>3. Ids' = Ids /\ \A f \in Ids : Key(f)' = Key(f)
  BY <1>1 DEF Ids, Key
<1>4. now' \in 1..MaxTime /\ now <= now' /\ faults <= faults'
  BY <1>1, <1>2, RangeFacts
<1>5. MeteringTypeOK'
  BY <1>1, <1>2, <1>3, <1>4 DEF MeteringTypeOK
<1>6. \A f \in Ids : NotKept(f) => NotKept(f)'
  BY <1>1, <1>2, <1>3, <1>4, <1>5, ReasonsLast
<1>7. KeptUnless'
  BY <1>1, <1>3, <1>6 DEF MeteringIInv, KeptUnless
<1>8. BufferInOrder' /\ CountedInOrder' /\ LackingForAReason'
  <2>1. \A f \in Counted : NotKept(f) => NotKept(f)'
    BY <1>6 DEF Counted
  <2>2. QED
    BY <1>1, <1>4, <1>5, <2>1, NothingBegun
<1>9. QED
  BY <1>5, <1>7, <1>8 DEF MeteringIInv

LEMMA ExpireGood ==
  ASSUME MeteringIInv, NEW e \in Ids, Expire(e)
  PROVE  MeteringIInv'
<1>1. /\ now >= wrote[e] + TTL /\ disk' = disk \ {e}
      /\ UNCHANGED <<now, ev, at, events, failed, wrote, order, lives, restarts, faults>>
  BY DEF Expire
<1>2. MeteringTypeOK
  BY DEF MeteringIInv
<1>3. Ids' = Ids /\ \A f \in Ids : Key(f)' = Key(f)
  BY <1>1 DEF Ids, Key
<1>4. now <= now' /\ faults <= faults'
  BY <1>1, <1>2, RangeFacts
<1>5. MeteringTypeOK'
  <2>1. disk' \subseteq Ids' /\ \A f, g \in disk' : Key(f)' = Key(g)' => f = g
    BY <1>1, <1>2, <1>3 DEF MeteringTypeOK
  <2>2. QED
    BY <1>1, <1>2, <1>3, <2>1 DEF MeteringTypeOK
<1>6. \A f \in Ids : NotKept(f) => NotKept(f)'
  BY <1>1, <1>2, <1>3, <1>4, <1>5, ReasonsLast
<1>7. NotKept(e)'
  BY <1>1 DEF NotKept, Expired
<1>8. KeptUnless'
  BY <1>1, <1>3, <1>6, <1>7 DEF MeteringIInv, KeptUnless
<1>9. BufferInOrder' /\ CountedInOrder' /\ LackingForAReason'
  <2>1. \A f \in Counted : NotKept(f) => NotKept(f)'
    BY <1>6 DEF Counted
  <2>2. QED
    BY <1>1, <1>4, <1>5, <2>1, NothingBegun
<1>10. QED
  BY <1>5, <1>8, <1>9 DEF MeteringIInv

-----------------------------------------------------------------------------
(* Counting                                                                *)

\* The new event is the last, and a full buffer loses its first, d = 1.
LEMMA Append1Facts ==
  ASSUME NEW S, NEW s \in Seq(S), Len(s) <= Capacity, NEW x \in S
  PROVE  \E d \in {0, 1} :
           /\ d = 1 => Len(s) = Capacity
           /\ Append1(s, x) \in Seq(S) /\ Len(Append1(s, x)) = (Len(s) - d) + 1
           /\ Len(Append1(s, x)) <= Capacity /\ Len(s) <= Len(Append1(s, x))
           /\ \A i \in 1 .. Len(s) - d : Append1(s, x)[i] = s[i + d]
           /\ Append1(s, x)[(Len(s) - d) + 1] = x
<1>1. Capacity \in Nat \ {0} /\ Len(s) \in Nat
  BY NumbersAssumption
<1>2. CASE Len(s) >= Capacity
  <2> DEFINE t == Tail(s)
  <2>1. Len(s) = Capacity /\ Append1(s, x) = Append(t, x)
    BY <1>1, <1>2 DEF Append1
  <2>2. s # <<>>
    BY <1>1, <2>1
  <2>3. /\ t \in Seq(S) /\ Len(t) = Len(s) - 1
        /\ \A i \in 1 .. Len(s) - 1 : t[i] = s[i + 1]
    BY <2>2
  <2> HIDE DEF t
  <2>4. /\ Append(t, x) \in Seq(S) /\ Len(Append(t, x)) = Len(t) + 1
        /\ \A i \in 1 .. Len(t) : Append(t, x)[i] = t[i]
        /\ Append(t, x)[Len(t) + 1] = x
    BY <2>3
  <2>5. \A i \in 1 .. Len(s) - 1 : Append(t, x)[i] = s[i + 1]
    BY <2>3, <2>4
  <2> WITNESS 1 \in {0, 1}
  <2>6. QED
    BY <1>1, <2>1, <2>3, <2>4, <2>5
<1>3. CASE Len(s) < Capacity
  <2>1. Append1(s, x) = Append(s, x)
    BY <1>1, <1>3 DEF Append1
  <2>2. /\ Append(s, x) \in Seq(S) /\ Len(Append(s, x)) = Len(s) + 1
        /\ \A i \in 1 .. Len(s) : Append(s, x)[i] = s[i]
        /\ Append(s, x)[Len(s) + 1] = x
    OBVIOUS
  <2>3. \A i \in 1 .. Len(s) - 0 : Append(s, x)[i] = s[i + 0]
    BY <2>2, <1>1
  <2> WITNESS 0 \in {0, 1}
  <2>4. QED
    BY <1>1, <1>3, <2>1, <2>2, <2>3
<1>4. QED
  BY <1>1, <1>2, <1>3

LEMMA PositionFacts ==
  ASSUME MeteringIInv, NEW e \in Counted
  PROVE  Position(e) \in DOMAIN order /\ order[Position(e)] = e
BY DEF MeteringIInv, CountedInOrder, Position

LEMMA CountGood ==
  ASSUME MeteringIInv, NEW e \in Ids, Count(e)
  PROVE  MeteringIInv'
<1> DEFINE L == Len(events)
           N == Len(order)
<1>1. /\ at[e] = "written" /\ at' = [at EXCEPT ![e] = "counted"]
      /\ events' = Append1(events, e) /\ order' = Append(order, e)
      /\ lives' = [lives EXCEPT ![e] = restarts]
      /\ UNCHANGED <<now, ev, disk, failed, wrote, restarts, faults>>
  BY DEF Count
<1>2. MeteringTypeOK
  BY DEF MeteringIInv
<1>3. /\ events \in Seq(Ids) /\ L \in Nat /\ L <= Capacity /\ DOMAIN events = 1 .. L
      /\ order \in Seq(Ids) /\ N \in Nat /\ DOMAIN order = 1 .. N
      /\ \A i \in 1 .. L : events[i] \in Ids
      /\ \A i \in 1 .. N : order[i] \in Ids
  <2>1. events \in Seq(Ids) /\ L <= Capacity /\ order \in Seq(Ids)
    BY <1>2 DEF MeteringTypeOK
  <2>2. QED
    BY <2>1
<1>4. Ids' = Ids /\ \A f \in Ids : Key(f)' = Key(f)
  BY <1>1 DEF Ids, Key
<1>5. PICK d \in {0, 1} :
        /\ d = 1 => L = Capacity
        /\ L - d \in Nat
        /\ events' \in Seq(Ids) /\ Len(events') = (L - d) + 1
        /\ Len(events') <= Capacity /\ L <= Len(events')
        /\ \A i \in 1 .. L - d : events'[i] = events[i + d]
        /\ events'[(L - d) + 1] = e
  <2> DEFINE E == Append1(events, e)
  <2>1. PICK d \in {0, 1} :
          /\ d = 1 => Len(events) = Capacity
          /\ E \in Seq(Ids) /\ Len(E) = (Len(events) - d) + 1
          /\ Len(E) <= Capacity /\ Len(events) <= Len(E)
          /\ \A i \in 1 .. Len(events) - d : E[i] = events[i + d]
          /\ E[(Len(events) - d) + 1] = e
    <3>1. events \in Seq(Ids) /\ Len(events) <= Capacity
      BY <1>3
    <3>2. \A c \in Seq(Ids) : Len(c) <= Capacity =>
            \E b \in {0, 1} :
              /\ b = 1 => Len(c) = Capacity
              /\ Append1(c, e) \in Seq(Ids) /\ Len(Append1(c, e)) = (Len(c) - b) + 1
              /\ Len(Append1(c, e)) <= Capacity /\ Len(c) <= Len(Append1(c, e))
              /\ \A i \in 1 .. Len(c) - b : Append1(c, e)[i] = c[i + b]
              /\ Append1(c, e)[(Len(c) - b) + 1] = e
      BY Append1Facts
    <3>3. QED
      BY <3>1, <3>2
  <2> HIDE DEF E
  <2>2. events' = E
    BY <1>1 DEF E
  <2>3. L - d \in Nat
    BY <2>1, <1>3, NumbersAssumption
  <2>4. QED
    BY <2>1, <2>2, <2>3
<1>6. DOMAIN events' = 1 .. (L - d) + 1
  BY <1>5
<1>7. /\ order' \in Seq(Ids) /\ DOMAIN order' = 1 .. N + 1
      /\ \A i \in 1 .. N : order'[i] = order[i]
      /\ order'[N + 1] = e
  BY <1>1, <1>3
<1>8. /\ at' \in [Ids -> {"stamped", "written", "counted", "dead"}]
      /\ lives' \in [Ids -> 0..MaxFaults]
      /\ \A f \in Ids \ {e} : at'[f] = at[f] /\ lives'[f] = lives[f]
      /\ at'[e] = "counted" /\ lives'[e] = restarts
  BY <1>1, <1>2, RangeFacts
<1>9. MeteringTypeOK'
  <2>1. events' \in Seq(Ids') /\ Len(events') <= Capacity /\ order' \in Seq(Ids')
    BY <1>4, <1>5, <1>7
  <2>2. /\ at' \in [Ids' -> {"stamped", "written", "counted", "dead"}]
        /\ lives' \in [Ids' -> 0..MaxFaults]
    BY <1>4, <1>8
  <2>3. disk' \subseteq Ids' /\ \A f, g \in disk' : Key(f)' = Key(g)' => f = g
    BY <1>1, <1>2, <1>4 DEF MeteringTypeOK
  <2>4. QED
    BY <1>1, <1>2, <1>4, <2>1, <2>2, <2>3 DEF MeteringTypeOK
<1>10. \A f \in Ids : NotKept(f) => NotKept(f)'
  <2>1. now <= now'
    BY <1>1, <1>2, RangeFacts
  <2>2. QED
    BY <1>1, <1>2, <1>4, <1>9, <2>1, ReasonsLast
<1>11. KeptUnless'
  BY <1>1, <1>4, <1>8, <1>10 DEF MeteringIInv, KeptUnless
<1>12. Counted' = Counted \cup {e} /\ e \notin Counted
  BY <1>1, <1>4, <1>8 DEF Counted
<1>13. \A i, j \in DOMAIN order' : order'[i] = order'[j] => i = j
  <2>1. \A i \in 1 .. N : order'[i] # e
    BY <1>1, <1>3, <1>7 DEF MeteringIInv, CountedInOrder
  <2>2. \A i, j \in 1 .. N : order'[i] = order'[j] => i = j
    BY <1>3, <1>7 DEF MeteringIInv, CountedInOrder
  <2>3. \A i \in 1 .. N + 1 : i \in 1 .. N \/ i = N + 1
    BY <1>3
  <2>4. QED
    BY <2>1, <2>2, <2>3, <1>7
<1>14. CountedInOrder'
  <2>1. \A i \in DOMAIN order' : at'[order'[i]] = "counted"
    <3>1. \A i \in 1 .. N : at[order[i]] = "counted"
      BY <1>3 DEF MeteringIInv, CountedInOrder
    <3>2. \A i \in 1 .. N + 1 : i \in 1 .. N \/ i = N + 1
      BY <1>3
    <3>3. QED
      BY <3>1, <3>2, <1>1, <1>3, <1>7, <1>8
  <2>2. \A f \in Counted' : \E i \in DOMAIN order' : order'[i] = f
    <3>1. N + 1 \in DOMAIN order' /\ 1 .. N \subseteq DOMAIN order'
      BY <1>3, <1>7
    <3>2. \A f \in Counted : \E i \in 1 .. N : order[i] = f
      BY <1>3 DEF MeteringIInv, CountedInOrder
    <3>3. QED
      BY <3>1, <3>2, <1>7, <1>12
  <2>3. restarts' <= faults' /\ \A f \in Ids' : lives'[f] <= restarts'
    BY <1>1, <1>2, <1>4, <1>8, RangeFacts DEF MeteringIInv, CountedInOrder
  <2>4. QED
    BY <1>13, <2>1, <2>2, <2>3 DEF CountedInOrder
<1>15. /\ \A f \in Counted : Position(f)' = Position(f) /\ Position(f) \in 1 .. N
       /\ Position(e)' = N + 1
  <2>1. ASSUME NEW f \in Ids, NEW i \in DOMAIN order', order'[i] = f
        PROVE  Position(f)' = i
    BY <2>1, <1>13 DEF Position
  <2>2. \A f \in Counted : Position(f) \in 1 .. N /\ order[Position(f)] = f
    BY <1>3, PositionFacts
  <2>3. 1 .. N \subseteq DOMAIN order' /\ N + 1 \in DOMAIN order'
    BY <1>3, <1>7
  <2>4. \A f \in Counted : order'[Position(f)] = f
    BY <2>2, <1>7
  <2>5. \A f \in Counted : Position(f)' = Position(f)
    BY <2>1, <2>2, <2>3, <2>4 DEF Counted
  <2>6. Position(e)' = N + 1
    BY <2>1, <2>3, <1>7
  <2>7. QED
    BY <2>2, <2>5, <2>6
<1>16. \A g \in Counted : /\ \A f \in Ids : After(f, g) => After(f, g)'
                          /\ After(e, g)'
  <2> SUFFICES ASSUME NEW g \in Counted
               PROVE  /\ \A f \in Ids : After(f, g) => After(f, g)'
                      /\ After(e, g)'
    OBVIOUS
  <2>1. \A f \in Ids : Older(g, f)' = Older(g, f)
    BY <1>1 DEF Older, Counted
  <2>2. \A f \in Ids : After(f, g) => After(f, g)'
    BY <2>1, <1>12, <1>15 DEF After
  <2>3. N + 1 > Position(g)
    BY <1>3, <1>15
  <2>4. After(e, g)'
    BY <2>3, <1>12, <1>15 DEF After
  <2>5. QED
    BY <2>2, <2>4
<1>17. \A i \in 1 .. L : at[events[i]] \in {"counted", "dead"} /\ events[i] # e
  BY <1>1, <1>3 DEF MeteringIInv, BufferInOrder
<1>18. \A i, j \in 1 .. L :
         i < j => /\ events[i] # events[j]
                  /\ events[i] \in Counted => After(events[j], events[i])
  BY <1>3 DEF MeteringIInv, BufferInOrder, Counted
<1>19. \A i \in 1 .. (L - d) + 1 : \/ i = (L - d) + 1
                                   \/ i \in 1 .. L - d /\ i + d \in 1 .. L
  BY <1>3
<1>20. BufferInOrder'
  <2>1. ASSUME NEW i \in DOMAIN events'
        PROVE  at'[events'[i]] \in {"counted", "dead"}
    <3>1. CASE i = (L - d) + 1
      BY <3>1, <1>5, <1>8
    <3>2. CASE i \in 1 .. L - d /\ i + d \in 1 .. L
      BY <3>2, <1>3, <1>5, <1>8, <1>17
    <3>3. QED
      BY <3>1, <3>2, <1>6, <1>19
  <2>2. ASSUME NEW i \in DOMAIN events', NEW j \in DOMAIN events', i < j,
               NEW f \in Ids, NEW g \in Ids, f = events'[j], g = events'[i]
        PROVE  g # f /\ (at'[g] = "counted" => After(f, g)')
    <3>1. i \in 1 .. L - d /\ i + d \in 1 .. L
      BY <2>2, <1>3, <1>6, <1>19
    <3>2. g = events[i + d] /\ g \in Ids \ {e}
      BY <2>2, <3>1, <1>3, <1>5, <1>17
    <3>3. at'[g] = "counted" => g \in Counted
      BY <3>2, <1>8 DEF Counted
    <3>4. CASE j = (L - d) + 1
      BY <2>2, <3>2, <3>3, <3>4, <1>5, <1>16
    <3>5. CASE j \in 1 .. L - d /\ j + d \in 1 .. L
      <4>1. f = events[j + d]
        BY <2>2, <3>5, <1>3, <1>5
      <4>2. i + d < j + d
        BY <2>2, <3>1, <3>5
      <4>3. /\ events[i + d] # events[j + d]
            /\ events[i + d] \in Counted => After(events[j + d], events[i + d])
        BY <4>2, <3>1, <3>5, <1>18
      <4>4. QED
        BY <4>1, <4>3, <3>2, <3>3, <1>16
    <3>6. QED
      BY <3>4, <3>5, <1>6, <1>19
  <2>3. \A i \in DOMAIN events' : events'[i] \in Ids
    BY <1>5
  <2>4. QED
    BY <2>1, <2>2, <2>3 DEF BufferInOrder
<1>21. \A f \in InBuffer' : f = e \/ \E k \in 1 .. L : k > d /\ f = events[k]
  <2> SUFFICES ASSUME NEW i \in DOMAIN events'
               PROVE  events'[i] = e \/ \E k \in 1 .. L : k > d /\ events'[i] = events[k]
    BY DEF InBuffer
  <2>1. CASE i = (L - d) + 1
    BY <2>1, <1>5
  <2>2. CASE i \in 1 .. L - d /\ i + d \in 1 .. L
    <3>1. i + d > d
      BY <2>2
    <3>2. QED
      BY <2>2, <3>1, <1>5
  <2>3. QED
    BY <2>1, <2>2, <1>6, <1>19
<1>22. e \in InBuffer'
  <2>1. (L - d) + 1 \in DOMAIN events'
    BY <1>3, <1>5, <1>6
  <2>2. QED
    BY <2>1, <1>5 DEF InBuffer
<1>23. d = 1 \/ L >= Least(WarmupLimit) => Len(events') >= Least(WarmupLimit)'
  <2>1. /\ Least(WarmupLimit) \in Nat /\ Least(WarmupLimit) <= Capacity
        /\ Capacity \in Nat /\ WarmupLimit \in Nat \ {0}
    BY NumbersAssumption, LeastFacts
  <2>2. Least(WarmupLimit)' = Least(WarmupLimit)
    BY DEF Least
  <2>3. CASE d = 1
    <3>1. L = Capacity /\ Len(events') = (L - 1) + 1
      BY <2>3, <1>5
    <3> HIDE DEF L
    <3>2. Len(events') = Capacity
      BY <2>1, <3>1
    <3>3. QED
      BY <2>1, <2>2, <3>2
  <2>4. CASE L >= Least(WarmupLimit)
    <3>1. L <= Len(events') /\ Len(events') \in Nat /\ L \in Nat
      BY <1>3, <1>5
    <3> HIDE DEF L
    <3>2. QED
      BY <2>1, <2>2, <2>4, <3>1
  <2>5. QED
    BY <2>3, <2>4
<1>24. LackingForAReason'
  <2> SUFFICES ASSUME NEW g \in Counted, g \notin InBuffer'
               PROVE  MayLack(g)'
    BY <1>12, <1>22 DEF LackingForAReason
  <2>1. g \in Ids \ {e}
    BY <1>12 DEF Counted
  <2>2. CASE g \in InBuffer
    <3>1. PICK k \in 1 .. L : events[k] = g
      BY <2>2, <1>3 DEF InBuffer
    <3>2. d = 1 /\ k = 1
      <4> SUFFICES ASSUME k > d PROVE FALSE
        BY <1>3
      <4>1. k - d \in 1 .. L - d /\ (k - d) + d = k
        BY <1>3
      <4>2. events'[k - d] = g /\ k - d \in DOMAIN events'
        BY <3>1, <4>1, <1>3, <1>5, <1>6
      <4>3. QED
        BY <4>2 DEF InBuffer
    <3>3. \A f \in InBuffer' : After(f, g)'
      <4> SUFFICES ASSUME NEW f \in InBuffer', f # e PROVE After(f, g)'
        BY <1>16
      <4>1. PICK m \in 1 .. L : m > d /\ f = events[m]
        BY <1>21
      <4>2. k < m
        BY <3>2, <4>1
      <4>3. After(f, g) /\ f \in Ids
        BY <3>1, <4>1, <4>2, <1>3, <1>18
      <4>4. QED
        BY <4>3, <1>16
    <3>4. QED
      BY <3>2, <3>3, <1>23 DEF MayLack, Crowded
  <2>3. CASE Crowded(g)
    <3>1. \A f \in InBuffer' : After(f, g)'
      <4> SUFFICES ASSUME NEW f \in InBuffer', f # e PROVE After(f, g)'
        BY <1>16
      <4>1. PICK m \in 1 .. L : m > d /\ f = events[m]
        BY <1>21
      <4>2. f \in InBuffer /\ f \in Ids
        BY <4>1, <1>3 DEF InBuffer
      <4>3. QED
        BY <4>2, <2>3, <1>16 DEF Crowded
    <3>2. L >= Least(WarmupLimit)
      BY <2>3 DEF Crowded
    <3>3. QED
      BY <3>1, <3>2, <1>23 DEF MayLack, Crowded
  <2>4. CASE lives[g] < restarts /\ NotKept(g)
    BY <2>1, <2>4, <1>1, <1>8, <1>10 DEF MayLack
  <2>5. QED
    BY <2>2, <2>3, <2>4 DEF MeteringIInv, LackingForAReason, MayLack
<1>25. QED
  BY <1>9, <1>11, <1>14, <1>20, <1>24 DEF MeteringIInv

-----------------------------------------------------------------------------
(* Restarts                                                                *)

\* What warmup does not load is older than all it loads, of which there is the wanted
\* number; or it is not on disk, and has a reason.
LEMMA RestartGood ==
  ASSUME MeteringIInv, Restart
  PROVE  MeteringIInv'
<1> DEFINE w == Newest(disk, WarmupLimit)
<1>1. /\ faults < MaxFaults /\ faults' = faults + 1 /\ restarts' = restarts + 1
      /\ at' = [e \in Ids |-> IF at[e] = "counted" THEN "counted" ELSE "dead"]
      /\ events' = w
      /\ UNCHANGED <<now, ev, disk, failed, wrote, order, lives>>
  BY DEF Restart, warmup
<1>2. MeteringTypeOK
  BY DEF MeteringIInv
<1>3. Ids' = Ids /\ \A f \in Ids : Key(f)' = Key(f)
  BY <1>1 DEF Ids, Key
<1>4. disk \in SUBSET Ids /\ DistinctKeys(disk) /\ WarmupLimit \in Nat \ {0}
  BY <1>2, NumbersAssumption DEF MeteringTypeOK, DistinctKeys
<1>5. /\ w \in Seq(disk)
      /\ Len(w) = IF Cardinality(disk) < Least(WarmupLimit) THEN Cardinality(disk)
                  ELSE Least(WarmupLimit)
      /\ \A i, j \in DOMAIN w : i < j => Older(w[i], w[j]) /\ w[i] # w[j]
      /\ \A e \in disk : \/ \E i \in DOMAIN w : w[i] = e
                         \/ /\ Len(w) = Least(WarmupLimit)
                            /\ \A i \in DOMAIN w : Older(e, w[i])
  BY <1>2, <1>4, NewestFacts
<1> HIDE DEF w
<1>6. \A i \in DOMAIN w : w[i] \in disk /\ w[i] \in Ids
  BY <1>4, <1>5
<1>7. /\ at' \in [Ids -> {"stamped", "written", "counted", "dead"}]
      /\ \A e \in Ids : at'[e] = IF at[e] = "counted" THEN "counted" ELSE "dead"
  BY <1>1
<1>8. /\ restarts \in Nat /\ faults \in Nat /\ restarts <= faults /\ MaxFaults \in Nat
      /\ lives \in [Ids -> 0..MaxFaults] /\ \A e \in Ids : lives[e] <= restarts
  BY <1>2, RangeFacts DEF MeteringIInv, CountedInOrder
<1>9. MeteringTypeOK'
  <2>1. w \in Seq(Ids)
    BY <1>4, <1>5
  <2>2. Len(w) <= Capacity
    <3>1. /\ Least(WarmupLimit) \in Nat /\ Least(WarmupLimit) <= Capacity /\ Capacity \in Nat
          /\ Cardinality(disk) \in Nat
      BY <1>2, <1>4, LeastFacts, OlderOrders, FS_CardinalityType
    <3>2. QED
      BY <3>1, <1>5
  <2>3. restarts' \in 0..MaxFaults /\ faults' \in 0..MaxFaults
    BY <1>1, <1>8
  <2>4. events' \in Seq(Ids') /\ Len(events') <= Capacity
    BY <1>1, <1>3, <2>1, <2>2
  <2>5. QED
    BY <1>1, <1>2, <1>3, <1>7, <2>3, <2>4 DEF MeteringTypeOK
<1>10. \A f \in Ids : NotKept(f) => NotKept(f)'
  <2>1. now <= now'
    BY <1>1, <1>2, RangeFacts
  <2>2. QED
    BY <1>1, <1>2, <1>3, <1>9, <2>1, ReasonsLast
<1>11. KeptUnless'
  BY <1>1, <1>3, <1>7, <1>10 DEF MeteringIInv, KeptUnless
<1>12. Counted' = Counted
  BY <1>3, <1>7 DEF Counted
<1>13. \A e, f \in Ids : Older(e, f) => After(f, e)'
  BY <1>1 DEF After, Older
<1>14. BufferInOrder'
  <2>1. \A i \in DOMAIN w : at'[w[i]] \in {"counted", "dead"}
    BY <1>6, <1>7
  <2>2. ASSUME NEW i \in DOMAIN w, NEW j \in DOMAIN w, i < j,
               NEW f \in Ids, NEW g \in Ids, f = w[j], g = w[i]
        PROVE  g # f /\ After(f, g)'
    BY <2>2, <1>5, <1>13
  <2>3. ASSUME NEW i \in DOMAIN events', NEW j \in DOMAIN events', i < j,
               NEW f \in Ids, NEW g \in Ids, f = events'[j], g = events'[i]
        PROVE  g # f /\ After(f, g)'
    BY <1>1, <2>2, <2>3
  <2>4. \A i \in DOMAIN events' : events'[i] \in Ids /\ at'[events'[i]] \in {"counted", "dead"}
    BY <1>1, <1>6, <2>1
  <2>5. QED
    BY <2>3, <2>4 DEF BufferInOrder
<1>15. CountedInOrder'
  <2>1. \A i \in DOMAIN order : at'[order[i]] = "counted"
    <3>1. \A i \in DOMAIN order : order[i] \in Ids
      BY <1>2 DEF MeteringTypeOK
    <3>2. QED
      BY <3>1, <1>7 DEF MeteringIInv, CountedInOrder
  <2>2. restarts' <= faults' /\ \A e \in Ids' : lives'[e] <= restarts'
    BY <1>1, <1>3, <1>8
  <2>3. QED
    BY <1>1, <1>12, <2>1, <2>2 DEF MeteringIInv, CountedInOrder
<1>16. LackingForAReason'
  <2> SUFFICES ASSUME NEW e \in Counted, e \notin InBuffer'
               PROVE  MayLack(e)'
    BY <1>12 DEF LackingForAReason
  <2>1. e \in Ids /\ at[e] = "counted"
    BY DEF Counted
  <2>2. CASE NotKept(e)
    BY <2>1, <2>2, <1>1, <1>8, <1>10 DEF MayLack
  <2>3. CASE e \in disk
    <3>1. ~ \E i \in DOMAIN w : w[i] = e
      BY <1>1 DEF InBuffer
    <3>2. Len(w) = Least(WarmupLimit) /\ \A i \in DOMAIN w : Older(e, w[i])
      BY <2>3, <3>1, <1>5
    <3>3. \A f \in InBuffer' : After(f, e)'
      <4> SUFFICES ASSUME NEW f \in InBuffer' PROVE After(f, e)'
        OBVIOUS
      <4>1. Older(e, f) /\ f \in Ids
        BY <3>2, <1>1, <1>6 DEF InBuffer
      <4>2. QED
        BY <4>1, <2>1, <1>13
    <3>4. Len(events') >= Least(WarmupLimit)'
      <4>1. Least(WarmupLimit)' = Least(WarmupLimit) /\ Least(WarmupLimit) \in Nat
        BY <1>4, LeastFacts DEF Least
      <4>2. QED
        BY <4>1, <3>2, <1>1
    <3>5. QED
      BY <3>3, <3>4 DEF MayLack, Crowded
  <2>4. QED
    BY <2>1, <2>2, <2>3 DEF MeteringIInv, KeptUnless
<1>17. QED
  BY <1>9, <1>11, <1>14, <1>15, <1>16 DEF MeteringIInv

-----------------------------------------------------------------------------
(* Usage events: the theorems                                              *)

LEMMA MeteringInitGood == MeteringInit => MeteringIInv
<1> SUFFICES ASSUME MeteringInit PROVE MeteringIInv
  OBVIOUS
<1>1. /\ now = 1 /\ ev = <<>> /\ at = <<>> /\ disk = {} /\ events = <<>>
      /\ failed = {} /\ wrote = <<>> /\ order = <<>> /\ lives = <<>>
      /\ restarts = 0 /\ faults = 0
  BY DEF MeteringInit
<1>2. Ids = {} /\ Counted = {} /\ DOMAIN events = {} /\ DOMAIN order = {} /\ Len(ev) = 0
  BY <1>1 DEF Ids, Counted
<1>3. MeteringTypeOK
  <2>1. now \in 1..MaxTime /\ {0} \subseteq 0..MaxFaults /\ 0 <= MaxEvents /\ 0 <= Capacity
    BY <1>1, MeteringBoundsAssumption, NumbersAssumption
  <2>2. /\ ev \in Seq([user : UserIDs, type : Types, ts : 1..MaxTime])
        /\ events \in Seq(Ids) /\ order \in Seq(Ids) /\ Len(events) = 0
    BY <1>1
  <2>3. /\ at \in [Ids -> {"stamped", "written", "counted", "dead"}]
        /\ wrote \in [Ids -> 0..MaxTime] /\ lives \in [Ids -> 0..MaxFaults]
    BY <1>1, <1>2
  <2>4. QED
    BY <1>1, <1>2, <2>1, <2>2, <2>3 DEF MeteringTypeOK
<1>4. KeptUnless /\ BufferInOrder /\ CountedInOrder /\ LackingForAReason
  BY <1>1, <1>2 DEF KeptUnless, BufferInOrder, CountedInOrder, LackingForAReason
<1>5. QED
  BY <1>3, <1>4 DEF MeteringIInv

LEMMA MeteringStep == MeteringIInv /\ [MeteringNext]_meteringVars => MeteringIInv'
<1> SUFFICES ASSUME MeteringIInv, [MeteringNext]_meteringVars PROVE MeteringIInv'
  OBVIOUS
<1>1. CASE \E u \in UserIDs, t \in Types : RecordBegins(u, t)
  BY <1>1, RecordBeginsGood
<1>2. CASE \E e \in Ids : Persist(e) \/ PersistFails(e) \/ Count(e) \/ Expire(e)
  BY <1>2, PersistGood, PersistFailsGood, CountGood, ExpireGood
<1>3. CASE Tick
  BY <1>3, TickGood
<1>4. CASE Restart
  BY <1>4, RestartGood
<1>5. CASE UNCHANGED meteringVars
  <2>1. UNCHANGED <<now, ev, at, disk, events, failed, wrote, order, lives, restarts, faults>>
    BY <1>5 DEF meteringVars
  <2>2. Ids' = Ids /\ \A e \in Ids : Key(e)' = Key(e)
    BY <2>1 DEF Ids, Key
  <2>3. MeteringTypeOK /\ now \in Nat /\ faults \in Nat
    BY RangeFacts DEF MeteringIInv
  <2>4. MeteringTypeOK'
    BY <2>1, <2>2, <2>3 DEF MeteringTypeOK
  <2>5. \A e \in Ids : NotKept(e) => NotKept(e)'
    BY <2>1, <2>2, <2>3, <2>4, ReasonsLast
  <2>6. KeptUnless'
    BY <2>1, <2>2, <2>5 DEF MeteringIInv, KeptUnless
  <2>7. BufferInOrder' /\ CountedInOrder' /\ LackingForAReason'
    <3>1. \A e \in Counted : NotKept(e) => NotKept(e)'
      BY <2>5 DEF Counted
    <3>2. QED
      BY <2>1, <2>3, <2>4, <3>1, NothingBegun
  <2>8. QED
    BY <2>4, <2>6, <2>7 DEF MeteringIInv
<1>6. QED
  BY <1>1, <1>2, <1>3, <1>4, <1>5 DEF MeteringNext

LEMMA MeteringInvariance == MeteringSpec => []MeteringIInv
BY MeteringInitGood, MeteringStep, PTL DEF MeteringSpec

\* An event that was counted is on disk, unless its write failed, another event of that
\* type and instant was written, it is older than the TTL, or it is a generation event
\* (PersistentMeter.Record and its keys), however many requests record at once.
THEOREM CountedIsKept == MeteringSpec => []OnDiskUnless
<1>1. MeteringIInv => OnDiskUnless
  BY DEF MeteringIInv, KeptUnless, OnDiskUnless, Counted
<1>2. QED
  BY <1>1, MeteringInvariance, PTL

LEMMA BufferHasNoTwice ==
  ASSUME MeteringIInv
  PROVE  \A i, j \in DOMAIN events : events[i] = events[j] => i = j
<1>1. \A i, j \in DOMAIN events : i < j => events[i] # events[j]
  BY DEF MeteringIInv, BufferInOrder
<1>2. \A i, j \in DOMAIN events : i < j \/ i = j \/ j < i
  <2>1. events \in Seq(Ids)
    BY DEF MeteringIInv, MeteringTypeOK
  <2>2. QED
    BY <2>1
<1>3. QED
  BY <1>1, <1>2

\* A summary counts positions of the buffer; the events there are all different.
LEMMA SummaryCounts ==
  ASSUME MeteringIInv, NEW P \in SUBSET Ids, NEW A \in SUBSET P,
         \A e \in A : e \in InBuffer
  PROVE  LET G == {i \in DOMAIN events : events[i] \in P}
         IN  Cardinality(A) <= Cardinality(G) /\ Cardinality(G) <= Cardinality(P)
<1> DEFINE G == {i \in DOMAIN events : events[i] \in P}
           to == [i \in G |-> events[i]]
           from == [e \in A |-> CHOOSE i \in G : events[i] = e]
<1>1. \A i, j \in DOMAIN events : events[i] = events[j] => i = j
  BY BufferHasNoTwice
<1>2. to \in Injection(G, P)
  <2>1. to \in [G -> P] /\ DOMAIN to = G /\ \A i, j \in G : to[i] = to[j] => i = j
    BY <1>1
  <2> HIDE DEF to, G
  <2>2. QED
    BY <2>1 DEF Injection, IsInjective
<1>3. from \in Injection(A, G)
  <2>1. ASSUME NEW e \in A
        PROVE  from[e] \in G /\ events[from[e]] = e
    <3>1. \E i \in G : events[i] = e
      BY DEF InBuffer
    <3>2. QED
      BY <3>1
  <2>2. from \in [A -> G] /\ DOMAIN from = A
    BY <2>1
  <2> HIDE DEF from, G
  <2>3. QED
    BY <2>1, <2>2 DEF Injection, IsInjective
<1>4. IsFiniteSet(P)
  BY EventFacts, FS_Subset DEF MeteringIInv
<1> HIDE DEF to, from, G
<1>5. IsFiniteSet(G) /\ Cardinality(G) <= Cardinality(P)
  BY <1>2, <1>4, FS_Injection
<1>6. Cardinality(A) <= Cardinality(G)
  BY <1>3, <1>5, FS_Injection
<1>7. QED
  BY <1>5, <1>6 DEF G

\* No summary counts an event twice or one that was never begun, and none lacks a counted
\* event that was not crowded out by newer ones or lost in a restart for a reason
\* (GetSummary and GetEvents on the buffer that Record and warmup fill), for any
\* capacity and warmup limit.
THEOREM SummariesCount == MeteringSpec => []SummaryBounds
<1>1. ASSUME MeteringIInv PROVE SummaryBounds
  <2>1. events \in Seq(Ids)
    BY <1>1 DEF MeteringIInv, MeteringTypeOK
  <2>2. \A i, j \in DOMAIN events : events[i] = events[j] => i = j
    BY <1>1, BufferHasNoTwice
  <2> SUFFICES ASSUME NEW u \in UserIDs, NEW since \in 1..MaxTime, NEW t \in Types
               PROVE  LET Of(S) == Cardinality({e \in S : /\ ev[e].user = u /\ ev[e].type = t
                                                          /\ ev[e].ts >= since})
                          n == GetSummary(u, since)[t]
                      IN  /\ Of({e \in Counted : ~MayLack(e)}) <= n
                          /\ n <= Of(Ids)
    BY <2>2 DEF SummaryBounds, GetEvents
  <2> DEFINE P == {e \in Ids : ev[e].user = u /\ ev[e].type = t /\ ev[e].ts >= since}
             A == {e \in {f \in Counted : ~MayLack(f)} :
                     ev[e].user = u /\ ev[e].type = t /\ ev[e].ts >= since}
             G == {i \in DOMAIN events : events[i] \in P}
  <2>3. GetSummary(u, since)[t] = Cardinality(G)
    <3>1. \A i \in DOMAIN events : events[i] \in Ids
      BY <2>1
    <3>2. {i \in DOMAIN events : ev[events[i]].user = u /\ ev[events[i]].ts >= since
                                   /\ ev[events[i]].type = t} = G
      BY <3>1
    <3>3. QED
      BY <3>2 DEF GetSummary
  <2>4. P \in SUBSET Ids /\ A \in SUBSET P /\ \A e \in A : e \in InBuffer
    BY <1>1 DEF Counted, MeteringIInv, LackingForAReason
  <2>5. Cardinality(A) <= Cardinality(G) /\ Cardinality(G) <= Cardinality(P)
    <3> HIDE DEF A, P
    <3>1. QED
      BY <1>1, <2>4, SummaryCounts
  <2>6. QED
    BY <2>3, <2>5
<1>2. QED
  BY <1>1, MeteringInvariance, PTL
=============================================================================
