---------------------------- MODULE ApiKeysProofs ----------------------------
(***************************************************************************)
(* A revoked or deleted key never works again, and the two indexes agree,  *)
(* for any number of keys, IDs and goroutines.                             *)
(***************************************************************************)
EXTENDS ApiKeys, TLAPS

\* An open transaction that no other one has overtaken has read the record
\* as it is now.
ReadsFresh ==
  \A p \in Procs : IsOpen(p) /\ ~proc[p].stale => byId[proc[p].id] = proc[p].rec

\* A record of either index is one of a key that was created with its ID.
RecordsOwned ==
  /\ \A id \in Ids : byId[id] # NoRec => idOf[byId[id].key] = id
  /\ \A k \in Keys : byHash[k] # NoRec => byHash[k].id = idOf[k]

\* Only keys that exist are revoked or deleted, and a record found by ID says
\* what became of its key.
OnlyRevoked ==
  /\ \A k \in revoked \cup deleted : idOf[k] # None
  /\ \A id \in Ids : byId[id] # NoRec =>
       /\ byId[id].active <=> byId[id].key \notin revoked
       /\ byId[id].key \notin deleted

IInv == /\ TypeOK /\ ReadsFresh /\ RecordsOwned /\ OnlyRevoked
        /\ RevokedStays /\ DeletedStays /\ IndexesAgree /\ WorksUntilRevoked

\* The initial state satisfies the invariant.
LEMMA InitGood == Init => IInv
  BY NoneAssumption DEF Init, IInv, TypeOK, ReadsFresh, RecordsOwned, OnlyRevoked,
     RevokedStays, DeletedStays, IndexesAgree, WorksUntilRevoked, Idle, IsOpen, Alone

\* Committing a write of id's record leaves every other transaction on it
\* stale and the rest as they were.
LEMMA OvertakenGood ==
  ASSUME TypeOK, ReadsFresh, NEW p \in Procs, NEW id \in Ids,
         byId' \in [Ids -> IdRecords \cup {NoRec}],
         proc' = Overtaken(p, id),
         \A i \in Ids \ {id} : byId'[i] = byId[i]
  PROVE  /\ proc' \in [Procs -> {Idle} \cup [pc : {"spawned"}, id : Ids] \cup Transactions]
         /\ ReadsFresh'
<1>1. ASSUME NEW q \in Procs
      PROVE  /\ proc'[q] \in {Idle} \cup [pc : {"spawned"}, id : Ids] \cup Transactions
             /\ proc'[q].pc = "open" /\ ~proc'[q].stale
                => /\ proc[q].pc = "open" /\ ~proc[q].stale
                   /\ proc'[q] = proc[q] /\ proc[q].id # id
  <2>1. proc[q] \in {Idle} \cup [pc : {"spawned"}, id : Ids] \cup Transactions
    BY DEF TypeOK
  <2>2. CASE q = p
    BY <2>2 DEF Overtaken, Idle
  <2>3. CASE q # p /\ IsOpen(q) /\ proc[q].id = id
    <3>1. proc[q] \in Transactions
      BY <2>1, <2>3 DEF IsOpen, Idle
    <3>2. proc'[q] = [proc[q] EXCEPT !.stale = TRUE]
      BY <2>3 DEF Overtaken
    <3> QED  BY <3>1, <3>2 DEF Transactions
  <2>4. CASE q # p /\ ~(IsOpen(q) /\ proc[q].id = id)
    BY <2>1, <2>4 DEF Overtaken, IsOpen
  <2> QED  BY <2>2, <2>3, <2>4
<1>2. proc' \in [Procs -> {Idle} \cup [pc : {"spawned"}, id : Ids] \cup Transactions]
  <2>1. proc' = [q \in Procs |-> proc'[q]]
    BY DEF Overtaken
  <2> QED  BY <1>1, <2>1
<1>3. ReadsFresh'
  <2> SUFFICES ASSUME NEW q \in Procs, proc'[q].pc = "open", ~proc'[q].stale
               PROVE  byId'[proc'[q].id] = proc'[q].rec
    BY DEF ReadsFresh, IsOpen
  <2>1. proc[q].pc = "open" /\ ~proc[q].stale /\ proc'[q] = proc[q] /\ proc[q].id # id
    BY <1>1
  <2>2. proc[q].id \in Ids
    BY <2>1 DEF TypeOK, Transactions, Idle
  <2> QED  BY <2>1, <2>2 DEF ReadsFresh, IsOpen
<1> QED  BY <1>2, <1>3

\* A step that changes neither index only has to keep the transactions right.
LEMMA NoWriteGood ==
  ASSUME IInv, UNCHANGED <<byId, byHash, history>>,
         proc' \in [Procs -> {Idle} \cup [pc : {"spawned"}, id : Ids] \cup Transactions],
         ReadsFresh'
  PROVE  IInv'
  BY DEF IInv, TypeOK, RecordsOwned, OnlyRevoked, RevokedStays, DeletedStays,
     IndexesAgree, WorksUntilRevoked, Alone, Valid, history


\* A new key takes over the record of its ID; the key that had the ID before,
\* if any, is no longer alone with it.
LEMMA CreateGood ==
  ASSUME IInv, NEW p \in Procs, NEW k \in Keys, NEW id \in Ids, Create(p, k, id)
  PROVE  IInv'
<1> USE DEF IInv
<1>1. [key |-> k, active |-> TRUE] \in IdRecords /\ [id |-> id, active |-> TRUE] \in HashRecords
  BY DEF IdRecords, HashRecords
<1>2. /\ byId' \in [Ids -> IdRecords \cup {NoRec}]
      /\ byHash' \in [Keys -> HashRecords \cup {NoRec}]
      /\ idOf' \in [Keys -> Ids \cup {None}]
      /\ byId'[id] = [key |-> k, active |-> TRUE]
      /\ \A i \in Ids \ {id} : byId'[i] = byId[i]
      /\ byHash'[k] = [id |-> id, active |-> TRUE]
      /\ \A j \in Keys \ {k} : byHash'[j] = byHash[j] /\ idOf'[j] = idOf[j]
      /\ idOf'[k] = id
      /\ idOf[k] = None
  BY <1>1 DEF Create, TypeOK
<1>3. /\ proc' \in [Procs -> {Idle} \cup [pc : {"spawned"}, id : Ids] \cup Transactions]
      /\ ReadsFresh'
  BY <1>2, OvertakenGood DEF Create
<1>4. k \notin revoked' \cup deleted' /\ id # None
  BY <1>2, NoneAssumption DEF Create, OnlyRevoked
<1>5. TypeOK'
  BY <1>2, <1>3 DEF TypeOK, Create
<1>6. RecordsOwned' /\ OnlyRevoked'
  <2>1. ASSUME NEW i \in Ids \ {id}, byId[i] # NoRec  PROVE byId[i].key # k /\ byId[i].key \in Keys
    BY <2>1, <1>2, NoneAssumption DEF RecordsOwned, TypeOK, IdRecords
  <2> QED  BY <1>1, <1>2, <1>4, <2>1, NoRecAssumption
           DEF RecordsOwned, OnlyRevoked, Create, TypeOK, IdRecords
<1>7. ASSUME NEW j \in Keys \ {k}, Alone(j)'
      PROVE  Alone(j) /\ idOf[j] \in Ids \ {id} /\ byId'[idOf'[j]] = byId[idOf[j]]
             /\ byHash'[j] = byHash[j] /\ idOf'[j] = idOf[j]
  BY <1>2, <1>7 DEF Alone, TypeOK
<1>8. RevokedStays' /\ DeletedStays' /\ IndexesAgree' /\ WorksUntilRevoked'
  <2>1. RevokedStays' /\ DeletedStays'
    BY <1>2, <1>4, <1>7 DEF RevokedStays, DeletedStays, Create, Valid, TypeOK
  <2>2. IndexesAgree'
    <3>1. byHash'[k] # NoRec
      BY <1>1, <1>2, NoRecAssumption DEF HashRecords
    <3>2. byHash'[k].id = idOf'[k] /\ byHash'[k].active = TRUE /\ byId'[idOf'[k]] = [key |-> k, active |-> TRUE]
      BY <1>2
    <3>3. ASSUME NEW j \in Keys \ {k}, Alone(j)'
          PROVE  IF byHash'[j] = NoRec THEN byId'[idOf'[j]] = NoRec
                 ELSE /\ byHash'[j].id = idOf'[j]
                      /\ byId'[idOf'[j]] = [key |-> j, active |-> byHash'[j].active]
      BY <1>7, <3>3 DEF IndexesAgree
    <3> QED  BY <3>1, <3>2, <3>3 DEF IndexesAgree
  <2>3. WorksUntilRevoked'
    BY <1>1, <1>2, NoRecAssumption DEF WorksUntilRevoked, Valid, Create, HashRecords
  <2> QED  BY <2>1, <2>2, <2>3
<1> QED  BY <1>3, <1>5, <1>6, <1>8

\* Validating a key leaves an updateLastUsed to run, and no record changed.
LEMMA ValidateKeyGood ==
  ASSUME IInv, NEW p \in Procs, NEW k \in Keys, ValidateKey(p, k)
  PROVE  IInv'
<1>1. byHash[k].id \in Ids
  BY DEF IInv, TypeOK, ValidateKey, Valid, HashRecords
<1>2. proc' = [proc EXCEPT ![p] = [pc |-> "spawned", id |-> byHash[k].id]]
  BY DEF ValidateKey, Spawned
<1>3. proc' \in [Procs -> {Idle} \cup [pc : {"spawned"}, id : Ids] \cup Transactions]
  BY <1>1, <1>2 DEF IInv, TypeOK
<1>4. ReadsFresh'
  BY <1>2 DEF IInv, TypeOK, ReadsFresh, IsOpen, ValidateKey
<1> QED  BY <1>3, <1>4, NoWriteGood DEF ValidateKey

\* A transaction reads the record it will later commit.
LEMMA ReadGood ==
  ASSUME IInv, NEW p \in Procs, NEW op \in Ops, NEW id \in Ids, byId[id] # NoRec,
         proc' = [proc EXCEPT ![p] = Open(op, id)], UNCHANGED <<byId, byHash, history>>
  PROVE  IInv'
<1>1. Open(op, id) \in Transactions
  BY DEF Open, Transactions, IInv, TypeOK
<1>2. proc' \in [Procs -> {Idle} \cup [pc : {"spawned"}, id : Ids] \cup Transactions]
  BY <1>1 DEF IInv, TypeOK
<1>3. ReadsFresh'
  BY DEF IInv, TypeOK, ReadsFresh, IsOpen, Open
<1> QED  BY <1>2, <1>3, NoWriteGood

\* A goroutine that ends without a commit: nothing to touch, or a conflict.
LEMMA GoesIdleGood ==
  ASSUME IInv, NEW p \in Procs, proc' = [proc EXCEPT ![p] = Idle],
         UNCHANGED <<byId, byHash, history>>
  PROVE  IInv'
<1>1. proc' \in [Procs -> {Idle} \cup [pc : {"spawned"}, id : Ids] \cup Transactions]
  BY DEF IInv, TypeOK
<1>2. ReadsFresh'
  BY DEF IInv, TypeOK, ReadsFresh, IsOpen, Idle
<1> QED  BY <1>1, <1>2, NoWriteGood

\* A crash drops the open transactions and nothing else.
LEMMA CrashGood == IInv /\ Crash => IInv'
<1> SUFFICES ASSUME IInv, Crash PROVE IInv'
  OBVIOUS
<1>1. /\ proc' \in [Procs -> {Idle} \cup [pc : {"spawned"}, id : Ids] \cup Transactions]
      /\ ReadsFresh'
  BY DEF Crash, ReadsFresh, IsOpen, Idle
<1> QED  BY <1>1, NoWriteGood DEF Crash

\* What every commit starts from: the record read is still the record, and
\* it is that of the key that has this ID.
LEMMA CommitReads ==
  ASSUME IInv, NEW p \in Procs, IsOpen(p), ~proc[p].stale
  PROVE  /\ proc[p] \in Transactions
         /\ proc[p].id \in Ids /\ proc[p].rec \in IdRecords
         /\ byId[proc[p].id] = proc[p].rec
         /\ proc[p].rec.key \in Keys
         /\ idOf[proc[p].rec.key] = proc[p].id
<1>1. proc[p] \in Transactions
  BY DEF IInv, TypeOK, IsOpen, Idle
<1>2. byId[proc[p].id] = proc[p].rec
  BY DEF IInv, ReadsFresh
<1>3. proc[p].id \in Ids /\ proc[p].rec \in IdRecords /\ proc[p].rec.key \in Keys
  BY <1>1 DEF Transactions, IdRecords
<1>4. proc[p].rec # NoRec
  BY <1>3, NoRecAssumption DEF IdRecords
<1> QED  BY <1>1, <1>2, <1>3, <1>4 DEF IInv, RecordsOwned

\* A commit that leaves key k's two records agreeing, and touches no other.
LEMMA CommitGood ==
  ASSUME IInv, NEW p \in Procs, Commit(p),
         NEW k, k = proc[p].rec.key, NEW id, id = proc[p].id,
         NEW hrec \in HashRecords \cup {NoRec}, NEW irec \in IdRecords \cup {NoRec},
         byId' = [byId EXCEPT ![id] = irec],
         byHash' = [byHash EXCEPT ![k] = hrec],
         idOf' = idOf,
         revoked' \in SUBSET (revoked \cup {k}), revoked \subseteq revoked',
         deleted' \in SUBSET (deleted \cup {k}), deleted \subseteq deleted',
         IF hrec = NoRec THEN irec = NoRec /\ k \in deleted'
         ELSE /\ hrec.id = id /\ irec = [key |-> k, active |-> hrec.active]
              /\ hrec.active <=> k \notin revoked'
              /\ k \notin deleted'
  PROVE  IInv'
<1> USE DEF IInv
<1>1. /\ k \in Keys /\ id \in Ids /\ idOf[k] = id
      /\ byId[id] = proc[p].rec
  BY CommitReads DEF Commit
<1>2. /\ byId' \in [Ids -> IdRecords \cup {NoRec}]
      /\ byHash' \in [Keys -> HashRecords \cup {NoRec}]
      /\ byId'[id] = irec /\ byHash'[k] = hrec
      /\ \A i \in Ids \ {id} : byId'[i] = byId[i]
      /\ \A j \in Keys \ {k} : byHash'[j] = byHash[j]
  BY <1>1 DEF TypeOK
<1>3. /\ proc' \in [Procs -> {Idle} \cup [pc : {"spawned"}, id : Ids] \cup Transactions]
      /\ ReadsFresh'
  BY <1>1, <1>2, OvertakenGood DEF Commit
<1>4. TypeOK'
  BY <1>1, <1>2, <1>3 DEF TypeOK
<1>5. irec # NoRec => irec.key = k /\ irec.active = hrec.active /\ hrec # NoRec
  BY DEF HashRecords
<1>6. RecordsOwned'
  BY <1>1, <1>2, <1>5 DEF RecordsOwned
<1>7. OnlyRevoked'
  <2>1. ASSUME NEW i \in Ids \ {id}, byId[i] # NoRec  PROVE byId[i].key # k
    BY <1>1, <2>1 DEF RecordsOwned
  <2>2. \A i \in Ids \ {id} : byId'[i] # NoRec =>
           /\ byId'[i].active <=> byId'[i].key \notin revoked'
           /\ byId'[i].key \notin deleted'
    BY <1>2, <2>1 DEF OnlyRevoked
  <2>3. byId'[id] # NoRec =>
           /\ byId'[id].active <=> byId'[id].key \notin revoked'
           /\ byId'[id].key \notin deleted'
    BY <1>2, <1>5
  <2>4. \A j \in revoked' \cup deleted' : idOf'[j] # None
    BY <1>1, NoneAssumption DEF OnlyRevoked
  <2> QED  BY <2>2, <2>3, <2>4 DEF OnlyRevoked
<1>8. \A j \in Keys : Alone(j)' <=> Alone(j)
  BY DEF Alone
<1>9. ASSUME NEW j \in Keys \ {k}, Alone(j)
      PROVE  idOf[j] \in Ids \ {id} /\ byId'[idOf[j]] = byId[idOf[j]]
  BY <1>1, <1>2, <1>9 DEF Alone, TypeOK
<1>10. RevokedStays'
  BY <1>1, <1>2, <1>8 DEF RevokedStays, Valid, TypeOK
<1>11. DeletedStays'
  <2>1. ASSUME NEW j \in deleted', Alone(j), j # k
        PROVE  byHash'[j] = NoRec /\ byId'[idOf'[j]] = NoRec
    BY <1>2, <1>9, <2>1 DEF DeletedStays, TypeOK
  <2>2. k \in deleted' => byHash'[k] = NoRec /\ byId'[idOf'[k]] = NoRec
    BY <1>1, <1>2
  <2> QED  BY <1>4, <1>8, <2>1, <2>2 DEF DeletedStays, TypeOK
<1>12. IndexesAgree'
  <2>1. ASSUME NEW j \in Keys, Alone(j), j # k
        PROVE  IF byHash'[j] = NoRec THEN byId'[idOf'[j]] = NoRec
               ELSE /\ byHash'[j].id = idOf'[j]
                    /\ byId'[idOf'[j]] = [key |-> j, active |-> byHash'[j].active]
    BY <1>2, <1>9, <2>1 DEF IndexesAgree
  <2>2. IF byHash'[k] = NoRec THEN byId'[idOf'[k]] = NoRec
        ELSE /\ byHash'[k].id = idOf'[k]
             /\ byId'[idOf'[k]] = [key |-> k, active |-> byHash'[k].active]
    BY <1>1, <1>2
  <2> QED  BY <1>8, <2>1, <2>2 DEF IndexesAgree
<1>13. WorksUntilRevoked'
  <2>1. ASSUME NEW j \in Keys, idOf'[j] # None, j \notin revoked' \cup deleted'
        PROVE  byHash'[j] # NoRec /\ byHash'[j].active
    <3>1. CASE j = k
      BY <1>2, <2>1, <3>1 DEF HashRecords
    <3>2. CASE j # k
      BY <1>2, <2>1, <3>2 DEF WorksUntilRevoked, Valid
    <3> QED  BY <3>1, <3>2
  <2> QED  BY <2>1 DEF WorksUntilRevoked, Valid
<1> QED  BY <1>3, <1>4, <1>6, <1>7, <1>10, <1>11, <1>12, <1>13

\* Each kind of transaction leaves the two records of its key agreeing.
LEMMA CommitsGood ==
  ASSUME IInv, NEW p \in Procs, Commit(p)
  PROVE  IInv'
<1> DEFINE id == proc[p].id
           rec == proc[p].rec
           k == rec.key
<1>1. /\ id \in Ids /\ rec \in IdRecords /\ byId[id] = rec /\ k \in Keys /\ idOf[k] = id
      /\ rec = [key |-> k, active |-> rec.active] /\ rec.active \in BOOLEAN
  BY CommitReads DEF Commit, IdRecords
<1>2. rec # NoRec
  BY <1>1, NoRecAssumption DEF IdRecords
<1>3. (rec.active <=> k \notin revoked) /\ k \notin deleted
  BY <1>1, <1>2 DEF IInv, OnlyRevoked
<1>4. CASE Revoke(id, rec)
  <2>1. [id |-> id, active |-> FALSE] \in HashRecords
        /\ [key |-> k, active |-> FALSE] \in IdRecords
    BY <1>1 DEF HashRecords, IdRecords
  <2>2. [id |-> id, active |-> FALSE] # NoRec
    BY <2>1, NoRecAssumption DEF HashRecords
  <2>3. /\ byId' = [byId EXCEPT ![id] = [key |-> k, active |-> FALSE]]
        /\ byHash' = [byHash EXCEPT ![k] = [id |-> id, active |-> FALSE]]
        /\ revoked' = revoked \cup {k} /\ deleted' = deleted /\ idOf' = idOf
    BY <1>4, <2>1 DEF Revoke
  <2>4. revoked' \in SUBSET (revoked \cup {k}) /\ deleted' \in SUBSET (deleted \cup {k})
        /\ revoked \subseteq revoked' /\ deleted \subseteq deleted'
        /\ k \in revoked' /\ k \notin deleted'
    BY <1>3, <2>3
  <2> HIDE DEF id, rec, k
  <2>5. k = proc[p].rec.key /\ id = proc[p].id
    BY DEF id, rec, k
  <2>6. [id |-> id, active |-> FALSE].id = id /\ [id |-> id, active |-> FALSE].active = FALSE
    OBVIOUS
  <2> QED  BY <2>1, <2>2, <2>3, <2>4, <2>5, <2>6, CommitGood
<1>5. CASE Delete(id, rec)
  BY <1>1, <1>3, <1>5, CommitGood DEF Delete
<1>6. CASE updateLastUsed(id, rec)
  <2>1. [id |-> id, active |-> rec.active] \in HashRecords
    BY <1>1 DEF HashRecords
  <2> QED  BY <1>1, <1>3, <1>6, <2>1, NoRecAssumption, CommitGood
           DEF updateLastUsed, HashRecords, history
<1> QED  BY <1>4, <1>5, <1>6 DEF Commit, Apply

\* Every step of the store preserves the invariant.
LEMMA StepGood == IInv /\ [Next]_vars => IInv'
<1> SUFFICES ASSUME IInv, [Next]_vars PROVE IInv'
  OBVIOUS
<1>1. CASE UNCHANGED vars
  BY <1>1, NoWriteGood DEF vars, history, IInv, TypeOK, ReadsFresh, IsOpen
<1>2. ASSUME NEW p \in Procs, Step(p) PROVE IInv'
  <2>1. ASSUME NEW k \in Keys, ValidateKey(p, k) PROVE IInv'
    BY <2>1, ValidateKeyGood
  <2>2. ASSUME NEW k \in Keys, NEW id \in Ids, Create(p, k, id) PROVE IInv'
    BY <2>2, CreateGood
  <2>3. ASSUME NEW id \in Ids, NEW op \in {"revoke", "delete"}, AdminRead(p, op, id) PROVE IInv'
    BY <2>3, ReadGood DEF AdminRead, Ops
  <2>4. CASE TouchRead(p)
    <3>1. proc[p].id \in Ids
      BY <2>4 DEF TouchRead, IInv, TypeOK, Idle, Transactions
    <3>2. CASE byId[proc[p].id] = NoRec
      BY <2>4, <3>2, GoesIdleGood DEF TouchRead
    <3>3. CASE byId[proc[p].id] # NoRec
      BY <2>4, <3>1, <3>3, ReadGood DEF TouchRead, Ops
    <3> QED  BY <3>2, <3>3
  <2>5. CASE Commit(p)
    BY <2>5, CommitsGood
  <2>6. CASE Conflict(p)
    BY <2>6, GoesIdleGood DEF Conflict
  <2> QED  BY <1>2, <2>1, <2>2, <2>3, <2>4, <2>5, <2>6 DEF Step
<1> QED  BY <1>1, <1>2, CrashGood DEF Next

\* Every reachable state satisfies the invariant.
THEOREM Inductive == Spec => []IInv
  BY InitGood, StepGood, PTL DEF Spec

\* The indexes and transactions hold what the code puts there.
THEOREM TypeCorrect == Spec => []TypeOK
<1>1. IInv => TypeOK  BY DEF IInv
<1> QED  BY <1>1, Inductive, PTL

\* A key whose Revoke has returned is never valid again: badger's conflict
\* detection is enough against every late updateLastUsed.
THEOREM RevocationLasts == Spec => []RevokedStays
<1>1. IInv => RevokedStays  BY DEF IInv
<1> QED  BY <1>1, Inductive, PTL

\* A key whose Delete has returned leaves no record behind, and none returns.
THEOREM DeletionLasts == Spec => []DeletedStays
<1>1. IInv => DeletedStays  BY DEF IInv
<1> QED  BY <1>1, Inductive, PTL

\* The two records of a key agree in every committed state.
THEOREM IndexesAgreeAlways == Spec => []IndexesAgree
<1>1. IInv => IndexesAgree  BY DEF IInv
<1> QED  BY <1>1, Inductive, PTL

\* No key stops working but by its own revocation or deletion.
THEOREM KeysKeepWorking == Spec => []WorksUntilRevoked
<1>1. IInv => WorksUntilRevoked  BY DEF IInv
<1> QED  BY <1>1, Inductive, PTL
=============================================================================
