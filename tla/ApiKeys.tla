------------------------------- MODULE ApiKeys -------------------------------
(***************************************************************************)
(* The API key store (internal/apikeys/store.go) as the admin server       *)
(* (internal/api/admin.go) and the authentication middleware use it.       *)
(*                                                                         *)
(* A key has two records, one by its ID and one by its hash.  Requests are *)
(* validated by the hash record.  Revoke, Delete and updateLastUsed read   *)
(* the ID record in a badger transaction and write both records.           *)
(* ValidateKey starts updateLastUsed in a goroutine that outlives the      *)
(* request, so a key can be revoked or deleted at any point of it.  What   *)
(* keeps the records from going back is badger's conflict detection: a     *)
(* transaction fails to commit if a record it read was written since.      *)
(***************************************************************************)
EXTENDS Naturals

CONSTANTS Keys,   \* the random keys generateKey returns; their hashes are one to one
          Ids,    \* key_<UnixNano>: the clock may give two keys the same one
          Procs,  \* goroutines: admin requests and updateLastUsed
          NoRec,  \* badger.ErrKeyNotFound
          None

ASSUME NoRecAssumption ==
  NoRec \notin [key : Keys, active : BOOLEAN] \cup [id : Ids, active : BOOLEAN]
ASSUME NoneAssumption == None \notin Ids

VARIABLES
  byId,     \* key:id:<ID>     -> the key and its IsActive, or NoRec
  byHash,   \* key:hash:<hash> -> IsActive and ID, or NoRec
  proc,     \* what each goroutine is doing
  idOf,     \* history: the ID a key was created with, or None
  revoked,  \* history: keys for which a Revoke returned success
  deleted   \* history: keys for which a Delete returned success

history == <<idOf, revoked, deleted>>
vars == <<byId, byHash, proc, idOf, revoked, deleted>>

IdRecords == [key : Keys, active : BOOLEAN]
HashRecords == [id : Ids, active : BOOLEAN]
Ops == {"revoke", "delete", "touch"}

\* A goroutine runs nothing, is about to start updateLastUsed(id), or holds
\* an open transaction that has read rec, which is stale once another
\* transaction has written the record.
Idle == [pc |-> "idle"]
Spawned(id) == [pc |-> "spawned", id |-> id]
Open(op, id) == [pc |-> "open", op |-> op, id |-> id, rec |-> byId[id], stale |-> FALSE]

Transactions ==
  [pc : {"open"}, op : Ops, id : Ids, rec : IdRecords, stale : BOOLEAN]

IsOpen(p) == proc[p].pc = "open"

\* What conflict detection makes of the open transactions when another one,
\* of goroutine p, commits a write of the record of id.
Overtaken(p, id) ==
  [q \in Procs |-> IF q = p THEN Idle
                   ELSE IF IsOpen(q) /\ proc[q].id = id
                        THEN [proc[q] EXCEPT !.stale = TRUE]
                        ELSE proc[q]]

-----------------------------------------------------------------------------
\* Create: two blind writes, which never conflict.
Create_ByIdOnly(p, k, id) ==
  /\ proc[p] = Idle
  /\ idOf[k] = None
  /\ byId' = [byId EXCEPT ![id] = [key |-> k, active |-> TRUE]]
  /\ proc' = Overtaken(p, id)
  /\ idOf' = [idOf EXCEPT ![k] = id]
  /\ UNCHANGED <<byHash, revoked, deleted>>

Create(p, k, id) ==
  /\ proc[p] = Idle
  /\ idOf[k] = None
  /\ byHash' = [byHash EXCEPT ![k] = [id |-> id, active |-> TRUE]]
  /\ byId' = [byId EXCEPT ![id] = [key |-> k, active |-> TRUE]]
  /\ proc' = Overtaken(p, id)
  /\ idOf' = [idOf EXCEPT ![k] = id]
  /\ UNCHANGED <<revoked, deleted>>

Valid(k) == byHash[k] # NoRec /\ byHash[k].active

\* ValidateKey succeeds: the request goes ahead, and updateLastUsed will run.
ValidateKey(p, k) ==
  /\ proc[p] = Idle
  /\ Valid(k)
  /\ proc' = [proc EXCEPT ![p] = Spawned(byHash[k].id)]
  /\ UNCHANGED <<byId, byHash, history>>

TouchRead_NoCheck(p) ==
  /\ proc[p].pc = "spawned"
  /\ proc' = [proc EXCEPT ![p] = Open("touch", proc[p].id)]
  /\ UNCHANGED <<byId, byHash, history>>

\* updateLastUsed reads the record; if it is gone there is nothing to do.
TouchRead(p) ==
  /\ proc[p].pc = "spawned"
  /\ proc' = [proc EXCEPT ![p] = LET id == proc[p].id
                                 IN  IF byId[id] = NoRec THEN Idle ELSE Open("touch", id)]
  /\ UNCHANGED <<byId, byHash, history>>

\* Revoke or Delete of an ID that exists; otherwise they return ErrKeyNotFound.
AdminRead(p, op, id) ==
  /\ proc[p] = Idle
  /\ byId[id] # NoRec
  /\ proc' = [proc EXCEPT ![p] = Open(op, id)]
  /\ UNCHANGED <<byId, byHash, history>>

Revoke_ByIdOnly(id, rec) ==
  /\ byId' = [byId EXCEPT ![id] = [key |-> rec.key, active |-> FALSE]]
  /\ revoked' = revoked \cup {rec.key}
  /\ UNCHANGED <<byHash, idOf, deleted>>

\* Both records as the operation leaves them.
Revoke(id, rec) ==
  /\ byId' = [byId EXCEPT ![id] = [key |-> rec.key, active |-> FALSE]]
  /\ byHash' = [byHash EXCEPT ![rec.key] = [id |-> id, active |-> FALSE]]
  /\ revoked' = revoked \cup {rec.key}
  /\ UNCHANGED <<idOf, deleted>>

Delete_KeepsHash(id, rec) ==
  /\ byId' = [byId EXCEPT ![id] = NoRec]
  /\ deleted' = deleted \cup {rec.key}
  /\ UNCHANGED <<byHash, idOf, revoked>>

Delete(id, rec) ==
  /\ byId' = [byId EXCEPT ![id] = NoRec]
  /\ byHash' = [byHash EXCEPT ![rec.key] = NoRec]
  /\ deleted' = deleted \cup {rec.key}
  /\ UNCHANGED <<idOf, revoked>>

updateLastUsed_AsValidated(id, rec) ==
  /\ byId' = [byId EXCEPT ![id] = [rec EXCEPT !.active = TRUE]]
  /\ byHash' = [byHash EXCEPT ![rec.key] = [id |-> id, active |-> TRUE]]
  /\ UNCHANGED history

\* LastUsedAt is not modelled: the rest of the record is written back.
updateLastUsed(id, rec) ==
  /\ byId' = [byId EXCEPT ![id] = rec]
  /\ byHash' = [byHash EXCEPT ![rec.key] = [id |-> id, active |-> rec.active]]
  /\ UNCHANGED history

Apply(txn) ==
  \/ txn.op = "revoke" /\ Revoke(txn.id, txn.rec)
  \/ txn.op = "delete" /\ Delete(txn.id, txn.rec)
  \/ txn.op = "touch"  /\ updateLastUsed(txn.id, txn.rec)

Commit(p) ==
  /\ IsOpen(p)
  /\ ~proc[p].stale
  /\ Apply(proc[p])
  /\ proc' = Overtaken(p, proc[p].id)

\* ErrConflict: Update does not retry.  The admin gets an error, for
\* updateLastUsed nobody notices.
Conflict(p) ==
  /\ IsOpen(p)
  /\ proc[p].stale
  /\ proc' = [proc EXCEPT ![p] = Idle]
  /\ UNCHANGED <<byId, byHash, history>>

\* The process dies and starts again; badger keeps what was committed.
Crash ==
  /\ proc' = [p \in Procs |-> Idle]
  /\ UNCHANGED <<byId, byHash, history>>

Init ==
  /\ byId = [id \in Ids |-> NoRec]
  /\ byHash = [k \in Keys |-> NoRec]
  /\ proc = [p \in Procs |-> Idle]
  /\ idOf = [k \in Keys |-> None]
  /\ revoked = {}
  /\ deleted = {}

Step(p) ==
  \/ \E k \in Keys : ValidateKey(p, k) \/ \E id \in Ids : Create(p, k, id)
  \/ \E id \in Ids : AdminRead(p, "revoke", id) \/ AdminRead(p, "delete", id)
  \/ TouchRead(p) \/ Commit(p) \/ Conflict(p)

Next == Crash \/ \E p \in Procs : Step(p)

Spec == Init /\ [][Next]_vars

-----------------------------------------------------------------------------
(* Properties                                                              *)

\* The two indexes hold records of keys, open transactions what they read.
TypeOK ==
  /\ byId \in [Ids -> IdRecords \cup {NoRec}]
  /\ byHash \in [Keys -> HashRecords \cup {NoRec}]
  /\ proc \in [Procs -> {Idle} \cup [pc : {"spawned"}, id : Ids] \cup Transactions]
  /\ idOf \in [Keys -> Ids \cup {None}]
  /\ revoked \subseteq Keys /\ deleted \subseteq Keys

\* No other key was created with k's ID.
Alone(k) == idOf[k] # None /\ \A j \in Keys \ {k} : idOf[j] # idOf[k]

\* "Revoked keys immediately stop working", and for good: no late
\* updateLastUsed and no transaction begun before brings a key back whose
\* Revoke has returned.
RevokedStays == \A k \in revoked : Alone(k) => ~Valid(k)

\* Nor does anything bring back a record of a key whose Delete has returned.
DeletedStays ==
  \A k \in deleted : Alone(k) => byHash[k] = NoRec /\ byId[idOf[k]] = NoRec

\* What the admin's list shows, which is read by ID, is what requests are
\* validated against, which is read by hash.
IndexesAgree ==
  \A k \in Keys : Alone(k) =>
    IF byHash[k] = NoRec THEN byId[idOf[k]] = NoRec
    ELSE /\ byHash[k].id = idOf[k]
         /\ byId[idOf[k]] = [key |-> k, active |-> byHash[k].active]

\* A key that was created works until it is revoked or deleted, whatever
\* happens to other keys, those with the same ID included.
WorksUntilRevoked ==
  \A k \in Keys : idOf[k] # None /\ k \notin revoked \cup deleted => Valid(k)
=============================================================================
