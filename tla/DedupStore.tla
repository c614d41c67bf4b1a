----------------------------- MODULE DedupStore -----------------------------
(***************************************************************************)
(* internal/dedup: the content-addressed store.  Every object is a         *)
(* reference record "ref:<bucket>:<key>" naming the hash of its content;   *)
(* every content has one blob record "blob:<hash>" with its reference      *)
(* count, and one file.  Records change only in badger transactions, files *)
(* change immediately, and both happen under the store's exclusive lock.   *)
(*                                                                         *)
(* An operation is cut where a process that dies, or a call that fails,    *)
(* leaves a different state behind: after the upload was spooled, after    *)
(* the blob file was put in place, after the transaction's function ran    *)
(* (which may already have unlinked a file), and after the commit.         *)
(***************************************************************************)
EXTENDS Integers, FiniteSets

CONSTANTS Keys,      \* the (bucket, key) pairs
          Hashes,    \* content hashes; equal contents have equal hashes
          NoRef,     \* no reference record
          NoBlob,    \* no blob record
          ReadError, \* what Get reports when it cannot open the blob file
          MaxFaults  \* bound on crashes and failed calls in a behaviour

ASSUME KeysAssumption == IsFiniteSet(Keys)
ASSUME HashesAssumption == IsFiniteSet(Hashes)
ASSUME NoRefAssumption == NoRef \notin Hashes \cup Keys
ASSUME NoBlobAssumption == NoBlob \notin Int
ASSUME ReadErrorAssumption == ReadError \notin Hashes \cup {NoRef}
ASSUME MaxFaultsAssumption == MaxFaults \in Nat

VARIABLES
  refs,         \* committed reference records: key -> hash or NoRef
  blobs,        \* committed blob records: hash -> RefCount or NoBlob
  files,        \* blob files: "absent", "partial" (copy cut short), "whole"
  tmp,          \* whether the running upload's temporary file exists
  litter,       \* temporary files left behind by processes that died
  pc,           \* where the holder of the lock is; "idle": lock free
  op,           \* the operation the holder executes
  txn,          \* what its transaction will commit, and the file it unlinked
  faults,       \* faults so far
  unlinkFaults, \* those that struck between an unlink and its commit
  unread,       \* references that committed transactions replaced without having
                \* been able to read them: <<number of the fault, hash>>
  got           \* the last answer of Get

db == <<refs, blobs>>
vars == <<refs, blobs, files, tmp, litter, pc, op, txn, faults, unlinkFaults, unread,
          got>>

NoOp == [kind |-> "none", src |-> NoRef, dst |-> NoRef, hash |-> NoRef, info |-> 0]

\* The transaction's view of the database as it starts, nothing unlinked and
\* nothing unread.
Snapshot == [refs |-> refs, blobs |-> blobs, victim |-> NoRef, unread |-> NoRef]
NoTxn == [refs |-> [k \in Keys |-> NoRef], blobs |-> [h \in Hashes |-> NoBlob],
          victim |-> NoRef, unread |-> NoRef]

Holders(r, h) == {k \in Keys : r[k] = h}

-----------------------------------------------------------------------------
(* The functions the transactions execute, from view to view.  A name with *)
(* a suffix is a faulty variant that one of the properties below rejects.  *)

decrementRefCount_OffByOne(v, h) ==
  IF v.blobs[h] - 1 <= 1
  THEN [v EXCEPT !.blobs[h] = NoBlob, !.victim = h]
  ELSE [v EXCEPT !.blobs[h] = @ - 1]

decrementRefCount_KeepsZero(v, h) ==
  IF v.blobs[h] - 1 < 0
  THEN [v EXCEPT !.blobs[h] = NoBlob, !.victim = h]
  ELSE [v EXCEPT !.blobs[h] = @ - 1]

decrementRefCount_NoUnlink(v, h) ==
  IF v.blobs[h] - 1 <= 0
  THEN [v EXCEPT !.blobs[h] = NoBlob]
  ELSE [v EXCEPT !.blobs[h] = @ - 1]

decrementRefCount(v, h) ==
  IF v.blobs[h] - 1 <= 0
  THEN [v EXCEPT !.blobs[h] = NoBlob, !.victim = h]
  ELSE [v EXCEPT !.blobs[h] = @ - 1]

\* old is the reference that the transaction read at the key it is to replace:
\* NoRef also when there is one and reading it failed, which the code ignores.
StoreTxn_DoubleCount(v, k, h, info, old) ==
  LET w == IF old \notin {NoRef, h} THEN decrementRefCount(v, old) ELSE v
  IN  [w EXCEPT !.blobs[h] = info, !.refs[k] = h]

StoreTxn(v, k, h, info, old) ==
  LET w == IF old \notin {NoRef, h} THEN decrementRefCount(v, old) ELSE v
  IN  [w EXCEPT !.blobs[h] = IF old = h THEN info - 1 ELSE info,
                !.refs[k] = h]

DeleteTxn(v, k) ==
  IF v.refs[k] = NoRef
  THEN v
  ELSE decrementRefCount([v EXCEPT !.refs[k] = NoRef], v.refs[k])

MoveTxn_KeepsSource(v, s, d, old) ==
  LET w == IF old = NoRef THEN v ELSE decrementRefCount(v, old)
  IN  [w EXCEPT !.refs[d] = v.refs[s]]

\* The destination is set before the source is deleted, also when they are
\* the same key.
MoveTxn(v, s, d, old) ==
  LET w == IF old = NoRef THEN v ELSE decrementRefCount(v, old)
  IN  [w EXCEPT !.refs[d] = v.refs[s], !.refs[s] = NoRef]

Run(o, old) ==
  CASE o.kind = "store"  -> StoreTxn(Snapshot, o.dst, o.hash, o.info, old)
    [] o.kind = "delete" -> DeleteTxn(Snapshot, o.src)
    [] o.kind = "move"   -> MoveTxn(Snapshot, o.src, o.dst, old)

\* The transaction's function returns an error: nothing to move, or a
\* reference count to decrement has no record.
Rejected(o) ==
  \/ o.kind = "move" /\ refs[o.src] = NoRef
  \/ /\ refs[o.dst] \notin (IF o.kind = "store" THEN {NoRef, o.hash} ELSE {NoRef})
     /\ blobs[refs[o.dst]] = NoBlob

-----------------------------------------------------------------------------
Init == /\ refs = [k \in Keys |-> NoRef]
        /\ blobs = [h \in Hashes |-> NoBlob]
        /\ files = [h \in Hashes |-> "absent"]
        /\ tmp = FALSE
        /\ litter = 0
        /\ pc = "idle"
        /\ op = NoOp
        /\ txn = NoTxn
        /\ faults = 0
        /\ unlinkFaults = 0
        /\ unread = {}
        /\ got = [key |-> NoRef, res |-> NoRef]

\* The operation returns: its deferred calls remove the temporary file (a
\* no-op once it was renamed) and release the lock.
Return == /\ pc' = "idle"
          /\ op' = NoOp
          /\ txn' = NoTxn
          /\ tmp' = FALSE
          /\ UNCHANGED litter

Fault == /\ faults < MaxFaults
         /\ faults' = faults + 1
         /\ unlinkFaults' = IF pc = "commit" /\ txn.victim # NoRef
                            THEN unlinkFaults + 1 ELSE unlinkFaults
NoFault == UNCHANGED <<faults, unlinkFaults>>

-----------------------------------------------------------------------------
(* Store(bucket, key, reader)                                              *)

\* The lock is taken, the body is spooled to a temporary file and hashed.
StoreUpload(k, h) ==
  /\ pc = "idle"
  /\ pc' = "store"
  /\ op' = [kind |-> "store", src |-> k, dst |-> k, hash |-> h, info |-> 0]
  /\ tmp' = TRUE
  /\ NoFault
  /\ UNCHANGED <<db, files, litter, txn, unread, got>>

\* A blob record exists: count one more reference and trust its file.
StoreHit ==
  /\ pc = "store"
  /\ blobs[op.hash] # NoBlob
  /\ op' = [op EXCEPT !.info = blobs[op.hash] + 1]
  /\ pc' = "txn"
  /\ NoFault
  /\ UNCHANGED <<db, files, tmp, litter, txn, unread, got>>

\* No blob record: the temporary file becomes the blob file.
StorePlace ==
  /\ pc = "store"
  /\ blobs[op.hash] = NoBlob
  /\ files' = [files EXCEPT ![op.hash] = "whole"]
  /\ tmp' = FALSE
  /\ op' = [op EXCEPT !.info = 1]
  /\ pc' = "txn"
  /\ NoFault
  /\ UNCHANGED <<db, litter, txn, unread, got>>

\* The rename failed: copyFile truncates the destination and fills it.
StoreCopy ==
  /\ pc = "store"
  /\ blobs[op.hash] = NoBlob
  /\ files' = [files EXCEPT ![op.hash] = "partial"]
  /\ pc' = "copy"
  /\ Fault
  /\ UNCHANGED <<db, tmp, litter, op, txn, unread, got>>

StoreCopied_Early ==
  /\ pc = "copy"
  /\ op' = [op EXCEPT !.info = 1]
  /\ pc' = "txn"
  /\ NoFault
  /\ UNCHANGED <<db, files, tmp, litter, txn, unread, got>>

StoreCopied ==
  /\ pc = "copy"
  /\ files' = [files EXCEPT ![op.hash] = "whole"]
  /\ op' = [op EXCEPT !.info = 1]
  /\ pc' = "txn"
  /\ NoFault
  /\ UNCHANGED <<db, tmp, litter, txn, unread, got>>

\* Spooling, the existence check, mkdir or the copy fails: Store returns.
StoreFails ==
  /\ pc \in {"store", "copy"}
  /\ Fault
  /\ Return
  /\ UNCHANGED <<db, files, unread, got>>

-----------------------------------------------------------------------------
(* Delete(bucket, key) and Move(src, dest) are one transaction each.       *)

Delete(k) ==
  /\ pc = "idle"
  /\ pc' = "txn"
  /\ op' = [kind |-> "delete", src |-> k, dst |-> k, hash |-> NoRef, info |-> 0]
  /\ NoFault
  /\ UNCHANGED <<db, files, tmp, litter, txn, unread, got>>

Move(s, d) ==
  /\ pc = "idle"
  /\ pc' = "txn"
  /\ op' = [kind |-> "move", src |-> s, dst |-> d, hash |-> NoRef, info |-> 0]
  /\ NoFault
  /\ UNCHANGED <<db, files, tmp, litter, txn, unread, got>>

-----------------------------------------------------------------------------
(* The transaction                                                         *)

\* Its function runs to the end: writes are pending, but the file of a blob
\* that lost its last reference is already unlinked.
TxnRun ==
  /\ pc = "txn"
  /\ ~Rejected(op)
  /\ txn' = Run(op, refs[op.dst])
  /\ files' = IF txn'.victim = NoRef THEN files
              ELSE [files EXCEPT ![txn'.victim] = "absent"]
  /\ pc' = "commit"
  /\ NoFault
  /\ UNCHANGED <<db, tmp, litter, op, unread, got>>

\* Reading the reference to replace fails, and Store and Move go on as if there
\* were none: its blob keeps the count.
TxnMisreads ==
  /\ pc = "txn"
  /\ op.kind \in {"store", "move"}
  /\ refs[op.src] # NoRef /\ refs[op.dst] # NoRef
  /\ txn' = [Run(op, NoRef) EXCEPT !.unread = refs[op.dst]]
  /\ pc' = "commit"
  /\ Fault
  /\ UNCHANGED <<db, files, tmp, litter, op, unread, got>>

TxnRejected ==
  /\ pc = "txn"
  /\ Rejected(op)
  /\ Return
  /\ NoFault
  /\ UNCHANGED <<db, files, unread, got>>

\* Reading a record, os.Remove or writing a record fails, and with it the
\* transaction's function.  (What fails after an unlink leaves what CommitFails
\* leaves.)
TxnFails ==
  /\ pc = "txn"
  /\ Fault
  /\ Return
  /\ UNCHANGED <<db, files, unread, got>>

\* What a commit adds to the replaced references that were never read.
Pending == IF txn.unread = NoRef THEN {} ELSE {<<faults, txn.unread>>}

Commit ==
  /\ pc = "commit"
  /\ refs' = txn.refs
  /\ blobs' = txn.blobs
  /\ unread' = unread \cup Pending
  /\ Return
  /\ NoFault
  /\ UNCHANGED <<files, got>>

CommitFails ==
  /\ pc = "commit"
  /\ Fault
  /\ Return
  /\ UNCHANGED <<db, files, unread, got>>

\* The process dies and is started again: NewStore reopens the database and
\* leaves files and temporary files as they are.
Crash ==
  /\ pc # "idle"
  /\ Fault
  /\ pc' = "idle"
  /\ op' = NoOp
  /\ txn' = NoTxn
  /\ tmp' = FALSE
  /\ litter' = litter + (IF tmp THEN 1 ELSE 0)
  /\ UNCHANGED <<db, files, unread, got>>

-----------------------------------------------------------------------------
(* Get(bucket, key) and GetStats, under the shared lock                    *)

Get(k) ==
  /\ pc = "idle"
  /\ got' = [key |-> k,
             res |-> IF refs[k] = NoRef \/ files[refs[k]] # "absent"
                     THEN refs[k] ELSE ReadError]
  /\ NoFault
  /\ UNCHANGED <<db, files, tmp, litter, pc, op, txn, unread>>

\* The sum of the reference counts is the number of pairs of a recorded blob and one
\* of the references it counts.
GetStats ==
  LET recorded == {h \in Hashes : blobs[h] # NoBlob}
  IN  [TotalBlobs      |-> Cardinality(recorded),
       TotalReferences |-> Cardinality({k \in Keys : refs[k] # NoRef}),
       LogicalBlobs    |-> Cardinality(UNION {{h} \X (1 .. blobs[h]) : h \in recorded})]

-----------------------------------------------------------------------------
Next ==
  \/ \E k \in Keys, h \in Hashes : StoreUpload(k, h)
  \/ StoreHit \/ StorePlace \/ StoreCopy \/ StoreCopied \/ StoreFails
  \/ \E k \in Keys : Delete(k) \/ Get(k)
  \/ \E s, d \in Keys : Move(s, d)
  \/ TxnRun \/ TxnMisreads \/ TxnRejected \/ TxnFails \/ Commit \/ CommitFails
  \/ Crash

Spec == Init /\ [][Next]_vars

-----------------------------------------------------------------------------
(* Properties                                                              *)

Refs   == [Keys -> Hashes \cup {NoRef}]
Blobs  == [Hashes -> (Nat \ {0}) \cup {NoBlob}]
Slots  == Hashes \cup {NoRef}
Ops    == [kind : {"store", "delete", "move"}, src : Keys, dst : Keys,
           hash : Slots, info : Nat] \cup {NoOp}

\* The variables keep their types; in particular a blob record is deleted
\* rather than left, or committed, with a reference count of zero.
TypeOK ==
  /\ refs \in Refs
  /\ blobs \in Blobs
  /\ files \in [Hashes -> {"absent", "partial", "whole"}]
  /\ tmp \in BOOLEAN
  /\ litter \in Nat
  /\ pc \in {"idle", "store", "copy", "txn", "commit"}
  /\ op \in Ops
  /\ txn \in [refs : Refs, blobs : Blobs, victim : Slots, unread : Slots]
  /\ faults \in Nat
  /\ unlinkFaults \in Nat
  /\ unread \subseteq (Nat \X Hashes)
  /\ got \in [key : Keys \cup {NoRef}, res : Slots \cup {ReadError}]

\* A blob record counts the references to its hash and those replaced unread,
\* and there is a record only for a hash that has one of either.
Count(r, u, h) == Cardinality(Holders(r, h)) + Cardinality({x \in u : x[2] = h})

Exact(r, b, u) ==
  \A h \in Hashes : b[h] = IF Count(r, u, h) = 0 THEN NoBlob ELSE Count(r, u, h)

\* decrementRefCount, Store and Move keep RefCount equal to the number of
\* references through crashes, aborted transactions and overwrites.  The one
\* exception is a transaction that could not read the reference it replaced and
\* was committed all the same: that blob's count stays one too high for good.
RefCountExact == Exact(refs, blobs, unread)

\* A blob file whose copy was cut short is never the file of a recorded
\* blob: the record is committed only after Store finished the file.
NoPartialBlob ==
  \A h \in Hashes : blobs[h] # NoBlob => files[h] # "partial"

Lost   == {h \in Hashes : Holders(refs, h) # {} /\ files[h] # "whole"}
Orphan == {h \in Hashes : Holders(refs, h) = {} /\ files[h] # "absent"}

\* Between operations a referenced blob has lost its file only through a fault
\* that struck between decrementRefCount's os.Remove and the commit, and one
\* such fault costs at most one blob.
LossBounded == pc = "idle" => Cardinality(Lost) <= unlinkFaults

\* Space is accounted for: without faults no blob file outlives its last
\* reference and no temporary file its upload, each fault leaks at most one of
\* them each, and what GetStats sums up over the blob records is what it counts
\* one by one, and one more for each reference replaced unread.
SpaceAccounted ==
  pc = "idle" =>
    /\ Cardinality(Orphan) <= faults /\ litter <= faults
    /\ GetStats.LogicalBlobs = GetStats.TotalReferences + Cardinality(unread)
    /\ GetStats.TotalBlobs <= GetStats.LogicalBlobs
    /\ Cardinality(unread) <= faults

\* A blob file is unlinked only by the operation that drops the last
\* reference to its content: no other key loses data.
UnlinkOnlyLast ==
  [][\A h \in Hashes : files[h] = "whole" /\ files'[h] = "absent"
                          => Holders(refs, h) = {op.dst}]_vars

OM == INSTANCE ObjectMap WITH content <- refs, Contents <- Hashes, Absent <- NoRef

\* As long as no fault strikes between an unlink and its commit, the store
\* is an atomic map from keys to contents: every step is a step of ObjectMap
\* or changes nothing a caller can see.
ImplementsMap == OM!Init /\ [][unlinkFaults' = 0 => [OM!Next]_(OM!vars)]_vars

\* Every object that Store acknowledged can be read back by Get.
Readable == pc = "idle" => \A k \in Keys : refs[k] # NoRef => files[refs[k]] = "whole"
=============================================================================
