----------------------------- MODULE Accounting -----------------------------
(***************************************************************************)
(* Quota and usage of users (internal/bucket/store.go), the per-user index *)
(* of objects (internal/metadata/store.go), and the upload and delete      *)
(* handlers that update them (internal/api/server.go).                     *)
(*                                                                         *)
(* A handler calls one store after the other without a lock across them.   *)
(* The user of a request is its X-User-ID header or taken from the bucket  *)
(* name; a request without one, and the collector, is Anyone's: it has no  *)
(* quota and changes no usage.                                             *)
(*                                                                         *)
(* An object is a bucket and a key.  Its content is a file, a reference in *)
(* the dedup store, or both: X-Dedup sends an upload to the dedup store,   *)
(* and only the buckets named dedup are deleted from there.  Contents are  *)
(* represented by their sizes.                                             *)
(***************************************************************************)
EXTENDS Integers, FiniteSets

CONSTANTS Users, Objects, Clients,
          Deduped,      \* the objects of the buckets dedup and dedup/...
          Anyone,       \* UserID == ""
          None,         \* no file, no metadata, no bucket record
          Sizes,        \* sizes of uploads; an empty body is refused
          MaxSize,      \* the largest
          FreeQuota,    \* quota of the free tier
          Quotas,       \* quotas an administrator sets
          MaxRequests,  \* bound on requests
          MaxAdmin,     \* bound on administrator's requests
          MaxFailures   \* bound on failed calls of the stores and on crashes

ASSUME SizesAssumption == MaxSize \in Nat /\ Sizes \subseteq 1..MaxSize
ASSUME QuotasAssumption == Quotas \subseteq Nat /\ FreeQuota \in Nat
ASSUME MarkersAssumption == Anyone \notin Users /\ None \notin Nat /\ None \notin Objects
ASSUME BucketAssumption == None \notin [quota : Nat, used : Nat, files : Nat]
ASSUME FiniteAssumption == IsFiniteSet(Objects) /\ IsFiniteSet(Clients) /\ Clients # {}
ASSUME BoundsAssumption == MaxRequests \in Nat /\ MaxAdmin \in Nat /\ MaxFailures \in Nat
ASSUME DedupedAssumption == Deduped \subseteq Objects

VARIABLES
  file,     \* file[p]: size of what is stored at place p, or None
  meta,     \* meta[o]: size and user, or None
  index,    \* index[u]: the objects of keys user:<u>:objects:...
  bucket,   \* bucket[u]: quota, used bytes and files, or None
  req,      \* the request each client's handler is executing
  owner,    \* history: whose upload is stored at p
  exact,    \* history: see below
  high,     \* history: the highest quota the user has had
  requests, admin, failures

vars == <<file, meta, index, bucket, req, owner, exact, high, requests, admin, failures>>

Places == {"plain", "dedup"} \X Objects

Callers == Users \cup {Anyone}
Idle == [pc |-> "idle", user |-> Anyone, obj |-> None, size |-> 0, whose |-> Anyone]

Goto(c, r) == req' = [req EXCEPT ![c] = r]
At(c, pc) == req[c].pc = pc

FreeBucket == [quota |-> FreeQuota, used |-> 0, files |-> 0]
Bucket(u) == IF bucket[u] = None THEN FreeBucket ELSE bucket[u]

\* Where DELETE looks for o, and where PUT may store it: X-Dedup or not.
Home(o) == <<IF o \in Deduped THEN "dedup" ELSE "plain", o>>
Homes(o) == {Home(o), <<"dedup", o>>}

\* A call of a store fails, or the process dies.
Failure == failures < MaxFailures /\ failures' = failures + 1

\* Inexact usage is a matter of history: see UsageExact.
Inexact(us) == exact' = [u \in Users |-> exact[u] /\ u \notin us]

-----------------------------------------------------------------------------
(* bucket.Store                                                            *)

CheckQuota(u, s) == s <= Bucket(u).quota - Bucket(u).used

AtLeastZero(n) == IF n < 0 THEN 0 ELSE n

\* b is the record that was read.
AddUsage(u, b, bytes, n) ==
  bucket' = [bucket EXCEPT ![u] = [quota |-> b.quota,
                                   used |-> AtLeastZero(b.used + bytes),
                                   files |-> AtLeastZero(b.files + n)]]

-----------------------------------------------------------------------------
(* PUT                                                                     *)

Begin(c) == /\ At(c, "idle")
            /\ requests < MaxRequests
            /\ requests' = requests + 1

PutCheck_Skipped(c, u, o, s) ==
  /\ Begin(c)
  /\ Goto(c, [Idle EXCEPT !.pc = "store", !.user = u, !.obj = o, !.size = s])
  /\ UNCHANGED <<file, meta, index, bucket, owner, exact, high, admin, failures>>

\* Without quota the answer is 402 and nothing happens.
PutCheck(c, u, o, s) ==
  /\ Begin(c)
  /\ u # Anyone => CheckQuota(u, s)
  /\ Goto(c, [Idle EXCEPT !.pc = "store", !.user = u, !.obj = o, !.size = s])
  /\ UNCHANGED <<file, meta, index, bucket, owner, exact, high, admin, failures>>

\* CheckQuota takes a failed read for a user without a record.
PutCheckMisreads(c, u, o, s) ==
  /\ Begin(c)
  /\ Failure
  /\ u # Anyone /\ s <= FreeQuota
  /\ Goto(c, [Idle EXCEPT !.pc = "store", !.user = u, !.obj = o, !.size = s])
  /\ UNCHANGED <<file, meta, index, bucket, owner, exact, high, admin>>

\* What is replaced stays in its owner's usage.
PutStore(c) ==
  LET r == req[c]
  IN  /\ At(c, "store")
      /\ \E p \in Homes(r.obj) :
           /\ file' = [file EXCEPT ![p] = r.size]
           /\ owner' = [owner EXCEPT ![p] = r.user]
           /\ Inexact(IF file[p] = None THEN {} ELSE {owner[p]})
      /\ Goto(c, [r EXCEPT !.pc = "putmeta"])
      /\ UNCHANGED <<meta, index, bucket, high, requests, admin, failures>>

PutMeta_IndexLater(c) ==
  LET r == req[c]
  IN  /\ At(c, "putmeta")
      /\ meta' = [meta EXCEPT ![r.obj] = [size |-> r.size, user |-> r.user]]
      /\ index' = [u \in Users |-> IF u = r.user /\ meta[r.obj] = None
                                   THEN index[u] \cup {r.obj} ELSE index[u]]
      /\ Goto(c, [r EXCEPT !.pc = "putusage"])
      /\ UNCHANGED <<file, bucket, owner, exact, high, requests, admin, failures>>

\* The entry of a previous owner stays in the index.
PutMeta(c) ==
  LET r == req[c]
  IN  /\ At(c, "putmeta")
      /\ meta' = [meta EXCEPT ![r.obj] = [size |-> r.size, user |-> r.user]]
      /\ index' = [u \in Users |-> IF u = r.user THEN index[u] \cup {r.obj} ELSE index[u]]
      /\ Goto(c, [r EXCEPT !.pc = "putusage"])
      /\ UNCHANGED <<file, bucket, owner, exact, high, requests, admin, failures>>

\* The error is ignored.
PutMetaFails(c) ==
  /\ At(c, "putmeta")
  /\ Failure
  /\ Goto(c, [req[c] EXCEPT !.pc = "putusage"])
  /\ UNCHANGED <<file, meta, index, bucket, owner, exact, high, requests, admin>>

PutUsage(c) ==
  LET r == req[c]
  IN  /\ At(c, "putusage")
      /\ IF r.user = Anyone THEN UNCHANGED bucket ELSE AddUsage(r.user, Bucket(r.user), r.size, 1)
      /\ Goto(c, Idle)
      /\ UNCHANGED <<file, meta, index, owner, exact, high, requests, admin, failures>>

-----------------------------------------------------------------------------
(* DELETE, and the collector as Anyone                                     *)

\* The size that deleteObject falls back to when it has none from the metadata.
FileSize(u, o) ==
  IF u # Anyone /\ o \notin Deduped /\ file[Home(o)] # None THEN file[Home(o)] ELSE 0

DeleteSize(c, u, o, size) ==
  /\ Begin(c)
  /\ Goto(c, [Idle EXCEPT !.pc = "unlink", !.user = u, !.obj = o, !.size = size])
  /\ UNCHANGED <<file, meta, index, bucket, owner, exact, high, admin>>

DeleteBegins(c, u, o) ==
  /\ DeleteSize(c, u, o, IF meta[o] # None THEN meta[o].size ELSE FileSize(u, o))
  /\ UNCHANGED failures

\* An error of metadata.Get means no metadata, one of store.Get no size.
DeleteMisreads(c, u, o) ==
  /\ Failure
  /\ DeleteSize(c, u, o, IF meta[o] # None THEN FileSize(u, o) ELSE 0)

DeleteFile(c) ==
  LET r == req[c]
      p == Home(r.obj)
  IN  /\ At(c, "unlink")
      /\ file[p] # None
      /\ file' = [file EXCEPT ![p] = None]
      /\ Inexact(IF r.user = owner[p]
                 THEN IF r.size = file[p] THEN {} ELSE {r.user}
                 ELSE {r.user, owner[p]})
      /\ Goto(c, [r EXCEPT !.pc = "metaread"])
      /\ UNCHANGED <<meta, index, bucket, owner, high, requests, admin, failures>>

DeleteMissing_GoesOn(c) ==
  LET r == req[c]
  IN  /\ At(c, "unlink")
      /\ r.obj \notin Deduped /\ file[Home(r.obj)] = None
      /\ Goto(c, [r EXCEPT !.pc = "metaread"])
      /\ UNCHANGED <<file, meta, index, bucket, owner, exact, high, requests, admin, failures>>

\* 404: nothing else is done.
DeleteMissing(c) ==
  LET r == req[c]
  IN  /\ At(c, "unlink")
      /\ r.obj \notin Deduped /\ file[Home(r.obj)] = None
      /\ Goto(c, Idle)
      /\ UNCHANGED <<file, meta, index, bucket, owner, exact, high, requests, admin, failures>>

\* The dedup store reports no error for what is gone, and the handler goes on: a
\* second delete takes the size it has read off the usage again.
DeleteGone(c) ==
  LET r == req[c]
  IN  /\ At(c, "unlink")
      /\ r.obj \in Deduped /\ file[Home(r.obj)] = None
      /\ Inexact(IF r.size = 0 THEN {} ELSE {r.user})
      /\ Goto(c, [r EXCEPT !.pc = "metaread"])
      /\ UNCHANGED <<file, meta, index, bucket, owner, high, requests, admin, failures>>

\* metadata.Delete reads the record in one transaction ...
DeleteMetaRead(c) ==
  LET r == req[c]
  IN  /\ At(c, "metaread")
      /\ Goto(c, IF meta[r.obj] = None THEN [r EXCEPT !.pc = "delusage"]
                 ELSE [r EXCEPT !.pc = "metadel", !.whose = meta[r.obj].user])
      /\ UNCHANGED <<file, meta, index, bucket, owner, exact, high, requests, admin, failures>>

\* ... and deletes it, and the index entry of the user it read, in another.
DeleteMeta(c) ==
  LET r == req[c]
  IN  /\ At(c, "metadel")
      /\ meta' = [meta EXCEPT ![r.obj] = None]
      /\ index' = [u \in Users |-> IF u = r.whose THEN index[u] \ {r.obj} ELSE index[u]]
      /\ Goto(c, [r EXCEPT !.pc = "delusage"])
      /\ UNCHANGED <<file, bucket, owner, exact, high, requests, admin, failures>>

\* Neither error is reported.
DeleteMetaFails(c) ==
  /\ req[c].pc \in {"metaread", "metadel"}
  /\ Failure
  /\ Goto(c, [req[c] EXCEPT !.pc = "delusage"])
  /\ UNCHANGED <<file, meta, index, bucket, owner, exact, high, requests, admin>>

\* What would go below zero is lost.
DeleteUsage(c) ==
  LET r == req[c]
  IN  /\ At(c, "delusage")
      /\ IF r.user = Anyone \/ r.size = 0
         THEN UNCHANGED <<bucket, exact>>
         ELSE /\ AddUsage(r.user, Bucket(r.user), -r.size, -1)
              /\ Inexact(IF Bucket(r.user).used < r.size THEN {r.user} ELSE {})
      /\ Goto(c, Idle)
      /\ UNCHANGED <<file, meta, index, owner, high, requests, admin, failures>>

-----------------------------------------------------------------------------
(* Failures of either                                                      *)

\* The file or dedup store fails: the answer is an error.
StoreFails(c) ==
  /\ req[c].pc \in {"store", "unlink"}
  /\ Failure
  /\ Goto(c, Idle)
  /\ UNCHANGED <<file, meta, index, bucket, owner, exact, high, requests, admin>>

\* AddUsage cannot write the record, or took a failed read for a user without one.
\* The handlers ignore its error.
UsageFails(c) ==
  LET r == req[c]
      s == IF r.pc = "putusage" THEN 1 ELSE -1
  IN  /\ r.pc \in {"putusage", "delusage"} /\ r.user # Anyone /\ r.size # 0
      /\ Failure
      /\ \/ UNCHANGED bucket
         \/ bucket[r.user] # None /\ AddUsage(r.user, FreeBucket, s * r.size, s)
      /\ Inexact({r.user})
      /\ Goto(c, Idle)
      /\ UNCHANGED <<file, meta, index, owner, high, requests, admin>>

\* The process dies with all requests: what was stored or removed and not accounted
\* for yet never is.
Crash ==
  /\ Failure
  /\ req' = [c \in Clients |-> Idle]
  /\ Inexact({req[c].user : c \in {c \in Clients : req[c].pc \notin {"idle", "store", "unlink"}}})
  /\ UNCHANGED <<file, meta, index, bucket, owner, high, requests, admin>>

-----------------------------------------------------------------------------
(* Administration of buckets                                               *)

Admin == /\ admin < MaxAdmin
         /\ admin' = admin + 1
         /\ UNCHANGED <<file, meta, index, req, owner, requests>>

Raise(u, q) == high' = [high EXCEPT ![u] = IF q > @ THEN q ELSE @]

\* Conflict if the user has a bucket, as after a first upload.
CreateBucket(u, q) ==
  /\ Admin
  /\ bucket[u] = None
  /\ bucket' = [bucket EXCEPT ![u] = [FreeBucket EXCEPT !.quota = q]]
  /\ Raise(u, q)
  /\ UNCHANGED <<exact, failures>>

\* The record that exists cannot be read, and is replaced by an empty one.
CreateMisreads(u, q) ==
  /\ Admin
  /\ Failure
  /\ bucket[u] # None
  /\ bucket' = [bucket EXCEPT ![u] = [FreeBucket EXCEPT !.quota = q]]
  /\ Raise(u, q)
  /\ Inexact({u})

UpdateBucket(u, q) ==
  /\ Admin
  /\ bucket[u] # None
  /\ bucket' = [bucket EXCEPT ![u].quota = q]
  /\ Raise(u, q)
  /\ UNCHANGED <<exact, failures>>

\* The objects stay, their usage is forgotten.
DeleteBucket(u) ==
  /\ Admin
  /\ bucket[u] # None
  /\ bucket' = [bucket EXCEPT ![u] = None]
  /\ Inexact({u})
  /\ UNCHANGED <<high, failures>>

-----------------------------------------------------------------------------
Init ==
  /\ file = [p \in Places |-> None]
  /\ meta = [o \in Objects |-> None]
  /\ index = [u \in Users |-> {}]
  /\ bucket = [u \in Users |-> None]
  /\ req = [c \in Clients |-> Idle]
  /\ owner = [p \in Places |-> Anyone]
  /\ exact = [u \in Users |-> TRUE]
  /\ high = [u \in Users |-> FreeQuota]
  /\ requests = 0
  /\ admin = 0
  /\ failures = 0

Handler(c) ==
  \/ \E u \in Callers, o \in Objects : DeleteBegins(c, u, o) \/ \E s \in Sizes : PutCheck(c, u, o, s)
  \/ PutStore(c) \/ PutMeta(c) \/ PutUsage(c)
  \/ DeleteFile(c) \/ DeleteMissing(c) \/ DeleteGone(c)
  \/ DeleteMetaRead(c) \/ DeleteMeta(c) \/ DeleteUsage(c)

Fails(c) ==
  \/ \E u \in Callers, o \in Objects :
       DeleteMisreads(c, u, o) \/ \E s \in Sizes : PutCheckMisreads(c, u, o, s)
  \/ StoreFails(c) \/ PutMetaFails(c) \/ DeleteMetaFails(c) \/ UsageFails(c)

Buckets(u) ==
  DeleteBucket(u) \/ \E q \in Quotas : CreateBucket(u, q) \/ CreateMisreads(u, q) \/ UpdateBucket(u, q)

Next == (\E c \in Clients : Handler(c) \/ Fails(c)) \/ Crash \/ (\E u \in Users : Buckets(u))

Spec == Init /\ [][Next]_vars

-----------------------------------------------------------------------------
(* Properties                                                              *)

\* The stores and the requests in progress; usage is never negative.
TypeOK ==
  /\ file \in [Places -> Sizes \cup {None}]
  /\ meta \in [Objects -> [size : Sizes, user : Callers] \cup {None}]
  /\ index \in [Users -> SUBSET Objects]
  /\ bucket \in [Users -> [quota : Nat, used : Nat, files : Nat] \cup {None}]
  /\ req \in [Clients -> [pc : {"idle", "store", "putmeta", "putusage", "unlink", "metaread",
                                "metadel", "delusage"},
                          user : Callers, obj : Objects \cup {None},
                          size : Sizes \cup {0}, whose : Callers]]
  /\ owner \in [Places -> Callers]
  /\ exact \in [Users -> BOOLEAN]
  /\ high \in [Users -> Nat]
  /\ requests \in 0..MaxRequests /\ admin \in 0..MaxAdmin /\ failures \in 0..MaxFailures

\* The bytes stored for u, and those that handlers of u have yet to add to the
\* usage or to take off it: each is a pair of a place or a handler and a position.
Stored(u) ==
  {b \in Places \X (1..MaxSize) : file[b[1]] # None /\ owner[b[1]] = u /\ b[2] <= file[b[1]]}

Outstanding(u, pcs) ==
  {b \in Clients \X (1..MaxSize) : /\ req[b[1]].user = u /\ req[b[1]].pc \in pcs
                                   /\ b[2] <= req[b[1]].size}

ToAdd(u) == Outstanding(u, {"putmeta", "putusage"})
ToTake(u) == Outstanding(u, {"metaread", "metadel", "delusage"})

\* A user's usage is the size of what the user has stored, up to what handlers
\* in progress have yet to record, unless an object of the user was overwritten,
\* or deleted by somebody else or the collector; a delete worked with a stale
\* size, found less usage than it takes off, or came second to an object of the
\* dedup store; a failed read or write of the bucket record was ignored, or the
\* process died between the two stores; or the bucket record was deleted.
UsageExact ==
  \A u \in Users : exact[u] =>
    Bucket(u).used + Cardinality(ToAdd(u)) = Cardinality(Stored(u)) + Cardinality(ToTake(u))

\* The quota is checked before the upload and the usage added after it: a user
\* exceeds the highest quota in force by at most one upload for each further
\* request in progress at once, and one for each failure, as when CheckQuota
\* could not read the record.
QuotaOverrun ==
  \A u \in Users :
    Bucket(u).used <= high[u] + (Cardinality(Clients) - 1 + failures) * MaxSize

\* The index leaves out none of a user's objects, whatever races there are
\* between uploads and the two transactions of metadata.Delete. Types are as
\* declared.
IndexComplete ==
  /\ TypeOK
  /\ \A o \in Objects, u \in Users : meta[o] # None /\ meta[o].user = u => o \in index[u]
=============================================================================
