# A TLA+ model of oelala-storage

This directory models the storage node in the repository: what its stores,
handlers and background workers do to shared state, which interleavings,
crashes and failures they meet, and which promises hold. TLC checks the models
on small instances; TLAPS proves every safety property that they satisfy for every
instance.

## Inventory of the system

The node is one Go process. HTTP handlers run concurrently, one goroutine per
request, and call stores that each have their own consistency: the file
system, and several badger databases with serialisable transactions.

| Component | State | Operations | Interacts with | What makes it correct |
|---|---|---|---|---|
| `internal/dedup` | reference records `ref:bucket:key`, blob records with `RefCount`, blob files, temporary files | `Store`, `Delete`, `Move`, `Get`, `GetStats` | object handlers | counts exact, files of referenced blobs present and complete, unreferenced files gone |
| `internal/storage` | one file per object | `Put`, `Get`, `Delete`, `Exists`, `Move`, `List` | object handlers, collector, replication | replacement is atomic |
| `internal/metadata` | object records with `ExpiresAt`, index by user | `Put`, `Get`, `Delete`, `ListByUser`, `ListExpired` | object handlers, collector | agrees with the stores; index agrees with the records |
| `internal/gc` | statistics; a listing while it runs | `Start`, `RunOnce`, `Stop` | metadata and file stores, `POST /gc/run` | deletes what has expired, only that, and counts it once |
| `internal/api` (objects) | none between requests | put, post (move), get, head, delete, list | all stores, webhooks | content and metadata go together; GET finds what PUT stored; pages and ranges fit together over several requests |
| `internal/webhook` | bounded channel, two workers | `Emit`, `Stop` | handlers, receivers | bounded attempts, no silent loss, no deadlock |
| `internal/bucket`, `internal/quota` | usage and quota per user | `AddUsage`, `CheckQuota`, `Create`, `Update` | object handlers | usage equals what is stored; quota not exceeded |
| `internal/sync` replicator, server | `LastSync`, counters, by peer ID | pull and push cycles, gRPC server | file store, other nodes | objects reach every peer |
| `internal/sync` discovery | table of peers with `LastSeen` | scans, static peers, pruning | mDNS, replicator | becomes right when the network is quiet; one ID is one node |
| `internal/apikeys`, `internal/auth` | key records, hash index | `Create`, `ValidateKey`, `Revoke`, `Delete` | middleware, admin API | a revoked key stays revoked |
| `internal/metering` | ring of events, badger log | `Record`, `GetSummary`, warm-up | handlers | summaries agree with the recorded events, over restarts too |
| `internal/signedurl`, range and listing code | none | `Generate`, `Verify`, `parseRange`, `listObjects` | handlers | edges: expiry, empty files, page boundaries |
| `cmd` (`serve`) | which stores and services are open, the signal channel | startup, signal, shutdown | everything above | nobody uses a closed store; the node stops; nothing is served half-started |
| `internal/coordinator` | a loop | heartbeats | stopped by `serve` | only its loop is modelled |
| `config`, `logging`, `metrics`, `tls`, other commands | wiring and I/O | | | not modelled |

The behaviours that are hard to test: handlers interleave between the calls
they make to different stores, with no lock across stores; the collector works
from a listing that goes stale; `internal/dedup` changes files inside a badger
transaction, so a crash or failed commit separates files from records; the
webhook channel is bounded and its workers also feed it; several writers
rewrite whole records after reading them; a client sees the store over several
requests between which it changes; peers are known from messages that come late
or not at all; shutdown stops some goroutines, waits for others, and closes the
stores under the rest. `PROJECT.json` lists each hazard at
the line where it bites with the properties that watch it.

## Modules

| Module | Models | Checked by |
|---|---|---|
| `ObjectMap` | abstract specification: an atomic map from keys to contents with Put, Remove, Move, Get | as `DedupStore!ImplementsMap` |
| `DedupStore` | `internal/dedup` | `MCDedupStore` with `MCDedupStore.cfg`, `MCDedupUnlink.cfg` |
| `DedupStoreProofs` | theorems about `DedupStore` | TLAPS |
| `ObjectLifecycle` | put, move and delete handlers, collector, the stores they share | `MCObjectLifecycle` with `MCObjectLifecycle.cfg`, `MCCollectorRace.cfg` |
| `ObjectLifecycleProofs` | theorems about `ObjectLifecycle` | TLAPS |
| `Webhook` | `internal/webhook` dispatcher | `MCWebhook` |
| `WebhookProofs` | theorems about `Webhook` | TLAPS |
| `ApiKeys` | `internal/apikeys` store, with the middleware and admin API that call it | `MCApiKeys` |
| `ApiKeysProofs` | theorems about `ApiKeys` | TLAPS |
| `Replicator` | `internal/sync` replicator and gRPC server, over the nodes' file stores | `MCReplicator` |
| `Discovery` | `internal/sync` discovery, and how the replicator uses its table | `MCDiscovery` |
| `SyncProofs` | theorems about `Replicator` and about `Discovery` | TLAPS |
| `Accounting` | `internal/bucket` usage and quota, the per-user index of `internal/metadata`, the upload and delete handlers around them | `MCAccounting` |
| `Ranges` | `parseRange` as an operator, and its reference by RFC 7233 | `MCReads` |
| `Listing` | one page of `listObjects` as an operator | `MCReads` |
| `Reads` | sessions of listing, download and signed URL, composed of `Listing` and `Ranges`, over a file store that changes | `MCReads` |
| `ReadsProofs` | theorems about `Ranges`, `Listing` and `Reads` | TLAPS |
| `Serve` | the process: `serveCmd` with the services it starts and stops | `MCServe` |
| `ServeProofs` | theorems about `Serve` | TLAPS |
| `Metering` | `internal/metering` with its persistence | `MCMetering` |
| `UsageProofs` | theorems about `Accounting` and about `Metering` | TLAPS |

Names with a suffix (`decrementRefCount_OffByOne`, `Take_Peeks`, ...) are faulty
variants of the definition that follows them; substituting one makes the
property that guards against it fail. `Discovery` and `Metering` carry their own names in
`DiscoveryInit`, `MeteringSpec` and the like, because `SyncProofs` and `UsageProofs` extend
each of them together with a second, independent state machine.

### DedupStore

`refs` and `blobs` are the committed records, `files` the blob files, `tmp` the
temporary file of the running upload and `litter` those of dead processes. The
store's mutex admits one writer, so `pc` and `op` describe the one operation in
progress; `Get` takes the read lock and is one step while no writer runs.
`txn` is the write set of the badger transaction, built by `StoreTxn`,
`DeleteTxn` and `MoveTxn` from the functions passed to `db.Update`, and becomes
visible at `Commit`. An operation is cut exactly where a crash or failing call
leaves a different state: temporary file written; blob file placed (`rename`,
or the copy fallback, which passes through a partial file); transaction
function done, which may already have unlinked a file; commit.

`Store` and `Move` take a failed read of the reference they replace for its
absence (`TxnMisreads`): they commit, and the blob that was replaced keeps a count
for a reference that is gone. `unread` is the history of these, one element for
each; `RefCountExact` and the sums of `SpaceAccounted` are exact up to it, and the file
that is never freed is the leak of that fault. All other failing reads and writes
inside a transaction end it with an error (`TxnFails`).

`faults` counts crashes and failed calls; `unlinkFaults` those that fall between
an unlink and its commit. The counter makes the promise exact:
`LossBounded` says that a referenced blob can lose its file only through such a
fault, `ImplementsMap` that without one every step is a step of `ObjectMap`.
The abstract `Move` sets the destination before it clears the source, as the
code does, so moving a key onto itself removes it.

Assumed: equal hashes mean equal contents (SHA-256); a committed badger
transaction survives the death of the process (`SyncWrites` is off in the
code, so a power failure may lose it: not modelled); `refKey` joins bucket and
key with a colon, and keys that collide that way are one key here.

### ObjectLifecycle

An object is a (bucket, key) pair, in an ordinary bucket (`Plain`) or in the
bucket `dedup` (`Dedup`). A content is represented by the expiry its uploader
asked for: the thing on which content and metadata can disagree. A handler is
cut between its calls to stores. `PutStore`/`PutMeta`, `DeleteStore`/
`DeleteMeta`, `MoveCheck`/`MoveRename` and `GCList`/`GCUnlink`/`GCMeta` follow
the order of the calls in `server.go` and `collector.go`, early returns
included. `refs` is the deduplicating store as an atomic map.
`metadata.Delete` reads and deletes in two transactions; since the second one
deletes blindly, the effect on the object's record is that of one step.
The collector visits expired objects in any order (the code: in key order).
`dryRun` is chosen initially; nothing calls `SetDryRun`.

The stores can disagree, and under contention they do. What holds is stated
with `settled`, a record of history that is not in the code: an object is
settled until two activities on it overlap, it is moved, an upload bypasses the
store that serves it, or a fault hits an activity on it, and again after an
upload or delete that met no other activity. `SettledAgree` says that this
list is complete: nothing else separates content from metadata, and an
uncontended upload repairs it. `GCSparesSettled` is the collector's promise
under the same condition, and `GCDeletesOnlyExpired` the unconditional one,
which fails.

Fairness: handlers that have begun go on (goroutines are scheduled, their
store calls return), and each collector keeps taking steps, as the ticker loop
of `Start` does. Nothing obliges clients or the clock.

### Webhook

`queue` is the channel, `worker` the loop and `deliver` of each worker, `pos`
how far each `Emit` has got through the targets (sends of concurrent `Emit`s
interleave). `fate` and `posts` record how a delivery ended and how many
requests were made. A worker in `backoff` sleeps and then tries to put the job
back. Between jobs a worker picks either ready branch of its `select`, as Go
does. Workers are weakly fair: the HTTP client has a timeout and the pause is
finite. With finitely many events this is enough for `StopReturns`; with an
endless stream it rests on Go choosing randomly between ready branches.
`Emit` after `Stop` is possible (shutdown in `root.go` stops the dispatcher
before the HTTP server) and its jobs stay in the channel; `JobResolved` is
therefore stated up to `Stop`. `changelog/10-webhooks.md` speaks of exponential
backoff while the code waits `attempt * BackoffSecs`, and the event types for
quota, expiry and collection are never emitted; neither affects the model.

### ApiKeys

`byId` and `byHash` are the two records of a key, `proc` the goroutines: admin
requests, and the `updateLastUsed` that `ValidateKey` starts and nobody waits
for. Such an operation is a badger transaction in two steps. The first reads
the record and opens it (`rec` is what it read), the second is `Commit` or
`Conflict`. `stale` is badger's conflict detection: `Overtaken` sets it in every
open transaction on a record that another commit writes, and a stale
transaction can only fail, without a retry. `Create` reads nothing, so it never
conflicts and is one step. The process may die at any point.

IDs are readings of the clock (`key_<UnixNano>`), so that two keys can get the
same one; the second record by ID then replaces the first, which can no longer
be revoked. `RevokedStays`, `DeletedStays` and `IndexesAgree` are stated for
keys that are `Alone` with their ID; `WorksUntilRevoked` for all. Not modelled:
`LastUsedAt`, `ExpiresAt` (nothing sets it), names and permissions, and `List`
(which only reads).

### Replicator

A file is represented by its modification time, in the whole seconds of the
protocol (`SinceTimestamp`), which the nodes' clocks are
assumed to agree on. That is the time of the last write to the temporary file;
the file appears by the rename of `Store.Put`, which may come later: `Write(n, o, t)`
has a `t` of its own, for an upload any time up to now, for a copy between nodes
any since it was read (`got`). `cycle` holds the goroutines of `syncAll`, up to `Overlap`
of them for one peer at once since the ticker does not wait for the previous
ones. A cycle is cut at each call to a peer or to the local store; `looked`
remembers when it looked for the file it will write. Pushing compares hashes,
which no listing carries (`Hash(o) == ""`), so a cycle pushes all or nothing.
The handshake is taken to succeed; a node whose handshake fails skips the
cycle, which is the same as not starting it.

`lost` is history: the objects of a peer that this node may never ask for
again, with each of the reasons at the action that adds them (a listing cut at
the limit, a failed listing or download, a write while a cycle is past its
listing, a file that appears when a peer's `LastSync` is already past its
modification time, a move, a deletion here). It shrinks when the object is written at
the node, or when the node restarts, because `LastSync` is only in memory.
`MissedOnlyIfLost` says the list is complete: in particular, files with a time in the
second in which a cycle ended are not missed, and no order in which overlapping
cycles end loses more. Replication has no notion of a newer version: what a
node has a file for is not replaced by pulling, and a deleted object comes back
from a peer. `OverwritesOnlyLate` bounds what a cycle can overwrite to files
written or moved to their place after it looked; `came` is the history of these
arrivals, which the modification time does not tell, as a move keeps it. Fairness: the
ticker keeps starting cycles and their goroutines and calls return
(`ArrivesUnlessLost`).

### Accounting

The upload and delete handlers once more, this time with what they do to usage
and to the index by user, which `ObjectLifecycle` leaves out. They are cut at
each call; `metadata.Delete` has two transactions, and here it matters, as the
index entry removed is that of the user read in the first one. A request without
user, and the collector, is `Anyone`'s. The bucket store has its own mutex and
`AddUsage` is one step of it; what is not atomic is check, upload, update.
`serveCmd` in `cmd/root.go` does not pass a bucket store to the server and
nothing calls `internal/quota`; the handlers are modelled with the bucket store
that `server.go` supports.

An object's content is in the file store, in the deduplicating one, or in both
(`Places`): `X-Dedup` sends an upload of any bucket to the latter, a delete looks there
only for the buckets named `dedup` (`Home`, `Homes`). The two answer a delete of
what is gone differently: the file store with an error, at which the handler stops
(`DeleteMissing`), the deduplicating one with none, and the handler goes on
(`DeleteGone`): the loser of two deletes takes the size off once more.

`failures` counts failed calls and crashes. A store that fails ends the request
(`StoreFails`). All other errors are ignored: `PutMetaFails`, `DeleteMetaFails`,
`UsageFails`; a failed read is taken for no metadata or no size (`DeleteMisreads`) or
for a user without a record, who gets one of the free tier (`PutCheckMisreads`,
`UsageFails`, `CreateMisreads`). `Crash` ends all requests where they are.

`exact`, `owner` and `high` are history. `UsageExact` lists all ways in which
usage departs from what is stored: replacing a content (the old size is never taken
off), deletion by somebody else or by the collector, a second deletion from the
deduplicating store, a delete that worked with a stale size or one it could not read
or whose subtraction was cut off at zero, an `AddUsage` that failed or started from an
empty record, a crash between content and usage, deletion of the bucket record
or its replacement. `QuotaOverrun` bounds the race of check and update: with `n` requests at
once the quota is exceeded by at most `n - 1` uploads, and by one for each failure. `IndexComplete` holds in
every interleaving. Its converse does not: `metadata.Put` (`store.go:97`) adds an
object to the index of its new user and leaves the previous user's entry, so
`ListByUser` and `GetUserStorageUsed` of that user still count an object that
somebody else has replaced.

### Reads, Listing, Ranges

A session is what one client does over several requests: follow `next_marker`
through a listing, fetch ranges of one key with the ETags of earlier answers, or
use a signed URL. `Writers` changes the file store in between, without any
restriction. A file is the upload it came from, its size and its modification
time; two uploads in one tick of the file system's clock have equal times, and a
move keeps the time of its file.

`Page` is everything that `listObjects` does with what `Store.List` returns.
Keys are numbers in the order of their names, `Dir` gives the common prefix
that the delimiter yields. The walk of `Store.List` is not atomic: it returns
everything that was there throughout, and any part of what came or went; if a
file goes, it may fail. `ListedOnce` is therefore stated for the
keys present at every moment of the session (`steady`) and at some moment
(`ever`). Common prefixes do not count against `max_keys` and are repeated on
later pages.

`serveFile` opens the file and takes size and time from the descriptor; `Answer`
takes them from `fd`, the file that was open, whatever the path names by then. `HEAD`
looks the path up twice. `TagIdentifies` says that what a client has under one
ETag comes from one upload, up to uploads of the same size in the same tick.
`parseRange` is compared with `Selected`, the bytes RFC 7233 selects; numbers are
of arbitrary size and refused beyond 2^63 - 1. `putObject` refuses empty bodies, but
gRPC pushes and pulls store empty files, so sizes include 0. There `parseRange` has its one
exception (`EmptySuffix`): it accepts a suffix of nothing as the range from 0 to -1,
and the answer is 206 with `bytes 0--1/0`.

`Lifetime` and `ExpiryOf` compute with 64-bit durations and whole seconds
(`Word`, `TicksPerSecond`); `expires_in` ranges over values that are zero,
fit, exceed the most, or wrap around: to a negative or a short duration, and from
below zero to a positive one. `URLLifetime` holds a URL to the time asked for only if
this does not overflow, and to seven days always. The client presents the URL as it
got it.

The rename of `Put` is atomic here; the cross-device copy, during which a reader
can see part of a file, is not modelled on this side. Content types and
`Content-Disposition` are left out. A listing of a bucket without a directory is
an empty page here, the code answers it with 500. Fairness: the client
goes on with its listing and the server answers (`ListingEnds`).

### Serve

`main` runs through `Startup` and then `Listen`, `ServeReturns` and `Close`, one
deferred call at a time; a step may fail wherever `serveCmd` returns an error, so
that the process ends with the stores opened so far closed. `Signal` is the
operating system: before `signal.Notify` it kills, afterwards it puts an
element into a channel of one. The stopper enters each call of its sequence
(`StopTells`) and leaves it when the call returns (`StopGoesOn`): `Waits` is what
`Dispatcher.Stop` and `GracefulStop` wait for. `alive` and `work` count the
goroutines and the pieces of work of each service; what the work is, is the
subject of the other modules. The replicator's cycles are goroutines of their own,
which nobody waits for. `discovery.Stop` only closes a socket and is left out;
TLS may fail between two stores like the next store.

`Shutdown` closes the listener, and waits for handlers; but `Serve`, and with it
`server.Start`, returns as soon as the listener is closed, so that the stores are
closed and the process ends under the handlers. `late` are the handlers at work
when the listener closed; `PartialOnlyIfLate` says that only they can acknowledge
an upload whose metadata was not stored. `StoresOutliveServers` lists who is
certainly done when the stores close (no new request, gRPC call or webhook) and,
by leaving them out, who may not be. `Deaf` is the case in which the signal is
handled before `server.Start` listens: `Shutdown` then does nothing and no further
signal is read.

Fairness: `main` and the stopper run; gRPC calls and deliveries end (weak: the
HTTP client has a timeout, a peer that goes away breaks its call); a worker
that keeps reaching its `select` with both branches ready takes the `stopCh`
branch at some time (strong, Go chooses at random). None is assumed of handlers,
replication, heartbeats and passes of the collector: the node must stop without.

### Discovery

`at` is the network: nodes go, come back and change addresses. Answers to a scan
are in flight (`answers`) and handled by a goroutine that `scan` does not wait for,
hence at any time later, in any order, or never. Time enters only through
`left`, the scans after which an entry would be pruned: two minutes are four
periods of 30 seconds. Static peers have an ID of their own, made of the address.
`syncAll` picks one ID for each address, by Go's map order, and `Connect` is the
beginning of `syncWithPeer`: the state by ID, the connection by address.

The address may by then belong to another node. `taken` is the history of
addresses that passed from one node to another, `confused` of the IDs whose state
served two nodes; `ConfusedOnlyIfTaken` says that only this mixes them up. Then
`LastSync` of one node hides what the other had before. `Converges` and
`KeptInSync` are the liveness of the table and its use; a cycle here starts
when the connections of the previous one are made (overlapping cycles are in
`Replicator`). Fairness: the two tickers go on, connections are made or fail.
Nothing is assumed about answers.

### Metering

No code in the repository constructs a meter: `NewMeter` and `NewPersistentMeter` have
no caller outside `internal/metering`. The package is modelled for the concurrent
callers that its locks are there for. An event has three steps, in the goroutine of its request: it gets its time
(`RecordUpload` and the others), is written to badger (`Persist`, `PersistFails`),
and is appended to the buffer (`Count`). `RecordGeneration` is not overridden by
`PersistentMeter`, so those events have no second step. `ts` is the clock's
reading, and equal readings are possible. `Restart` kills requests between
their steps and fills the buffer with `warmup`. `OnDiskUnless` lists why a counted
event may be missing on disk. `SummaryBounds` states how far a summary can be off:
the buffer drops by arrival, warm-up by time, so an event may be missing
when enough events are newer in either sense, or when a restart did not find
it; and nothing is counted that did not begin. The sums of bytes and credits are
taken in the same loop as the counts and are not modelled.

## Runs and bounds

Every module has a type invariant `TypeOK` (`DiscoveryTypeOK`, `MeteringTypeOK`). In `dedup` and `apikeys` it is a property
of the run, and a theorem; in the other modules it is a conjunct of a safety
invariant: `DeletionsCounted`, `AttemptsCounted`, `MissedOnlyIfLost`,
`IndexComplete`, `ListedOnce`, `CompleteWhenServing`, `ConfusedOnlyIfTaken`,
`OnDiskUnless`.

| Run | Instance | States (about) | Shows |
|---|---|---|---|
| `dedup` | 3 keys, 3 contents, 2 faults, symmetric | 187 000 | all properties of `DedupStore`; 3 keys make a blob shared, dropped to one reference and to none, and moved over equal, different and no content; 2 faults make an orphan, a loss or a count too high meet a second fault |
| `dedup_unlink_window` | the same, 1 fault | | one fault in the unlink window makes a stored object unreadable |
| `lifecycle` | 1 plain and 1 deduplicated object, 2 clients, 3 requests, 2 collectors, 1 fault, clock 0..1 | 258 000 | races of two handlers with each other and with two passes; a third request shows repair. One tick separates live from expired |
| `gc_live_object` | 1 client, 2 requests, 1 collector | | a replaced object is collected |
| `webhook` | 3 events, 2 targets (one filters, with a bad URL), 2 workers, channel of 1, 2 attempts | 83 000 | four jobs over three places: drops, retries into a full channel, stop at any time |
| `apikeys` | 2 keys, 2 IDs, 3 goroutines, symmetric | 6 900 | the whole state space; three goroutines make two transactions on a record race with a third operation, both keys may get one ID |
| `replicator` | 2 nodes, one knows the other; 2 objects, listings of 1, 2 overlapping cycles, clock 1..2, 2 client operations, 1 fault | 742 000 | what replication loses, overwrites and delivers. With two seconds an upload can appear in the one after its modification time, before and after a cycle's end. Two cycles of one node overlap in every order, and uploads at either node stand for what other peers would write there; a peer that replicates back at the same time is not in the instance. |
| `accounting` | 2 users and anonymous requests, 2 objects, one of them in a dedup bucket, 2 clients, 3 requests, uploads of 1 and 2 bytes, 1 administrator's request, 1 failure or crash, symmetric in users and clients | 1 750 000 | two handlers, of equal or different users, race on one object of either kind and a third request follows; an administrator changes or deletes quotas; any one call fails |
| `reads` | listing: 4 keys of which 2 share a prefix, 3 changes; download: 2 keys, sizes 0 and 3, clock to 2, 2 changes, 3 requests; URL: 2 keys, clock to 6 half-seconds, 2 changes | 923 000 | pages of 1 to 3 keys (default 2) cut the listing before, inside and after the prefix; a file is replaced, deleted, or moved onto another between open and stat, with equal and different tags; ranges are empty, single, too long, suffixes, beyond 64 bits, of an empty file; a URL is used before, in and after its last second |
| `serve` | 1 handler, 2 calls and cycles at once, all subsets of the optional services | 256 000 | a signal at every moment of startup and serving, a failure at every step, work in every service during shutdown; handlers do not interact, so one stands for all |
| `discovery` | 2 nodes, 2 addresses of one host, 1 of them static, 2 scans to prune, 3 moves | 106 000 | an address changes hands, a node changes its address and comes back, both are known by two IDs, answers outlive pruning |
| `metering` | 2 users, 3 types (1 not persisted), buffer of 2, warm-up of 1, TTL 1, 3 events, clock 1..2, 2 faults, symmetric | 509 000 | equal instants of equal and different types, overflow by arrival and by warm-up, restarts between the steps of an event |

Deadlock is checked for `dedup` (in `apikeys` a restart is always possible, so
the same check says nothing there); the other systems may come to rest (requests
and events are bounded, and the process of `serve` ends), so there it is not, and
liveness properties take its place.

Bounds are the constants named `Max...` and `Capacity`. `MaxFaults`, `MaxFailures`,
`MaxRequests`, `MaxOps` and `MaxAdmin` bound behaviours, `MaxTime` the clock,
`Overlap` and `MaxWork` the cycles and calls at once, `MaxMoves` changes of the
network, `MaxEvents` and `MaxGets` events and requests, `Scope` all of this for
each kind of session in `Reads`; a dry run's count of deletions stops at
`MaxRequests`.

## Proofs

`DedupStoreProofs` proves, for any finite sets of keys and contents and any
`MaxFaults`, from the named assumptions of `DedupStore` (finite sets; the
markers `NoRef`, `NoBlob`, `ReadError` are none of the values they mark):

- `TypeCorrect`, `RefCountsExact`, `BlobsNeverPartial`: the invariants of the run, counts
  exact up to the references replaced unread;
- `NoLossOutsideUnlinkWindow`: if no fault struck an unlink window, every
  reference's file is whole between operations;
- `UnlinksOnlyLast`: the action property;
- `StoreImplementsMap`: the refinement of `ObjectMap` up to such faults.

The argument: `NumRefsUpdate` computes how redirecting one reference changes the
number of references to each hash. From it `StoreTxnGood`, `DeleteTxnGood` and
`MoveTxnGood` show that each transaction function maps exact records to exact
records (when it misreads, exact up to the one it did not read), unlinks only the file of a hash with a single reference, and computes
the references the operation means. `RefCountExact` is not inductive: between
the existence check and the commit an operation carries a count and a write
set, so `IInv` adds that the count `Store` carries is still the right one
(`OpOK`), that the write set about to be committed is exact (`TxnOK`), and what
the files look like at each point (`FilesOK`, `Intact`). `IInv` was model-checked
on the `dedup` instance before it was proved. One lemma per action shows that
it is preserved.

`ApiKeysProofs` proves, for any sets of keys, IDs and goroutines, all five
invariants of the run `apikeys` (`TypeCorrect`, `RevocationLasts`,
`DeletionLasts`, `IndexesAgreeAlways`, `KeysKeepWorking`), from the assumption
that the markers are no records and no IDs. None of the last four is inductive:
an open transaction could carry an active record for a revoked key. `IInv`
therefore adds that a transaction that is not stale has read the record as it
is now (`ReadsFresh`), that records belong to the key created with that ID
(`RecordsOwned`) and that a record is inactive only after a revocation
(`OnlyRevoked`). `CommitGood` does the work once for the three kinds of commit;
steps that write no record go through `NoWriteGood`.

`LossesBounded` adds the counting form to what `DedupStoreProofs` says of losses:
recorded blobs without a whole file, the victim of the pending transaction aside, are
at most as many as the faults that struck an unlink window (`LossInv`). Every step
leaves that set as it is or smaller, except a fault after an unlink, which adds the
victim and is counted.

`SpaceIsAccounted` bounds what is leaked the same way. Blob files without a record are no
leak while a `Store` is on its way to their record (`Placing`); the others, `Stray`, are at
most as many as the faults. `LeakInv` adds that a write set about to be committed deletes
no record whose file is still there and not that of the running `Store`, so that only a
fault, by ending an operation, makes a file stray, and at most one. That
`TotalReferences` and `LogicalBlobs` agree, up to `unread`, is no sum in the proof: `LogicalBlobs` is
the number of pairs of a blob and a number up to its count, and `StatsAgree` pairs each
with a reference or an element of `unread`, using `RefCountExact` for one blob at a time.

The other components have the same pattern. In each, `IInv` was first checked by TLC
as an invariant of the component's run; it is preserved action by action; each theorem
is a consequence.

`ObjectLifecycleProofs`: for any finite set of objects, any clients and any finite set
of collectors; `None` and `Never` are marks that no object or time is.

- `SettledObjectsAgree`, `SettledObjectsSpared`. `SettledAgree` says nothing about an
  object that somebody is at work on, so it is not inductive. `SettledOK` says what a
  settled object looks like then: a handler at work on it is alone and has already
  written what the metadata will say; if it is on a pass's list, it is expired or gone;
  if a pass has removed it, nothing is served. `CleanOK` says the same of a request that
  may yet settle its object. `FirstStep`, `LastStep` and `PassStep` do the work once for
  all handlers that begin, that end, and for all steps of a pass.
- `DeletionsAreCounted`: a pass counts at most what it listed (`Fits`), and each step
  changes the sums on both sides by the same number (`CountOne`, `CountReset`).

`WebhookProofs`: for any events, workers, channel capacity and list of targets without
repetition (a target is an entry of the configuration, so two entries with one URL are
two targets). `Conserved` and `Attempts` count jobs; `IInv` says instead that no two jobs
are for the same delivery (`JobsApart`) and that a delivery offered is under way or at
its end, not both (`Accounted`), from which the sums follow.

`SyncProofs`, of the replicator: for any nodes, objects, peers and numbers of overlapping cycles,
without any assumption that they are finitely many; a node is no peer of its own.

- `MissedForAReason`: when a cycle ends it moves `LastSync` past everything that it did
  not fetch. `Covered` says that already when its listing is there, whatever it will not
  store is in `lost`. A file with a time before `LastSync` is in `lost` from its appearance on.
- `OverwritesLate`: `Informed` says what a goroutine knows of the place it is about to write
  to. Stated with modification times the property is false, because a file can be moved
  there with an old one: the proof failed at this step, and TLC has the behaviour.

`SyncProofs`, of discovery: for any nodes and addresses, any set of static ones and any
number of scans before pruning. `ConfusionNeedsTaking` has to follow a belief through four
places, each of which can be older than the one before: an answer under way, an entry
of the table, a connection chosen from it, and the node a static peer was first met at.
`Owned` says that a node is the last that came to where it is, and that the node last
asked as a static peer is still the last at that address unless it was taken. `Rightful`
says of answers, entries and connections that the address named is that of the
configuration, or that the node named is the last who came there, unless it was taken
(`Was`).

`UsageProofs`, of accounting: for any users, any finite sets of objects and of clients (at least one),
any sizes from one byte to `MaxSize`, any quotas, any number of failures. `OverrunBounded`
needs that usage and the uploads that were let in together stay below the bound, which
each failure raises (`Slack`); `UsageCounts` that the bytes stored at either place of an
object and those the handlers have yet to add or to take off balance (`Account`).
Steps that change neither go through `QuietStep`, the ends of handlers through `EndGood`. Bytes are pairs of their owner's place and a number, so that sums are
cardinalities of sets, which the prover can reason about without induction.

`UsageProofs`, of metering: for any users and types, any capacity, warm-up limit and TTL,
any number of requests between their steps, of failed writes and of restarts.

- `CountedIsKept`: `OnDiskUnless` holds already from the moment of writing on (`KeptUnless`);
  a reason why an event is not on disk lasts (`ReasonsLast`).
- `SummariesCount`: `SummaryBounds` counts, and follows from what it counts: the events in the
  buffer are all different, none of them can still be counted (`BufferInOrder`), and every
  counted event is in the buffer or may be lacking (`LackingForAReason`). For that the
  buffer has to lose its events in an order: each is newer, or was counted later, than
  those before it, also if some came from disk in a restart and others after it.
  `NewestFacts` says what warm-up loads: the wanted number of events, each once, oldest
  first, and newer than all the others. `Newest` defines it by counting how many are newer
  or older; `RanksAreNumbers` says that in a strict total order those counts are all numbers
  below the cardinality, each once, as an injection between finite sets of one cardinality
  is surjective. The order is total because the disk has one event for each key.

`ReadsProofs`: for any finite set of keys, any function to prefixes that respects their
order, any page sizes, headers, lifetimes, and any 64-bit-like `Word` the longest
lifetime fits into.

- `RangesExact`: for any size and any header whose numbers fit
  into 64 bits, `parseRange` refuses exactly what selects no byte and otherwise returns
  the bytes selected, within the file; except for the suffix of an empty file. It is a case split along the branches of the
  function; `RangesAsAsked` follows for every download.
- `ListingsComplete`: `ListOK` says that what the client has so far is up to the marker,
  and up to there it has every steady key. `PageFacts` states what one page adds.
- `TagsIdentify`: each tag a client knows is that of the version it came with.
- `URLsExpire`: the expiry is what was computed from the request (`UrlOK`). The proof
  showed that a negative lifetime can be so large that its duration overflows to a
  positive one, which the property now has as the exception it is.

`ServeProofs`: for any finite set of handlers and any bound on the work of a service.
`StoresOutlive` needs which steps of startup and shutdown are behind (`StartupOK`,
`ShutdownOK`): what a service waited for is over for good because it was told to stop
before. `PartialsAreLate` needs that a handler at work began while the listener was open.
`ServesComplete` follows from the order of startup.

Only model-checked are the liveness properties: `ExpiredFileCollected`, `JobResolved`,
`StopReturns`, `ArrivesUnlessLost`, `ListingEnds`, `SignalStops`, `Converges`,
`KeptInSync`. Liveness is out of the prover's reach.

## Findings

1. `dedup/store.go:318`: unlink before commit loses data on a crash, and later
   uploads of the same content are acknowledged but unreadable
   (`dedup_unlink_window`).
2. `gc/collector.go:150`: the collector deletes objects uploaded after its
   listing (`gc_live_object`).

Other places where the code does something a reader may not expect. The
models have them as they are, and no run is devoted to them:

- `dedup/move.go:48`: moving an object onto itself deletes it.
- `dedup/store.go:194`, `dedup/move.go:34`: a replaced reference that cannot be read is
  taken for none; its blob's count stays one too high for good.
- `dedup/store.go:275`, `api/server.go:685`: a delete of an object that is gone from the
  deduplicating store succeeds; two deletes at once take the size off the usage twice.
- `api/server.go:420`, `:715`: errors of `AddUsage` are ignored; after a failed read of the
  record (`bucket/store.go:157`) usage starts from zero, and the quota is the free tier's.
- `storage/store.go:96`: a file appears later than its modification time; replication
  misses it if a cycle ends in between, in a later second.
- `gc/collector.go:150`: an expired object of the deduplicating store is never
  collected, and every pass counts an error for it.
- `api/server.go:525`: an object uploaded with `X-Dedup` outside the bucket `dedup`
  cannot be fetched. `headObject`, `createSignedURL` and `getSignedObject` look into
  the file store only, also for the bucket `dedup`.
- `sync/replicator.go:271`: push compares empty hashes and skips everything as soon
  as the peer has any object.
- `api/server.go:1183`: a last byte before the first is answered with 416, where
  RFC 7233 has the header ignored; so is a number beyond 64 bits.
- `api/server.go:1163`: a suffix range of an empty file is answered with 206 and
  `Content-Range: bytes 0--1/0`.
- `apikeys/store.go:84`: of two keys with one ID the earlier cannot be revoked any more.
- `sync/replicator.go:244`: a peer whose inventory fails is pushed everything, over what
  it has.
- `signedurl.go:59`: the maximum of downloads is signed, but nothing counts them.
- `cmd/root.go:388`: a signal handled before the server listens leaves a node that
  reads no further signal (`Deaf`).
- `cmd/root.go:391`: during shutdown an upload may be acknowledged although its
  metadata could not be stored.
- `sync/replicator.go:123`: a node that takes over another's address inherits its
  `LastSync`, if it was known by the same static ID.
- `metering/persistent.go:52`: events of one type in one instant overwrite each other
  on disk; generation events are not written at all.

## Not modelled

- `quota.Tracker` (no caller but its tests), permissions of `auth` (a comparison of
  role names), `metrics`, `logging`, `tls`, `config`, `setup`, the `stats` command: no
  state that other parts depend on. `gc` from the command line is one `RunOnce`.
- The generated gRPC code, and gRPC, badger, mDNS and fasthttp themselves; what the
  code relies on is stated with the module that uses it.
- The payload of the heartbeat, contents of webhooks, HMACs.

## Plan

All components with behaviour of their own have their module, and all safety properties
their proofs. What is left is smaller: stating an order of deliveries if the receivers of
webhooks come to rely on one (today the code promises none), and the permissions of `auth`
once they depend on state.
