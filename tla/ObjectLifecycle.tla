-------------------------- MODULE ObjectLifecycle --------------------------
(***************************************************************************)
(* The life of an object across the stores that hold a part of it: the     *)
(* upload, move and delete handlers of internal/api, the file store, the   *)
(* deduplicating store and the metadata store they write one after the     *)
(* other, and the garbage collector of internal/gc, which works from a     *)
(* listing of the metadata.                                                *)
(*                                                                         *)
(* No lock spans two stores.  A handler is cut between its calls; each     *)
(* call is atomic: a rename or unlink of the file store, a transaction of  *)
(* the metadata store, an operation of DedupStore (which is an atomic map, *)
(* DedupStore!ImplementsMap).  A content is represented by the expiry its  *)
(* uploader asked for, which is what content and metadata may disagree on. *)
(***************************************************************************)
EXTENDS Naturals, FiniteSets

CONSTANTS Plain,       \* objects in buckets the file store serves
          Dedup,       \* objects in the bucket "dedup"
          Clients,     \* concurrent API requests
          Collectors,  \* concurrent RunOnce: the ticker's and POST /gc/run's
          None,        \* no file, no reference, no metadata
          Never,       \* no X-Expires-At header
          MaxTime,     \* bound on the clock
          MaxRequests, \* bound on the API requests of a behaviour
          MaxFaults    \* bound on crashes and failed metadata writes

ASSUME ObjectsAssumption ==
  Plain \cap Dedup = {} /\ IsFiniteSet(Plain \cup Dedup)
ASSUME NoneAssumption == None \notin Nat \cup {Never} \cup Plain \cup Dedup
ASSUME NeverAssumption == Never \notin Nat
ASSUME BoundsAssumption ==
  MaxTime \in Nat /\ MaxRequests \in Nat /\ MaxFaults \in Nat
ASSUME CollectorsAssumption == IsFiniteSet(Collectors)

VARIABLES
  now,       \* the clock
  files,     \* file store: object -> content or None
  refs,      \* deduplicating store: object -> content or None
  meta,      \* metadata store: object -> ExpiresAt or None
  req,       \* the request each client's handler is executing
  gc,        \* the pass each collector is executing
  dryRun,    \* the collector's Config.DryRun
  deleted,   \* Stats.FilesDeleted of this process
  unlinked,  \* files the collectors of this process removed
  settled,   \* see Settled below
  requests, faults

stores == <<files, refs, meta>>
bounds == <<requests, faults>>
vars == <<now, files, refs, meta, req, gc, dryRun, deleted, unlinked, settled,
          requests, faults>>

Objects == Plain \cup Dedup
Expiries == {e \in 0..MaxTime : e < MaxTime} \cup {Never}
Contents == Expiries \cup {None}

\* ListExpired: ExpiresAt.Before(now)
Expired(e) == e \notin {None, Never} /\ e < now

\* What GET serves: the bucket's name alone chooses the store.
Served(o) == IF o \in Dedup THEN refs[o] ELSE files[o]

Idle == [pc |-> "idle", obj |-> None, dst |-> None, exp |-> None, clean |-> TRUE]
Resting == [pc |-> "idle", todo |-> {}, cur |-> None, n |-> 0]

-----------------------------------------------------------------------------
(* Bookkeeping of contention, which is not part of the code: settled[o]    *)
(* says that nothing since the last uncontended upload or delete of o may  *)
(* have separated its content from its metadata.  It is lost when two      *)
(* activities on o overlap, when o is moved, when an upload with X-Dedup   *)
(* bypasses the store that serves o, and by a fault in an activity on o.   *)
(* It is not regained while a misfiled file lies under o's name.           *)

Touches(c, o) == req[c].pc # "idle" /\ o \in {req[c].obj, req[c].dst}
Listed(g, o) == o \in gc[g].todo \/ gc[g].cur = o
Busy(o) == \/ \E c \in Clients : Touches(c, o)
           \/ \E g \in Collectors : Listed(g, o)

\* c starts a request on the objects os.
Begin(c, r, os) ==
  /\ req[c].pc = "idle"
  /\ requests < MaxRequests
  /\ requests' = requests + 1
  /\ req' = [d \in Clients |->
               IF d = c THEN [r EXCEPT !.clean = @ /\ (r = Idle \/ \A o \in os : ~Busy(o))]
               ELSE IF \E o \in os : Touches(d, o) THEN [req[d] EXCEPT !.clean = FALSE]
               ELSE req[d]]

End(c) == req' = [req EXCEPT ![c] = Idle]

Unsettle(os) == settled' = [o \in Objects |-> settled[o] /\ o \notin os]
Contended(os) == {o \in os : Busy(o)}

\* A file was moved from a plain bucket to the name of a deduplicated object:
\* GET does not see it, the collector does.
Misfiled(o) == o \in Dedup /\ files[o] # None

\* c's request ends: if it was alone it leaves its object settled.
Resettle(c) ==
  settled' = IF req[c].clean /\ ~Misfiled(req[c].obj) THEN [settled EXCEPT ![req[c].obj] = TRUE]
             ELSE settled

-----------------------------------------------------------------------------
(* PUT: the content goes to one of the stores, then metadata.Put records   *)
(* its expiry.  X-Dedup sends it to the deduplicating store whatever the   *)
(* bucket.                                                                 *)

PutStore(c, o, e, header) ==
  /\ Begin(c, [Idle EXCEPT !.pc = "putmeta", !.obj = o, !.exp = e,
                           !.clean = header => o \in Dedup], {o})
  /\ IF header \/ o \in Dedup
     THEN refs' = [refs EXCEPT ![o] = e] /\ UNCHANGED files
     ELSE files' = [files EXCEPT ![o] = e] /\ UNCHANGED refs
  /\ Unsettle(Contended({o}) \cup (IF header THEN {o} \cap Plain ELSE {}))
  /\ UNCHANGED <<now, meta, gc, dryRun, deleted, unlinked, faults>>

PutMeta_OnlyExpiring(c) ==
  /\ req[c].pc = "putmeta"
  /\ meta' = IF req[c].exp = Never THEN meta
             ELSE [meta EXCEPT ![req[c].obj] = req[c].exp]
  /\ Resettle(c)
  /\ End(c)
  /\ UNCHANGED <<now, files, refs, gc, dryRun, deleted, unlinked, bounds>>

PutMeta(c) ==
  /\ req[c].pc = "putmeta"
  /\ meta' = [meta EXCEPT ![req[c].obj] = req[c].exp]
  /\ Resettle(c)
  /\ End(c)
  /\ UNCHANGED <<now, files, refs, gc, dryRun, deleted, unlinked, bounds>>

\* The handler ignores the error and answers 201.
PutMetaFails(c) ==
  /\ req[c].pc = "putmeta"
  /\ faults < MaxFaults
  /\ faults' = faults + 1
  /\ Unsettle({req[c].obj})
  /\ End(c)
  /\ UNCHANGED <<now, stores, gc, dryRun, deleted, unlinked, requests>>

-----------------------------------------------------------------------------
(* DELETE: the store the bucket's name chooses, then the metadata.  The    *)
(* file store fails on a missing file (404, nothing else happens), the     *)
(* deduplicating store does not.                                           *)

DeleteStore(c, o) ==
  /\ Begin(c, [Idle EXCEPT !.pc = "delmeta", !.obj = o], {o})
  /\ IF o \in Dedup
     THEN refs' = [refs EXCEPT ![o] = None] /\ UNCHANGED files
     ELSE /\ files[o] # None
          /\ files' = [files EXCEPT ![o] = None]
          /\ UNCHANGED refs
  /\ Unsettle(Contended({o}))
  /\ UNCHANGED <<now, meta, gc, dryRun, deleted, unlinked, faults>>

DeleteMeta(c) ==
  /\ req[c].pc = "delmeta"
  /\ meta' = [meta EXCEPT ![req[c].obj] = None]
  /\ Resettle(c)
  /\ End(c)
  /\ UNCHANGED <<now, files, refs, gc, dryRun, deleted, unlinked, bounds>>

-----------------------------------------------------------------------------
(* POST ?action=move: only the content moves, the metadata stays.          *)

MoveDedup(c, s, d) ==
  /\ s \in Dedup
  /\ Begin(c, Idle, {s, d})
  /\ refs[s] # None
  /\ refs' = [refs EXCEPT ![d] = refs[s], ![s] = None]
  /\ Unsettle({s, d})
  /\ UNCHANGED <<now, files, meta, gc, dryRun, deleted, unlinked, faults>>

MoveCheck(c, s, d) ==
  /\ s \in Plain
  /\ files[s] # None
  /\ Begin(c, [Idle EXCEPT !.pc = "rename", !.obj = s, !.dst = d], {s, d})
  /\ Unsettle({s, d})
  /\ UNCHANGED <<now, stores, gc, dryRun, deleted, unlinked, faults>>

\* os.Rename: fails when the source is gone by now, and does nothing when
\* both names are the same.
MoveRename(c) ==
  LET s == req[c].obj  d == req[c].dst
  IN  /\ req[c].pc = "rename"
      /\ files' = IF files[s] = None \/ s = d THEN files
                  ELSE [files EXCEPT ![d] = files[s], ![s] = None]
      /\ End(c)
      /\ UNCHANGED <<now, refs, meta, gc, dryRun, deleted, unlinked, settled, bounds>>

-----------------------------------------------------------------------------
(* RunOnce: list the expired metadata, then for each delete the file and,  *)
(* if that worked, the metadata; at the end add the pass to the statistics.*)

GCList(g) ==
  LET expired == {o \in Objects : Expired(meta[o])}
  IN  /\ gc[g].pc = "idle"
      /\ expired # {}
      /\ gc' = [gc EXCEPT ![g] = [pc |-> "scan", todo |-> expired,
                                  cur |-> None, n |-> 0]]
      /\ Unsettle({o \in expired : \E c \in Clients : Touches(c, o)})
      /\ req' = [c \in Clients |->
                   IF \E o \in expired : Touches(c, o)
                   THEN [req[c] EXCEPT !.clean = FALSE] ELSE req[c]]
      /\ UNCHANGED <<now, stores, dryRun, deleted, unlinked, bounds>>

GCUnlink(g, o) ==
  /\ gc[g].pc = "scan"
  /\ ~dryRun
  /\ o \in gc[g].todo
  /\ files[o] # None
  /\ files' = [files EXCEPT ![o] = None]
  /\ unlinked' = unlinked + 1
  /\ gc' = [gc EXCEPT ![g].pc = "meta", ![g].cur = o, ![g].todo = @ \ {o}]
  /\ UNCHANGED <<now, refs, meta, req, dryRun, deleted, settled, bounds>>

GCSkip_Counts(g, o) ==
  /\ gc[g].pc = "scan"
  /\ ~dryRun
  /\ o \in gc[g].todo
  /\ files[o] = None
  /\ gc' = [gc EXCEPT ![g].todo = @ \ {o}, ![g].n = @ + 1]
  /\ UNCHANGED <<now, stores, req, dryRun, deleted, unlinked, settled, bounds>>

GCSkip_Retries(g, o) ==
  /\ gc[g].pc = "scan"
  /\ ~dryRun
  /\ o \in gc[g].todo
  /\ files[o] = None
  /\ UNCHANGED <<now, stores, req, gc, dryRun, deleted, unlinked, settled, bounds>>

\* store.Delete fails: the metadata is kept and the pass goes on.
GCSkip(g, o) ==
  /\ gc[g].pc = "scan"
  /\ ~dryRun
  /\ o \in gc[g].todo
  /\ files[o] = None
  /\ gc' = [gc EXCEPT ![g].todo = @ \ {o}]
  /\ UNCHANGED <<now, stores, req, dryRun, deleted, unlinked, settled, bounds>>

GCDryRun(g, o) ==
  /\ gc[g].pc = "scan"
  /\ dryRun
  /\ o \in gc[g].todo
  /\ gc' = [gc EXCEPT ![g].todo = @ \ {o}, ![g].n = @ + 1]
  /\ UNCHANGED <<now, stores, req, dryRun, deleted, unlinked, settled, bounds>>

GCMeta(g) ==
  /\ gc[g].pc = "meta"
  /\ meta' = [meta EXCEPT ![gc[g].cur] = None]
  /\ gc' = [gc EXCEPT ![g].pc = "scan", ![g].cur = None, ![g].n = @ + 1]
  /\ UNCHANGED <<now, files, refs, req, dryRun, deleted, unlinked, settled, bounds>>

\* metadata.Delete fails: logged, and counted as a deletion all the same.
GCMetaFails(g) ==
  /\ gc[g].pc = "meta"
  /\ faults < MaxFaults
  /\ faults' = faults + 1
  /\ Unsettle({gc[g].cur})
  /\ gc' = [gc EXCEPT ![g].pc = "scan", ![g].cur = None, ![g].n = @ + 1]
  /\ UNCHANGED <<now, stores, req, dryRun, deleted, unlinked, requests>>

\* A dry run counts without bound what it would delete; stop at MaxRequests.
GCDone(g) ==
  /\ gc[g].pc = "scan"
  /\ gc[g].todo = {}
  /\ deleted' = IF dryRun /\ deleted + gc[g].n > MaxRequests THEN MaxRequests
                ELSE deleted + gc[g].n
  /\ gc' = [gc EXCEPT ![g] = Resting]
  /\ UNCHANGED <<now, stores, req, dryRun, unlinked, settled, bounds>>

-----------------------------------------------------------------------------
Tick ==
  /\ now < MaxTime
  /\ now' = now + 1
  /\ UNCHANGED <<stores, req, gc, dryRun, deleted, unlinked, settled, bounds>>

\* The process dies and starts again: handlers, passes and statistics go.
Crash ==
  /\ faults < MaxFaults
  /\ faults' = faults + 1
  /\ Unsettle({o \in Objects : Busy(o)})
  /\ req' = [c \in Clients |-> Idle]
  /\ gc' = [g \in Collectors |-> Resting]
  /\ deleted' = 0
  /\ unlinked' = 0
  /\ UNCHANGED <<now, stores, dryRun, requests>>

Init ==
  /\ now = 0
  /\ files = [o \in Objects |-> None]
  /\ refs = [o \in Objects |-> None]
  /\ meta = [o \in Objects |-> None]
  /\ req = [c \in Clients |-> Idle]
  /\ gc = [g \in Collectors |-> Resting]
  /\ dryRun \in BOOLEAN
  /\ deleted = 0
  /\ unlinked = 0
  /\ settled = [o \in Objects |-> TRUE]
  /\ requests = 0
  /\ faults = 0

Handler(c) == PutMeta(c) \/ DeleteMeta(c) \/ MoveRename(c)

Request(c) ==
  \/ \E o \in Objects, e \in Expiries, header \in BOOLEAN : PutStore(c, o, e, header)
  \/ \E o \in Objects : DeleteStore(c, o)
  \/ \E s, d \in Objects : MoveDedup(c, s, d) \/ MoveCheck(c, s, d)

RunOnce(g) ==
  \/ GCList(g) \/ GCMeta(g) \/ GCDone(g)
  \/ \E o \in Objects : GCUnlink(g, o) \/ GCSkip(g, o) \/ GCDryRun(g, o)

Next ==
  \/ \E c \in Clients : Request(c) \/ Handler(c) \/ PutMetaFails(c)
  \/ \E g \in Collectors : RunOnce(g) \/ GCMetaFails(g)
  \/ Tick
  \/ Crash

\* Every handler and every pass that has begun goes on, and the collector's
\* ticker keeps starting passes.
Fairness ==
  /\ \A c \in Clients : WF_vars(Handler(c))
  /\ \A g \in Collectors : WF_vars(RunOnce(g))

Spec == Init /\ [][Next]_vars /\ Fairness

-----------------------------------------------------------------------------
(* Properties                                                              *)

\* The stores hold contents and expiries; handlers and passes are where the
\* code can be between two of its calls, and carry nothing over to the next.
TypeOK ==
  /\ now \in 0..MaxTime
  /\ {files, refs, meta} \subseteq [Objects -> Contents]
  /\ req \in [Clients -> [pc : {"idle", "putmeta", "delmeta", "rename"},
                          obj : Objects \cup {None}, dst : Objects \cup {None},
                          exp : Contents, clean : BOOLEAN]]
  /\ gc \in [Collectors -> [pc : {"idle", "scan", "meta"}, todo : SUBSET Objects,
                            cur : Objects \cup {None}, n : 0..Cardinality(Objects)]]
  /\ \A c \in Clients : req[c].pc = "idle" => req[c] = Idle
  /\ \A g \in Collectors : /\ gc[g].pc = "idle" => gc[g] = Resting
                           /\ gc[g].pc = "meta" <=> gc[g].cur # None
  /\ dryRun \in BOOLEAN
  /\ deleted \in Nat /\ unlinked \in Nat
  /\ settled \in [Objects -> BOOLEAN]
  /\ requests \in 0..MaxRequests /\ faults \in 0..MaxFaults

\* Content and metadata of an object agree whenever nothing is at work on
\* it, unless activities on it overlapped, it was moved, an upload bypassed
\* the store that serves it, or a fault hit; and a later upload or delete
\* that meets no other activity makes them agree again.
SettledAgree ==
  \A o \in Objects : settled[o] /\ ~Busy(o) => Served(o) = meta[o]

GCUnlinks(o) == /\ files[o] # None /\ files'[o] = None
                /\ \E g \in Collectors : gc[g].pc = "scan" /\ gc'[g].pc = "meta"

\* The collector removes the file of a settled object only if the content in
\* it is past the expiry its uploader asked for.
GCSparesSettled ==
  [][\A o \in Plain : GCUnlinks(o) /\ settled[o] => Expired(files[o])]_vars

\* What the passes have counted so far: each pass its first, second, ...
Counted == {u \in Collectors \X (1..Cardinality(Objects)) : u[2] <= gc[u[1]].n}

\* Two passes at once never count one file twice, nor miss one: what RunOnce
\* reports, or is about to, is what the passes unlinked. Types are as declared.
DeletionsCounted ==
  /\ TypeOK
  /\ ~dryRun => unlinked = deleted + Cardinality(Counted)
                            + Cardinality({g \in Collectors : gc[g].pc = "meta"})

\* A file whose metadata says it is expired does not stay: some pass removes
\* it, or its metadata is replaced.
ExpiredFileCollected ==
  \A o \in Objects :
    (~dryRun /\ files[o] # None /\ Expired(meta[o]))
      ~> (files[o] = None \/ ~Expired(meta[o]))

\* The collector deletes an object only if it has passed its expiration time.
GCDeletesOnlyExpired ==
  [][\A o \in Objects : GCUnlinks(o) => Expired(files[o])]_vars
=============================================================================
