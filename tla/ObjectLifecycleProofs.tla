------------------------- MODULE ObjectLifecycleProofs -------------------------
(***************************************************************************)
(* Content and metadata of settled objects agree, the collector spares     *)
(* them, and its passes count what they remove, for any finite set of      *)
(* objects and any number of clients and collectors.                       *)
(***************************************************************************)
EXTENDS ObjectLifecycle, FiniteSetTheorems, TLAPS

-----------------------------------------------------------------------------
(* The inductive invariant                                                 *)

Requests ==
  {Idle}
    \cup [pc : {"putmeta"}, obj : Objects, dst : {None}, exp : Expiries, clean : BOOLEAN]
    \cup [pc : {"delmeta"}, obj : Objects, dst : {None}, exp : {None}, clean : BOOLEAN]
    \cup [pc : {"rename"}, obj : Plain, dst : Objects, exp : {None}, clean : BOOLEAN]

Passes ==
  {Resting}
    \cup [pc : {"scan"}, todo : SUBSET Objects, cur : {None}, n : Nat]
    \cup [pc : {"meta"}, todo : SUBSET Objects, cur : Objects, n : Nat]

Types ==
  /\ now \in 0..MaxTime
  /\ files \in [Objects -> Contents] /\ refs \in [Objects -> Contents]
  /\ meta \in [Objects -> Contents]
  /\ req \in [Clients -> Requests]
  /\ gc \in [Collectors -> Passes]
  /\ dryRun \in BOOLEAN
  /\ deleted \in Nat /\ unlinked \in Nat
  /\ settled \in [Objects -> BOOLEAN]
  /\ requests \in 0..MaxRequests /\ faults \in 0..MaxFaults

\* c has written the content of o and not yet its metadata.
Writes(c, o) ==
  req[c].pc \in {"putmeta", "delmeta"} /\ req[c].obj = o /\ Served(o) = req[c].exp

\* Nobody but client c is at work on o.
Alone(c, o) ==
  /\ \A d \in Clients : Touches(d, o) => d = c
  /\ \A g \in Collectors : ~Listed(g, o)

\* What a settled object's content and metadata may be while some handler or
\* some passes are at work on it.
SettledOK(o) ==
  settled[o] =>
    /\ ~Misfiled(o)
    /\ \A c \in Clients : Touches(c, o) => Alone(c, o) /\ Writes(c, o)
    /\ \A g \in Collectors : gc[g].cur = o => Served(o) = None
    /\ \A g \in Collectors : Listed(g, o) => Expired(meta[o]) \/ Served(o) = None
    /\ \/ Served(o) = meta[o]
       \/ \E c \in Clients : Touches(c, o)
       \/ \E g \in Collectors : gc[g].cur = o

\* A request that met nobody may settle its object.
CleanOK(c) ==
  req[c].clean /\ req[c].pc \in {"putmeta", "delmeta"} =>
    Alone(c, req[c].obj) /\ Writes(c, req[c].obj)

IInv == /\ Types
        /\ \A o \in Objects : SettledOK(o)
        /\ \A c \in Clients : CleanOK(c)

-----------------------------------------------------------------------------
(* What a step may change                                                  *)

\* The fields of a handler's state, by where it is.
LEMMA ReqFacts ==
  ASSUME Types, NEW c \in Clients
  PROVE  /\ None \notin Objects
         /\ req[c] \in Requests
         /\ req[c].pc = "idle" => req[c] = Idle
         /\ req[c].pc \in {"putmeta", "delmeta"} =>
              req[c].obj \in Objects /\ req[c].dst = None /\ req[c].exp \in Contents
         /\ req[c].pc = "delmeta" => req[c].exp = None
         /\ req[c].pc = "rename" => req[c].obj \in Plain /\ req[c].dst \in Objects
<1>1. req[c] \in Requests /\ None \notin Objects
  BY NoneAssumption DEF Types, Objects
<1>2. CASE req[c] = Idle
  BY <1>1, <1>2 DEF Idle
<1>3. CASE req[c] # Idle
  BY <1>1, <1>3 DEF Requests, Contents
<1> QED  BY <1>2, <1>3

\* A handler is where it was, but may have met another.
SameButClean(d) ==
  /\ req'[d].pc = req[d].pc /\ req'[d].obj = req[d].obj
  /\ req'[d].dst = req[d].dst /\ req'[d].exp = req[d].exp
  /\ req'[d].clean => req[d].clean

\* What c's request does to the others.
LEMMA BeginFacts ==
  ASSUME Types, NEW c \in Clients, NEW r \in Requests, NEW os \in SUBSET Objects, Begin(c, r, os)
  PROVE  /\ req[c] = Idle
         /\ req' \in [Clients -> Requests]
         /\ \A d \in Clients : d # c => /\ SameButClean(d)
                                        /\ req'[d].clean => \A o \in os : ~Touches(d, o)
         /\ req'[c].pc = r.pc /\ req'[c].obj = r.obj /\ req'[c].dst = r.dst /\ req'[c].exp = r.exp
         /\ req'[c].clean /\ r # Idle => r.clean /\ \A o \in os : ~Busy(o)
         /\ requests' \in 0..MaxRequests
<1>1. req[c] = Idle
  BY ReqFacts DEF Begin
<1>2. requests' \in 0..MaxRequests
  BY BoundsAssumption DEF Types, Begin
<1>3. PICK b \in BOOLEAN : /\ b = (r.clean /\ (r = Idle \/ \A o \in os : ~Busy(o)))
                           /\ r = Idle => b = TRUE
  <2>1. r = Idle => r.clean = TRUE
    BY DEF Idle
  <2>2. (r.clean /\ (r = Idle \/ \A o \in os : ~Busy(o))) \in BOOLEAN
    OBVIOUS
  <2> QED  BY <2>1, <2>2
<1>4. req' = [d \in Clients |->
                IF d = c THEN [r EXCEPT !.clean = b]
                ELSE IF \E o \in os : Touches(d, o) THEN [req[d] EXCEPT !.clean = FALSE]
                ELSE req[d]]
  BY <1>3 DEF Begin
<1>5. \A s \in Requests, x \in BOOLEAN : s # Idle => [s EXCEPT !.clean = x] \in Requests
  BY DEF Requests
<1>6. \A s \in Requests : /\ s # Idle => s.clean \in BOOLEAN
                          /\ s.pc = "idle" => s = Idle
  BY DEF Requests
<1>7. req'[c] \in Requests
  <2>1. CASE r = Idle
    <3>1. \A x : x = Idle.clean => [Idle EXCEPT !.clean = x] = Idle
      BY DEF Idle
    <3>2. req'[c] = Idle
      <4>1. b = Idle.clean
        BY <1>3, <2>1 DEF Idle
      <4> QED  BY <1>4, <2>1, <3>1, <4>1
    <3> QED  BY <3>2 DEF Requests
  <2>2. CASE r # Idle
    BY <1>3, <1>4, <1>5, <2>2
  <2> QED  BY <2>1, <2>2
<1>8. \A s \in Requests : \A x : /\ [s EXCEPT !.clean = x].pc = s.pc /\ [s EXCEPT !.clean = x].obj = s.obj
                             /\ [s EXCEPT !.clean = x].dst = s.dst /\ [s EXCEPT !.clean = x].exp = s.exp
                             /\ [s EXCEPT !.clean = x].clean = x
  BY DEF Requests, Idle
<1>9. ASSUME NEW d \in Clients, d # c
      PROVE  /\ SameButClean(d) /\ req'[d] \in Requests
             /\ req'[d].clean => \A o \in os : ~Touches(d, o)
  <2>1. CASE \E o \in os : Touches(d, o)
    <3>1. req'[d] = [req[d] EXCEPT !.clean = FALSE] /\ req[d] \in Requests
      BY <1>4, <1>9, <2>1, ReqFacts
    <3>2. req[d] # Idle
      BY <2>1 DEF Touches, Idle
    <3>3. /\ req'[d].pc = req[d].pc /\ req'[d].obj = req[d].obj
          /\ req'[d].dst = req[d].dst /\ req'[d].exp = req[d].exp
      BY <1>8, <3>1
    <3>4. ~req'[d].clean
      BY <1>8, <3>1
    <3> QED  BY <1>5, <3>1, <3>2, <3>3, <3>4 DEF SameButClean
  <2>2. CASE ~\E o \in os : Touches(d, o)
    <3>1. req'[d] = req[d] /\ req[d] \in Requests
      BY <1>4, <1>9, <2>2, ReqFacts
    <3> QED  BY <2>2, <3>1 DEF SameButClean
  <2> QED  BY <2>1, <2>2
<1>10. req' \in [Clients -> Requests]
  <2>1. \A d \in Clients : req'[d] \in Requests
    BY <1>7, <1>9
  <2> QED  BY <1>4, <2>1
<1>11. /\ req'[c].pc = r.pc /\ req'[c].obj = r.obj /\ req'[c].dst = r.dst /\ req'[c].exp = r.exp
       /\ req'[c].clean = b
  BY <1>4, <1>8
<1>12. req'[c].clean /\ r # Idle => r.clean /\ \A o \in os : ~Busy(o)
  BY <1>3, <1>11
<1> QED  BY <1>1, <1>2, <1>9, <1>10, <1>11, <1>12

\* An object a step does not concern is as settled as before.
LEMMA Kept ==
  ASSUME NEW o \in Objects, SettledOK(o), settled'[o] => settled[o],
         Served(o)' = Served(o), meta'[o] = meta[o], Misfiled(o)' => Misfiled(o),
         \A c \in Clients : Touches(c, o)' <=> Touches(c, o),
         \A c \in Clients : Touches(c, o) => SameButClean(c),
         \A g \in Collectors : gc'[g].cur = o <=> gc[g].cur = o,
         \A g \in Collectors : Listed(g, o)' => Listed(g, o),
         Expired(meta[o]) => Expired(meta[o])'
  PROVE  SettledOK(o)'
<1> SUFFICES ASSUME settled'[o]  PROVE SettledOK(o)'
  BY DEF SettledOK
<1>1. /\ ~Misfiled(o)
      /\ \A c \in Clients : Touches(c, o) => Alone(c, o) /\ Writes(c, o)
      /\ \A g \in Collectors : gc[g].cur = o => Served(o) = None
      /\ \A g \in Collectors : Listed(g, o) => Expired(meta[o]) \/ Served(o) = None
      /\ \/ Served(o) = meta[o]
         \/ \E c \in Clients : Touches(c, o)
         \/ \E g \in Collectors : gc[g].cur = o
  BY DEF SettledOK
<1>2. \A c \in Clients : Touches(c, o)' => Alone(c, o)' /\ Writes(c, o)'
  BY <1>1 DEF Alone, Writes, SameButClean
<1> QED  BY <1>1, <1>2 DEF SettledOK

\* A request that a step does not concern is as alone as before.
LEMMA CleanKept ==
  ASSUME Types, NEW d \in Clients, CleanOK(d), SameButClean(d), NEW o, o = req[d].obj,
         req[d].pc \in {"putmeta", "delmeta"} =>
           /\ Served(o)' = Served(o)
           /\ \A e \in Clients : Touches(e, o)' => e = d \/ Touches(e, o)
           /\ \A g \in Collectors : Listed(g, o)' => Listed(g, o)
  PROVE  CleanOK(d)'
<1> SUFFICES ASSUME req'[d].clean, req'[d].pc \in {"putmeta", "delmeta"}
             PROVE  CleanOK(d)'
  BY DEF CleanOK
<1>1. /\ req[d].pc \in {"putmeta", "delmeta"} /\ req[d].clean /\ req'[d].obj = o
      /\ req'[d].exp = req[d].exp
  BY DEF SameButClean
<1>2. Alone(d, o) /\ Writes(d, o)
  BY <1>1 DEF CleanOK
<1>3. Alone(d, o)'
  BY <1>1, <1>2 DEF Alone
<1>4. Writes(d, o)'
  BY <1>1, <1>2 DEF Writes
<1> QED  BY <1>1, <1>3, <1>4 DEF CleanOK

-----------------------------------------------------------------------------
(* The steps of handlers                                                   *)

\* A request of c begins on the objects os: on the others nothing changes,
\* and on these what is settled or may be has met nobody.
LEMMA FirstStep ==
  ASSUME IInv, NEW c \in Clients, NEW r \in Requests, NEW os \in SUBSET Objects, Begin(c, r, os),
         UNCHANGED <<now, meta, gc>>,
         r.pc # "idle" => {r.obj, r.dst} \cap Objects \subseteq os,
         \A o \in Objects \ os : /\ Served(o)' = Served(o) /\ (Misfiled(o)' => Misfiled(o))
                                 /\ settled'[o] => settled[o],
         \A o \in os : settled'[o] => /\ ~Busy(o) /\ ~Misfiled(o)' /\ o = r.obj
                                      /\ r.pc \in {"putmeta", "delmeta"} /\ Served(o)' = r.exp,
         \A o \in os : r.pc \in {"putmeta", "delmeta"} /\ r.clean /\ o = r.obj => Served(o)' = r.exp
  PROVE  /\ \A o \in Objects : SettledOK(o)'
         /\ \A d \in Clients : CleanOK(d)'
<1> USE DEF IInv
<1>1. /\ req[c] = Idle
      /\ \A d \in Clients : d # c => /\ SameButClean(d)
                                     /\ req'[d].clean => \A o \in os : ~Touches(d, o)
      /\ req'[c].pc = r.pc /\ req'[c].obj = r.obj /\ req'[c].dst = r.dst /\ req'[c].exp = r.exp
      /\ req'[c].clean /\ r # Idle => r.clean /\ \A o \in os : ~Busy(o)
  BY BeginFacts
<1>2. \A o : ~Touches(c, o)
  BY <1>1 DEF Touches, Idle
<1>3. \A d \in Clients : \A o : d # c => (Touches(d, o)' <=> Touches(d, o))
  BY <1>1 DEF Touches, SameButClean
<1>4. \A o \in Objects : Touches(c, o)' => o \in os
  BY <1>1 DEF Touches
<1>5. \A g, o : Listed(g, o)' <=> Listed(g, o)
  BY DEF Listed
<1>6. \A o \in os : ~Busy(o) => Alone(c, o)'
  BY <1>3, <1>5 DEF Alone, Busy
<1>7. ASSUME NEW o \in Objects  PROVE SettledOK(o)'
  <2>1. CASE o \notin os
    <3>1. \A d \in Clients : Touches(d, o)' <=> Touches(d, o)
      BY <1>2, <1>3, <1>4, <2>1
    <3>2. \A d \in Clients : Touches(d, o) => SameButClean(d)
      BY <1>1, <1>2
    <3>3. Expired(meta[o]) => Expired(meta[o])'
      BY DEF Expired
    <3>4. Served(o)' = Served(o) /\ (Misfiled(o)' => Misfiled(o)) /\ (settled'[o] => settled[o])
      BY <2>1
    <3> QED  BY <1>5, <3>1, <3>2, <3>3, <3>4, Kept
  <2>2. CASE o \in os
    <3> SUFFICES ASSUME settled'[o]  PROVE SettledOK(o)'
      BY DEF SettledOK
    <3>1. /\ ~Busy(o) /\ ~Misfiled(o)' /\ o = r.obj
          /\ r.pc \in {"putmeta", "delmeta"} /\ Served(o)' = r.exp
      BY <2>2
    <3>2. Alone(c, o)' /\ Writes(c, o)' /\ Touches(c, o)'
      BY <1>1, <1>6, <2>2, <3>1 DEF Writes, Touches
    <3>3. \A d \in Clients : Touches(d, o)' => d = c
      BY <3>2 DEF Alone
    <3>4. \A g \in Collectors : ~Listed(g, o)' /\ gc'[g].cur # o
      BY <1>5, <3>1 DEF Busy, Listed
    <3> QED  BY <3>1, <3>2, <3>3, <3>4 DEF SettledOK
  <2> QED  BY <2>1, <2>2
<1>8. ASSUME NEW d \in Clients  PROVE CleanOK(d)'
  <2>1. CASE d = c
    <3> SUFFICES ASSUME req'[c].clean, r.pc \in {"putmeta", "delmeta"}  PROVE CleanOK(d)'
      BY <1>1, <2>1 DEF CleanOK
    <3>1. r # Idle /\ r.obj \in Objects
      BY DEF Idle, Requests
    <3>2. PICK o \in os : o = r.obj
      BY <3>1
    <3>3. r.clean /\ ~Busy(o) /\ Served(o)' = r.exp
      BY <1>1, <3>1, <3>2
    <3>4. Alone(c, o)' /\ Writes(c, o)'
      BY <1>1, <1>6, <3>2, <3>3 DEF Writes
    <3> QED  BY <1>1, <2>1, <3>2, <3>4 DEF CleanOK
  <2>2. CASE d # c
    <3> SUFFICES ASSUME req'[d].clean  PROVE CleanOK(d)'
      BY DEF CleanOK
    <3>1. SameButClean(d) /\ \A o \in os : ~Touches(d, o)
      BY <1>1, <2>2
    <3>2. PICK o : o = req[d].obj
      OBVIOUS
    <3>3. ASSUME req[d].pc \in {"putmeta", "delmeta"}
          PROVE  /\ Served(o)' = Served(o)
                 /\ \A e \in Clients : Touches(e, o)' => e = d \/ Touches(e, o)
                 /\ \A g \in Collectors : Listed(g, o)' => Listed(g, o)
      <4>1. o \in Objects /\ o \notin os
        BY <3>1, <3>2, <3>3, ReqFacts DEF Touches
      <4>2. \A e \in Clients : Touches(e, o)' => Touches(e, o)
        BY <1>3, <1>4, <4>1
      <4> QED  BY <1>5, <4>1, <4>2
    <3> QED  BY <3>1, <3>2, <3>3, CleanKept
  <2> QED  BY <2>1, <2>2
<1> QED  BY <1>7, <1>8

\* What Unsettle leaves settled.
LEMMA UnsettleFacts ==
  ASSUME Types, NEW os, Unsettle(os)
  PROVE  /\ settled' \in [Objects -> BOOLEAN]
         /\ \A o \in Objects : settled'[o] => settled[o] /\ o \notin os
  BY DEF Types, Unsettle

LEMMA PutStoreGood ==
  ASSUME IInv, NEW c \in Clients, NEW o \in Objects, NEW e \in Expiries, NEW header \in BOOLEAN,
         PutStore(c, o, e, header)
  PROVE  IInv'
<1> USE DEF IInv
<1> DEFINE cl == (header => o \in Dedup)
           r == [Idle EXCEPT !.pc = "putmeta", !.obj = o, !.exp = e, !.clean = cl]
<1>1. /\ Begin(c, r, {o})
      /\ IF header \/ o \in Dedup
         THEN refs' = [refs EXCEPT ![o] = e] /\ UNCHANGED files
         ELSE files' = [files EXCEPT ![o] = e] /\ UNCHANGED refs
      /\ Unsettle(Contended({o}) \cup (IF header THEN {o} \cap Plain ELSE {}))
      /\ UNCHANGED <<now, meta, gc, dryRun, deleted, unlinked, faults>>
  BY DEF PutStore
<1>2. cl \in BOOLEAN
  OBVIOUS
<1>3. /\ r \in Requests /\ r.pc = "putmeta" /\ r.obj = o /\ r.dst = None /\ r.exp = e
      /\ r.clean = cl
  <2> HIDE DEF cl
  <2> QED  BY <1>2 DEF Idle, Requests
<1>4. r.clean => (header => o \in Dedup)
  BY <1>3
<1> HIDE DEF r
<1>5. None \notin Objects /\ e \in Contents /\ \A x \in Objects : x \in Plain <=> x \notin Dedup
  BY NoneAssumption, ObjectsAssumption DEF Objects, Contents
<1>6. /\ settled' \in [Objects -> BOOLEAN]
      /\ \A x \in Objects : settled'[x] => settled[x]
      /\ settled'[o] => ~Busy(o) /\ (header => o \in Dedup)
  BY <1>1, <1>5, UnsettleFacts DEF Contended
<1>7. \A x \in Objects \ {o} : Served(x)' = Served(x) /\ (Misfiled(x)' => Misfiled(x))
  BY <1>1 DEF Served, Misfiled, Types
<1>8. (header => o \in Dedup) => Served(o)' = e
  BY <1>1 DEF Served, Types
<1>9. Misfiled(o)' => Misfiled(o)
  BY <1>1 DEF Misfiled
<1>10. settled[o] => ~Misfiled(o)
  BY DEF SettledOK
<1>11. /\ files' \in [Objects -> Contents] /\ refs' \in [Objects -> Contents]
  BY <1>1, <1>5 DEF Types
<1>12. req' \in [Clients -> Requests] /\ requests' \in 0..MaxRequests
  BY <1>1, <1>3, BeginFacts
<1>13. Types'
  BY <1>1, <1>6, <1>11, <1>12 DEF Types
<1>14. {r.obj, r.dst} \cap Objects \subseteq {o}
  BY <1>3, <1>5
<1>15. /\ \A x \in {o} : settled'[x] => /\ ~Busy(x) /\ ~Misfiled(x)' /\ x = r.obj
                                        /\ r.pc \in {"putmeta", "delmeta"} /\ Served(x)' = r.exp
       /\ \A x \in {o} : r.pc \in {"putmeta", "delmeta"} /\ r.clean /\ x = r.obj => Served(x)' = r.exp
  BY <1>3, <1>4, <1>6, <1>8, <1>9, <1>10
<1>16. (\A x \in Objects : SettledOK(x)') /\ (\A d \in Clients : CleanOK(d)')
  BY <1>1, <1>3, <1>6, <1>7, <1>14, <1>15, FirstStep
<1> QED  BY <1>13, <1>16

LEMMA DeleteStoreGood ==
  ASSUME IInv, NEW c \in Clients, NEW o \in Objects, DeleteStore(c, o)
  PROVE  IInv'
<1> USE DEF IInv
<1> DEFINE r == [Idle EXCEPT !.pc = "delmeta", !.obj = o]
<1>1. /\ Begin(c, r, {o})
      /\ IF o \in Dedup
         THEN refs' = [refs EXCEPT ![o] = None] /\ UNCHANGED files
         ELSE /\ files[o] # None
              /\ files' = [files EXCEPT ![o] = None]
              /\ UNCHANGED refs
      /\ Unsettle(Contended({o}))
      /\ UNCHANGED <<now, meta, gc, dryRun, deleted, unlinked, faults>>
  BY DEF DeleteStore
<1>2. r \in Requests /\ r.pc = "delmeta" /\ r.obj = o /\ r.dst = None /\ r.exp = None
  BY DEF Idle, Requests
<1> HIDE DEF r
<1>3. None \notin Objects /\ None \in Contents
  BY NoneAssumption DEF Objects, Contents
<1>4. /\ settled' \in [Objects -> BOOLEAN]
      /\ \A x \in Objects : settled'[x] => settled[x]
      /\ settled'[o] => ~Busy(o)
  BY <1>1, UnsettleFacts DEF Contended
<1>5. \A x \in Objects \ {o} : Served(x)' = Served(x) /\ (Misfiled(x)' => Misfiled(x))
  BY <1>1 DEF Served, Misfiled, Types
<1>6. Served(o)' = None /\ (Misfiled(o)' => Misfiled(o))
  BY <1>1 DEF Served, Misfiled, Types
<1>7. settled[o] => ~Misfiled(o)
  BY DEF SettledOK
<1>8. /\ files' \in [Objects -> Contents] /\ refs' \in [Objects -> Contents]
  BY <1>1, <1>3 DEF Types
<1>9. req' \in [Clients -> Requests] /\ requests' \in 0..MaxRequests
  BY <1>1, <1>2, BeginFacts
<1>10. Types'
  BY <1>1, <1>4, <1>8, <1>9 DEF Types
<1>11. {r.obj, r.dst} \cap Objects \subseteq {o}
  BY <1>2, <1>3
<1>12. /\ \A x \in {o} : settled'[x] => /\ ~Busy(x) /\ ~Misfiled(x)' /\ x = r.obj
                                        /\ r.pc \in {"putmeta", "delmeta"} /\ Served(x)' = r.exp
       /\ \A x \in {o} : r.pc \in {"putmeta", "delmeta"} /\ r.clean /\ x = r.obj => Served(x)' = r.exp
  BY <1>2, <1>4, <1>6, <1>7
<1>13. (\A x \in Objects : SettledOK(x)') /\ (\A d \in Clients : CleanOK(d)')
  BY <1>1, <1>2, <1>4, <1>5, <1>11, <1>12, FirstStep
<1> QED  BY <1>10, <1>13

\* Both names of a move are unsettled, whether it is done at once or not.
LEMMA MoveGood ==
  ASSUME IInv, NEW c \in Clients, NEW s \in Objects, NEW d \in Objects,
         MoveDedup(c, s, d) \/ MoveCheck(c, s, d)
  PROVE  IInv'
<1> USE DEF IInv
<1> DEFINE os == {s, d}
<1>1. Unsettle(os) /\ UNCHANGED <<now, files, meta, gc, dryRun, deleted, unlinked, faults>>
  BY DEF MoveDedup, MoveCheck, stores
<1>2. /\ settled' \in [Objects -> BOOLEAN]
      /\ \A x \in Objects : settled'[x] => settled[x]
      /\ \A x \in os : ~settled'[x]
  BY <1>1, UnsettleFacts
<1>3. /\ refs' \in [Objects -> Contents]
      /\ \A x \in Objects \ os : Served(x)' = Served(x) /\ (Misfiled(x)' => Misfiled(x))
  <2>1. CASE MoveDedup(c, s, d)
    <3>1. refs' = [refs EXCEPT ![d] = refs[s], ![s] = None] /\ None \in Contents /\ refs[s] \in Contents
      BY <2>1 DEF MoveDedup, Contents, Types
    <3> QED  BY <1>1, <3>1 DEF Served, Misfiled, Types
  <2>2. CASE MoveCheck(c, s, d)
    BY <1>1, <2>2 DEF MoveCheck, stores, Served, Misfiled, Types
  <2> QED  BY <2>1, <2>2
<1>4. PICK r \in Requests : /\ Begin(c, r, os) /\ r.pc \notin {"putmeta", "delmeta"}
                            /\ r.pc # "idle" => {r.obj, r.dst} \cap Objects \subseteq os
  <2>1. CASE MoveDedup(c, s, d)
    BY <2>1 DEF MoveDedup, Idle, Requests
  <2>2. CASE MoveCheck(c, s, d)
    <3> DEFINE r == [Idle EXCEPT !.pc = "rename", !.obj = s, !.dst = d]
    <3>1. Begin(c, r, os) /\ s \in Plain
      BY <2>2 DEF MoveCheck
    <3>2. r \in Requests /\ r.pc = "rename" /\ r.obj = s /\ r.dst = d
      BY <3>1 DEF Idle, Requests
    <3> HIDE DEF r
    <3> QED  BY <3>1, <3>2
  <2> QED  BY <2>1, <2>2
<1>5. req' \in [Clients -> Requests] /\ requests' \in 0..MaxRequests
  BY <1>4, BeginFacts
<1>6. Types'
  BY <1>1, <1>2, <1>3, <1>5 DEF Types
<1> HIDE DEF os
<1>7. os \in SUBSET Objects
  BY DEF os
<1>8. (\A x \in Objects : SettledOK(x)') /\ (\A e \in Clients : CleanOK(e)')
  BY <1>1, <1>2, <1>3, <1>4, <1>7, FirstStep
<1> QED  BY <1>6, <1>8

\* A request of c ends, which was at work on the objects os.
LEMMA LastStep ==
  ASSUME IInv, NEW c \in Clients, NEW os \in SUBSET Objects, End(c), UNCHANGED <<now, gc>>,
         \A o \in Objects : Touches(c, o) <=> o \in os,
         \A o \in Objects \ os : /\ Served(o)' = Served(o) /\ (Misfiled(o)' => Misfiled(o))
                                 /\ meta'[o] = meta[o] /\ (settled'[o] => settled[o]),
         \A o \in os : settled'[o] => Alone(c, o) /\ ~Misfiled(o)' /\ Served(o)' = meta'[o]
  PROVE  /\ \A o \in Objects : SettledOK(o)'
         /\ \A d \in Clients : CleanOK(d)'
<1> USE DEF IInv
<1>1. req'[c] = Idle /\ \A d \in Clients : d # c => req'[d] = req[d]
  BY DEF End, Types
<1>2. \A o : ~Touches(c, o)'
  BY <1>1 DEF Touches, Idle
<1>3. \A d \in Clients : \A o : d # c => (Touches(d, o)' <=> Touches(d, o))
  BY <1>1 DEF Touches
<1>4. \A g, o : Listed(g, o)' <=> Listed(g, o)
  BY DEF Listed
<1>5. ASSUME NEW o \in Objects  PROVE SettledOK(o)'
  <2>1. CASE o \notin os
    <3>1. \A d \in Clients : Touches(d, o)' <=> Touches(d, o)
      BY <1>2, <1>3, <2>1
    <3>2. \A d \in Clients : Touches(d, o) => SameButClean(d)
      BY <1>1, <2>1 DEF SameButClean
    <3>3. Expired(meta[o]) => Expired(meta[o])'
      BY <2>1 DEF Expired
    <3>4. /\ Served(o)' = Served(o) /\ (Misfiled(o)' => Misfiled(o)) /\ (settled'[o] => settled[o])
          /\ meta'[o] = meta[o]
      BY <2>1
    <3> QED  BY <1>4, <3>1, <3>2, <3>3, <3>4, Kept
  <2>2. CASE o \in os
    <3> SUFFICES ASSUME settled'[o]  PROVE SettledOK(o)'
      BY DEF SettledOK
    <3>1. Alone(c, o) /\ ~Misfiled(o)' /\ Served(o)' = meta'[o]
      BY <2>2
    <3>2. \A d \in Clients : ~Touches(d, o)'
      BY <1>2, <1>3, <3>1 DEF Alone
    <3>3. \A g \in Collectors : ~Listed(g, o)' /\ gc'[g].cur # o
      BY <1>4, <3>1 DEF Alone, Listed
    <3> QED  BY <3>1, <3>2, <3>3 DEF SettledOK
  <2> QED  BY <2>1, <2>2
<1>6. ASSUME NEW d \in Clients  PROVE CleanOK(d)'
  <2>1. CASE d = c
    BY <1>1, <2>1 DEF CleanOK, Idle
  <2>2. CASE d # c
    <3> SUFFICES ASSUME req'[d].clean  PROVE CleanOK(d)'
      BY DEF CleanOK
    <3>1. SameButClean(d) /\ req[d].clean
      BY <1>1, <2>2 DEF SameButClean
    <3>2. PICK o : o = req[d].obj
      OBVIOUS
    <3>3. ASSUME req[d].pc \in {"putmeta", "delmeta"}
          PROVE  /\ Served(o)' = Served(o)
                 /\ \A e \in Clients : Touches(e, o)' => e = d \/ Touches(e, o)
                 /\ \A g \in Collectors : Listed(g, o)' => Listed(g, o)
      <4>1. o \in Objects /\ Alone(d, o)
        BY <3>1, <3>2, <3>3, ReqFacts DEF CleanOK
      <4>2. o \notin os
        BY <2>2, <4>1 DEF Alone
      <4>3. \A e \in Clients : Touches(e, o)' => Touches(e, o)
        BY <1>2, <1>3
      <4> QED  BY <1>4, <4>1, <4>2, <4>3
    <3> QED  BY <3>1, <3>2, <3>3, CleanKept
  <2> QED  BY <2>1, <2>2
<1> QED  BY <1>5, <1>6

\* The types after the last step of a handler.
LEMMA LastTypes ==
  ASSUME Types, NEW c \in Clients, End(c)
  PROVE  req' \in [Clients -> Requests]
<1>1. Idle \in Requests
  BY DEF Requests
<1> QED  BY <1>1 DEF Types, End

\* The metadata is written; a request that was alone settles its object.
LEMMA MetaGood ==
  ASSUME IInv, NEW c \in Clients, PutMeta(c) \/ DeleteMeta(c) \/ PutMetaFails(c)
  PROVE  IInv'
<1> USE DEF IInv
<1>1. /\ req[c].pc \in {"putmeta", "delmeta"} /\ End(c)
      /\ UNCHANGED <<now, files, refs, gc, dryRun, deleted, unlinked, requests>>
  BY DEF PutMeta, DeleteMeta, PutMetaFails, bounds, stores
<1>2. PICK o \in Objects, e \in Contents :
        o = req[c].obj /\ e = req[c].exp /\ req[c].dst = None /\ (req[c].pc = "delmeta" => e = None)
  BY <1>1, ReqFacts
<1>3. /\ \A x \in Objects : Touches(c, x) <=> x \in {o}
      /\ \A x : Served(x)' = Served(x) /\ (Misfiled(x)' <=> Misfiled(x))
  BY <1>1, <1>2, ReqFacts DEF Touches, Served, Misfiled
<1>4. SettledOK(o) /\ CleanOK(c)
  OBVIOUS
<1>5. CASE PutMeta(c) \/ DeleteMeta(c)
  <2>1. meta' = [meta EXCEPT ![o] = e] /\ Resettle(c) /\ UNCHANGED faults
    BY <1>1, <1>2, <1>5 DEF PutMeta, DeleteMeta, bounds
  <2>2. /\ settled' \in [Objects -> BOOLEAN]
        /\ \A x \in Objects \ {o} : settled'[x] => settled[x]
        /\ settled'[o] => settled[o] \/ (req[c].clean /\ ~Misfiled(o))
    BY <1>2, <2>1 DEF Resettle, Types
  <2>3. settled'[o] => Alone(c, o) /\ Writes(c, o) /\ ~Misfiled(o)
    <3>1. CASE settled[o]
      BY <1>3, <1>4, <3>1 DEF SettledOK
    <3>2. CASE req[c].clean /\ ~Misfiled(o)
      BY <1>1, <1>2, <1>4, <3>2 DEF CleanOK
    <3> QED  BY <2>2, <3>1, <3>2
  <2>4. settled'[o] => Served(o)' = meta'[o]
    BY <1>2, <1>3, <2>1, <2>3 DEF Writes, Types
  <2>5. \A x \in Objects \ {o} : meta'[x] = meta[x]
    BY <2>1 DEF Types
  <2>6. Types'
    BY <1>1, <2>1, <2>2, LastTypes DEF Types
  <2>7. (\A x \in Objects : SettledOK(x)') /\ (\A d \in Clients : CleanOK(d)')
    <3>1. {o} \in SUBSET Objects
      OBVIOUS
    <3> QED  BY <1>1, <1>3, <2>2, <2>3, <2>4, <2>5, <3>1, LastStep
  <2> QED  BY <2>6, <2>7
<1>6. CASE PutMetaFails(c)
  <2>1. meta' = meta /\ Unsettle({o}) /\ faults < MaxFaults /\ faults' = faults + 1
    BY <1>2, <1>6 DEF PutMetaFails, stores
  <2>2. /\ settled' \in [Objects -> BOOLEAN]
        /\ \A x \in Objects : settled'[x] => settled[x] /\ x \notin {o}
    BY <2>1, UnsettleFacts
  <2>3. faults' \in 0..MaxFaults
    BY <2>1, BoundsAssumption DEF Types
  <2>4. Types'
    BY <1>1, <2>1, <2>2, <2>3, LastTypes DEF Types
  <2>5. (\A x \in Objects : SettledOK(x)') /\ (\A d \in Clients : CleanOK(d)')
    <3>1. {o} \in SUBSET Objects
      OBVIOUS
    <3> QED  BY <1>1, <1>3, <2>1, <2>2, <3>1, LastStep
  <2> QED  BY <2>4, <2>5
<1> QED  BY <1>5, <1>6

\* A rename happens between objects that are not settled.
LEMMA RenameGood ==
  ASSUME IInv, NEW c \in Clients, MoveRename(c)
  PROVE  IInv'
<1> USE DEF IInv
<1>1. req[c].pc = "rename" /\ req[c].obj \in Plain /\ req[c].dst \in Objects
  BY ReqFacts DEF MoveRename
<1>2. PICK s \in Objects, d \in Objects : s = req[c].obj /\ d = req[c].dst
  BY <1>1 DEF Objects
<1>3. /\ files' = IF files[s] = None \/ s = d THEN files
                  ELSE [files EXCEPT ![d] = files[s], ![s] = None]
      /\ End(c)
      /\ UNCHANGED <<now, refs, meta, gc, dryRun, deleted, unlinked, settled, bounds>>
  BY <1>2 DEF MoveRename
<1> DEFINE os == {s, d}
<1>4. \A x \in Objects : Touches(c, x) <=> x \in os
  BY <1>1, <1>2 DEF Touches
<1>5. /\ files' \in [Objects -> Contents]
      /\ \A x \in Objects \ os : files'[x] = files[x]
  <2>1. None \in Contents /\ files[s] \in Contents
    BY DEF Types, Contents
  <2> QED  BY <1>3, <2>1 DEF Types
<1>6. \A x \in Objects \ os : Served(x)' = Served(x) /\ (Misfiled(x)' => Misfiled(x))
  BY <1>3, <1>5 DEF Served, Misfiled
<1>7. \A x \in os : ~settled[x]
  BY <1>1, <1>4 DEF SettledOK, Writes
<1>8. Types'
  BY <1>3, <1>5, LastTypes DEF Types, bounds
<1> HIDE DEF os
<1>9. (\A x \in Objects : SettledOK(x)') /\ (\A e \in Clients : CleanOK(e)')
  <2>1. os \in SUBSET Objects
    BY DEF os
  <2> QED  BY <1>3, <1>4, <1>6, <1>7, <2>1, LastStep
<1> QED  BY <1>8, <1>9

-----------------------------------------------------------------------------
(* The steps of passes                                                     *)

\* When the pass of g goes on to p, this concerns at most the object k.
OnlyAbout(g, p, k) ==
  /\ \A o \in Objects : o \in p.todo \/ p.cur = o => Listed(g, o)
  /\ \A o \in Objects \ {k} : /\ Served(o)' = Served(o) /\ (Misfiled(o)' => Misfiled(o))
                              /\ meta'[o] = meta[o] /\ (settled'[o] => settled[o])
                              /\ p.cur = o <=> gc[g].cur = o
  /\ k \in Objects => SettledOK(k)' /\ (Served(k)' = Served(k) \/ Listed(g, k))

LEMMA PassStep ==
  ASSUME IInv, NEW g \in Collectors, NEW p \in Passes, NEW k, gc' = [gc EXCEPT ![g] = p],
         UNCHANGED <<now, req>>, OnlyAbout(g, p, k)
  PROVE  /\ \A o \in Objects : SettledOK(o)'
         /\ \A d \in Clients : CleanOK(d)'
<1> USE DEF IInv, OnlyAbout
<1>1. gc'[g] = p /\ \A h \in Collectors : h # g => gc'[h] = gc[h]
  BY DEF Types
<1>2. \A h \in Collectors, o \in Objects : Listed(h, o)' => Listed(h, o)
  BY <1>1 DEF Listed
<1>3. \A d \in Clients : \A o : Touches(d, o)' <=> Touches(d, o)
  BY DEF Touches
<1>4. \A d \in Clients : SameButClean(d)
  BY DEF SameButClean
<1>5. ASSUME NEW o \in Objects  PROVE SettledOK(o)'
  <2>1. CASE o = k
    BY <2>1
  <2>2. CASE o # k
    <3>1. \A h \in Collectors : gc'[h].cur = o <=> gc[h].cur = o
      BY <1>1, <2>2
    <3>2. /\ Served(o)' = Served(o) /\ (Misfiled(o)' => Misfiled(o)) /\ (settled'[o] => settled[o])
          /\ meta'[o] = meta[o]
      BY <2>2
    <3>3. Expired(meta[o]) => Expired(meta[o])'
      BY <3>2 DEF Expired
    <3> QED  BY <1>2, <1>3, <1>4, <3>1, <3>2, <3>3, Kept
  <2> QED  BY <2>1, <2>2
<1>6. ASSUME NEW d \in Clients  PROVE CleanOK(d)'
  <2> SUFFICES ASSUME req'[d].clean  PROVE CleanOK(d)'
    BY DEF CleanOK
  <2>1. req[d].clean /\ CleanOK(d)
    OBVIOUS
  <2>2. PICK o : o = req[d].obj
    OBVIOUS
  <2>3. ASSUME req[d].pc \in {"putmeta", "delmeta"}
        PROVE  /\ Served(o)' = Served(o)
               /\ \A e \in Clients : Touches(e, o)' => e = d \/ Touches(e, o)
               /\ \A h \in Collectors : Listed(h, o)' => Listed(h, o)
    <3>1. o \in Objects /\ Alone(d, o)
      BY <2>1, <2>2, <2>3, ReqFacts DEF CleanOK
    <3>2. Served(o)' = Served(o)
      BY <3>1 DEF Alone
    <3> QED  BY <1>2, <1>3, <3>1, <3>2
  <2> QED  BY <1>4, <2>1, <2>2, <2>3, CleanKept
<1> QED  BY <1>5, <1>6

\* The types after a step of a pass.
LEMMA PassTypes ==
  ASSUME Types, NEW g \in Collectors, NEW p \in Passes, gc' = [gc EXCEPT ![g] = p]
  PROVE  gc' \in [Collectors -> Passes]
  BY DEF Types

\* The fields of a pass, by where it is.
LEMMA PassFacts ==
  ASSUME Types, NEW g \in Collectors
  PROVE  /\ gc[g] \in Passes /\ gc[g].todo \in SUBSET Objects /\ gc[g].n \in Nat
         /\ gc[g].pc = "idle" => gc[g] = Resting
         /\ gc[g].pc = "scan" => gc[g].cur = None
         /\ gc[g].pc = "meta" => gc[g].cur \in Objects
  BY DEF Types, Passes, Resting

\* A pass between two of the files it has listed.
LEMMA ScanFacts ==
  ASSUME Types, NEW g \in Collectors, gc[g].pc = "scan"
  PROVE  \E T \in SUBSET Objects, m \in Nat :
           gc[g] = [pc |-> "scan", todo |-> T, cur |-> None, n |-> m]
<1>1. gc[g] \in Passes
  BY DEF Types
<1>2. gc[g] \in [pc : {"scan"}, todo : SUBSET Objects, cur : {None}, n : Nat]
  BY <1>1 DEF Passes, Resting
<1> QED  BY <1>2

\* The file of a settled object that a pass removes is the content served,
\* and its uploader's expiry has passed.
LEMMA UnlinkFacts ==
  ASSUME IInv, NEW g \in Collectors, NEW o \in Objects, GCUnlink(g, o), settled[o]
  PROVE  /\ o \notin Dedup /\ Expired(files[o])
         /\ \A c \in Clients : ~Touches(c, o)
<1>1. SettledOK(o) /\ Listed(g, o) /\ files[o] # None
  BY DEF IInv, GCUnlink, Listed
<1>2. \A c \in Clients : ~Touches(c, o)
  BY <1>1 DEF SettledOK, Alone
<1>3. o \notin Dedup /\ Served(o) = files[o]
  BY <1>1 DEF SettledOK, Misfiled, Served
<1>4. \A h \in Collectors : gc[h].cur # o
  BY <1>1, <1>3 DEF SettledOK
<1>5. Served(o) = meta[o] /\ Expired(meta[o])
  BY <1>1, <1>2, <1>3, <1>4 DEF SettledOK
<1> QED  BY <1>2, <1>3, <1>5

LEMMA UnlinkGood ==
  ASSUME IInv, NEW g \in Collectors, NEW o \in Objects, GCUnlink(g, o)
  PROVE  IInv'
<1> USE DEF IInv
<1>1. /\ gc[g].pc = "scan" /\ o \in gc[g].todo
      /\ files' = [files EXCEPT ![o] = None] /\ unlinked' = unlinked + 1
      /\ UNCHANGED <<now, refs, meta, req, dryRun, deleted, settled, bounds>>
  BY DEF GCUnlink
<1>2. gc[g] \in Passes /\ gc[g].pc = "scan" /\ gc[g].cur = None /\ None \notin Objects
  BY <1>1, PassFacts, NoneAssumption DEF Objects
<1>3. PICK p \in Passes : /\ gc' = [gc EXCEPT ![g] = p]
                          /\ p.todo = gc[g].todo \ {o} /\ p.cur = o
  <2>1. PICK T \in SUBSET Objects, m \in Nat :
          gc[g] = [pc |-> "scan", todo |-> T, cur |-> None, n |-> m]
    BY <1>1, ScanFacts
  <2> DEFINE p == [pc |-> "meta", todo |-> T \ {o}, cur |-> o, n |-> m]
  <2>2. p \in Passes
    BY DEF Passes
  <2>3. gc' = [gc EXCEPT ![g] = p]
    BY <2>1 DEF GCUnlink, Types
  <2>4. p.todo = gc[g].todo \ {o} /\ p.cur = o
    BY <2>1
  <2> HIDE DEF p
  <2> QED  BY <2>2, <2>3, <2>4
<1>4. files' \in [Objects -> Contents]
  BY <1>1 DEF Types, Contents
<1>5. Types'
  BY <1>1, <1>3, <1>4, PassTypes DEF Types, bounds
<1>6. \A x \in Objects : x \in p.todo \/ p.cur = x => Listed(g, x)
  BY <1>1, <1>3 DEF Listed
<1>7. \A x \in Objects \ {o} : /\ Served(x)' = Served(x) /\ (Misfiled(x)' => Misfiled(x))
                               /\ meta'[x] = meta[x] /\ (settled'[x] => settled[x])
                               /\ p.cur = x <=> gc[g].cur = x
  BY <1>1, <1>2, <1>3 DEF Served, Misfiled, Types
<1>8. SettledOK(o)'
  <2> SUFFICES ASSUME settled[o]  PROVE SettledOK(o)'
    BY <1>1 DEF SettledOK
  <2>1. o \notin Dedup /\ \A c \in Clients : ~Touches(c, o)
    BY UnlinkFacts
  <2>2. Served(o)' = None /\ ~Misfiled(o)' /\ \A c \in Clients : ~Touches(c, o)'
    BY <1>1, <2>1 DEF Served, Misfiled, Touches, Types
  <2>3. gc'[g].cur = o
    BY <1>3 DEF Types
  <2> QED  BY <2>2, <2>3 DEF SettledOK
<1>9. Listed(g, o)
  BY <1>1 DEF Listed
<1>10. (\A x \in Objects : SettledOK(x)') /\ (\A d \in Clients : CleanOK(d)')
  <2>1. OnlyAbout(g, p, o) /\ UNCHANGED <<now, req>>
    BY <1>1, <1>6, <1>7, <1>8, <1>9 DEF OnlyAbout
  <2> HIDE DEF IInv
  <2> QED  BY <1>3, <2>1, PassStep
<1> QED  BY <1>5, <1>10

\* A file that cannot be removed, or would have been, leaves the list.
LEMMA SkipGood ==
  ASSUME IInv, NEW g \in Collectors, NEW o \in Objects, GCSkip(g, o) \/ GCDryRun(g, o)
  PROVE  IInv'
<1> USE DEF IInv
<1>1. /\ gc[g].pc = "scan" /\ o \in gc[g].todo
      /\ UNCHANGED <<now, stores, req, dryRun, deleted, unlinked, settled, bounds>>
  BY DEF GCSkip, GCDryRun
<1>2. PICK T \in SUBSET Objects, m \in Nat :
        gc[g] = [pc |-> "scan", todo |-> T, cur |-> None, n |-> m]
  BY <1>1, ScanFacts
<1>3. PICK m1 \in {m, m + 1} :
        gc' = [gc EXCEPT ![g] = [pc |-> "scan", todo |-> T \ {o}, cur |-> None, n |-> m1]]
  BY <1>2 DEF GCSkip, GCDryRun, Types
<1>4. [pc |-> "scan", todo |-> T \ {o}, cur |-> None, n |-> m1] \in Passes
  BY DEF Passes
<1>5. PICK p \in Passes : /\ gc' = [gc EXCEPT ![g] = p]
                          /\ p.todo \subseteq gc[g].todo /\ p.cur = gc[g].cur
  <2> DEFINE q == [pc |-> "scan", todo |-> T \ {o}, cur |-> None, n |-> m1]
  <2>1. gc' = [gc EXCEPT ![g] = q] /\ q \in Passes
    BY <1>3, <1>4
  <2>2. q.todo \subseteq gc[g].todo /\ q.cur = gc[g].cur
    BY <1>2
  <2> HIDE DEF q
  <2> QED  BY <2>1, <2>2
<1>6. Types'
  BY <1>1, <1>5, PassTypes DEF Types, bounds, stores
<1>7. \A x \in Objects : x \in p.todo \/ p.cur = x => Listed(g, x)
  BY <1>5 DEF Listed
<1>8. \A x \in Objects \ {None} : /\ Served(x)' = Served(x) /\ (Misfiled(x)' => Misfiled(x))
                                  /\ meta'[x] = meta[x] /\ (settled'[x] => settled[x])
                                  /\ p.cur = x <=> gc[g].cur = x
  BY <1>1, <1>5 DEF Served, Misfiled, stores
<1>9. None \notin Objects
  BY NoneAssumption DEF Objects
<1>10. OnlyAbout(g, p, None) /\ UNCHANGED <<now, req>>
  BY <1>1, <1>7, <1>8, <1>9 DEF OnlyAbout
<1>11. (\A x \in Objects : SettledOK(x)') /\ (\A d \in Clients : CleanOK(d)')
  <2> HIDE DEF IInv
  <2> QED  BY <1>5, <1>10, PassStep
<1> QED  BY <1>6, <1>11

\* The metadata of a file that is gone goes too, or cannot.
LEMMA GCMetaGood ==
  ASSUME IInv, NEW g \in Collectors, GCMeta(g) \/ GCMetaFails(g)
  PROVE  IInv'
<1> USE DEF IInv
<1>1. /\ gc[g].pc = "meta"
      /\ UNCHANGED <<now, files, refs, req, dryRun, deleted, unlinked, requests>>
  BY DEF GCMeta, GCMetaFails, bounds, stores
<1>2. PICK o \in Objects, T \in SUBSET Objects, m \in Nat :
        gc[g] = [pc |-> "meta", todo |-> T, cur |-> o, n |-> m]
  <2>1. gc[g] \in [pc : {"meta"}, todo : SUBSET Objects, cur : Objects, n : Nat]
    BY <1>1, PassFacts DEF Passes, Resting
  <2> QED  BY <2>1
<1>3. PICK p \in Passes : gc' = [gc EXCEPT ![g] = p] /\ p.todo = T /\ p.cur = None
  <2> DEFINE q == [pc |-> "scan", todo |-> T, cur |-> None, n |-> m + 1]
  <2>1. gc' = [gc EXCEPT ![g] = q] /\ q \in Passes
    BY <1>2 DEF GCMeta, GCMetaFails, Passes, Types
  <2>2. q.todo = T /\ q.cur = None
    OBVIOUS
  <2> HIDE DEF q
  <2> QED  BY <2>1, <2>2
<1>4. p.todo = gc[g].todo /\ p.cur = None /\ gc[g].cur = o
  BY <1>2, <1>3
<1>5. None \notin Objects /\ None \in Contents
  BY NoneAssumption DEF Objects, Contents
<1>6. /\ meta' \in [Objects -> Contents] /\ settled' \in [Objects -> BOOLEAN]
      /\ faults' \in 0..MaxFaults
      /\ \A x \in Objects \ {o} : meta'[x] = meta[x]
      /\ \A x \in Objects : settled'[x] => settled[x]
      /\ settled'[o] => meta'[o] = None
  <2>1. CASE GCMeta(g)
    <3>1. meta' = [meta EXCEPT ![o] = None] /\ UNCHANGED <<settled, faults>>
      BY <1>4, <2>1 DEF GCMeta, bounds
    <3> QED  BY <1>5, <3>1 DEF Types
  <2>2. CASE GCMetaFails(g)
    <3>1. /\ Unsettle({o}) /\ meta' = meta
          /\ faults < MaxFaults /\ faults' = faults + 1
      BY <1>4, <2>2 DEF GCMetaFails, stores
    <3>2. faults' \in 0..MaxFaults
      BY <3>1, BoundsAssumption DEF Types
    <3> QED  BY <3>1, <3>2, UnsettleFacts DEF Types
  <2> QED  BY <2>1, <2>2
<1>7. Types'
  BY <1>1, <1>3, <1>6, PassTypes DEF Types
<1>8. \A x \in Objects : x \in p.todo \/ p.cur = x => Listed(g, x)
  BY <1>4, <1>5 DEF Listed
<1>9. \A x \in Objects : Served(x)' = Served(x) /\ (Misfiled(x)' <=> Misfiled(x))
  BY <1>1 DEF Served, Misfiled
<1>10. \A x \in Objects \ {o} : /\ Served(x)' = Served(x) /\ (Misfiled(x)' => Misfiled(x))
                                /\ meta'[x] = meta[x] /\ (settled'[x] => settled[x])
                                /\ p.cur = x <=> gc[g].cur = x
  BY <1>4, <1>5, <1>6, <1>9
<1>11. SettledOK(o)'
  <2> SUFFICES ASSUME settled'[o]  PROVE SettledOK(o)'
    BY DEF SettledOK
  <2>1. settled[o] /\ Listed(g, o) /\ meta'[o] = None
    BY <1>4, <1>6 DEF Listed
  <2>2. ~Misfiled(o) /\ Served(o) = None /\ \A c \in Clients : ~Touches(c, o)
    BY <1>4, <2>1 DEF SettledOK, Alone
  <2>3. \A c \in Clients : ~Touches(c, o)'
    BY <1>1, <2>2 DEF Touches
  <2> QED  BY <1>9, <2>1, <2>2, <2>3 DEF SettledOK
<1>12. (\A x \in Objects : SettledOK(x)') /\ (\A d \in Clients : CleanOK(d)')
  <2>1. OnlyAbout(g, p, o) /\ UNCHANGED <<now, req>>
    BY <1>1, <1>8, <1>9, <1>10, <1>11 DEF OnlyAbout
  <2> HIDE DEF IInv
  <2> QED  BY <1>3, <2>1, PassStep
<1> QED  BY <1>7, <1>12

\* A pass ends with nothing in hand.
LEMMA DoneGood ==
  ASSUME IInv, NEW g \in Collectors, GCDone(g)
  PROVE  IInv'
<1> USE DEF IInv
<1>1. /\ gc[g].pc = "scan" /\ gc' = [gc EXCEPT ![g] = Resting]
      /\ UNCHANGED <<now, stores, req, dryRun, unlinked, settled, bounds>>
  BY DEF GCDone
<1>2. PICK p \in Passes : p = Resting /\ p.todo = {} /\ p.cur = None
  <2>1. Resting \in Passes
    BY DEF Passes
  <2>2. Resting.todo = {} /\ Resting.cur = None
    BY DEF Resting
  <2> QED  BY <2>1, <2>2
<1>3. gc[g].cur = None /\ gc[g].n \in Nat /\ None \notin Objects
  BY <1>1, PassFacts, NoneAssumption DEF Objects
<1>4. deleted' \in Nat
  BY <1>3, BoundsAssumption DEF GCDone, Types
<1>5. Types'
  BY <1>1, <1>2, <1>4, PassTypes DEF Types, bounds, stores
<1>6. \A x \in Objects : x \in p.todo \/ p.cur = x => Listed(g, x)
  BY <1>2, <1>3
<1>7. \A x \in Objects \ {None} : /\ Served(x)' = Served(x) /\ (Misfiled(x)' => Misfiled(x))
                                  /\ meta'[x] = meta[x] /\ (settled'[x] => settled[x])
                                  /\ p.cur = x <=> gc[g].cur = x
  BY <1>1, <1>2, <1>3 DEF Served, Misfiled, stores
<1>8. OnlyAbout(g, p, None) /\ UNCHANGED <<now, req>> /\ gc' = [gc EXCEPT ![g] = p]
  BY <1>1, <1>2, <1>3, <1>6, <1>7 DEF OnlyAbout
<1>9. (\A x \in Objects : SettledOK(x)') /\ (\A d \in Clients : CleanOK(d)')
  <2> HIDE DEF IInv
  <2> QED  BY <1>8, PassStep
<1> QED  BY <1>5, <1>9

\* A pass lists what has expired: no request that is alone has it in hand, and
\* no listed object that is settled has a request.
LEMMA ListGood ==
  ASSUME IInv, NEW g \in Collectors, GCList(g)
  PROVE  IInv'
<1> USE DEF IInv
<1> DEFINE expired == {o \in Objects : Expired(meta[o])}
           Met(c) == \E o \in expired : Touches(c, o)
           p == [pc |-> "scan", todo |-> expired, cur |-> None, n |-> 0]
<1>1. /\ gc[g].pc = "idle" /\ gc' = [gc EXCEPT ![g] = p]
      /\ Unsettle({o \in expired : \E c \in Clients : Touches(c, o)})
      /\ req' = [c \in Clients |-> IF Met(c) THEN [req[c] EXCEPT !.clean = FALSE] ELSE req[c]]
      /\ UNCHANGED <<now, stores, dryRun, deleted, unlinked, bounds>>
  BY DEF GCList
<1>2. p \in Passes /\ p.todo = expired /\ p.cur = None
  BY DEF Passes
<1>3. \A o \in expired : o \in Objects /\ Expired(meta[o])
  OBVIOUS
<1> HIDE DEF expired, p
<1>4. gc[g].cur = None /\ None \notin Objects
  BY <1>1, PassFacts, NoneAssumption DEF Objects, Resting
<1>5. /\ settled' \in [Objects -> BOOLEAN]
      /\ \A o \in Objects : settled'[o] =>
           settled[o] /\ (o \in expired => \A c \in Clients : ~Touches(c, o))
  BY <1>1, UnsettleFacts
<1>6. /\ req' \in [Clients -> Requests]
      /\ \A c \in Clients : SameButClean(c) /\ (req'[c].clean => ~Met(c))
  <2>1. \A s \in Requests : s.pc # "idle" =>
          /\ [s EXCEPT !.clean = FALSE].pc = s.pc /\ [s EXCEPT !.clean = FALSE].obj = s.obj
          /\ [s EXCEPT !.clean = FALSE].dst = s.dst /\ [s EXCEPT !.clean = FALSE].exp = s.exp
          /\ ~[s EXCEPT !.clean = FALSE].clean
    BY DEF Requests, Idle
  <2>6. \A s \in Requests : s # Idle => [s EXCEPT !.clean = FALSE] \in Requests
    BY DEF Requests
  <2>7. Idle.pc = "idle"
    BY DEF Idle
  <2>2. \A c \in Clients : Met(c) => req[c].pc # "idle"
    BY DEF Touches
  <2>3. ASSUME NEW c \in Clients
        PROVE  req'[c] \in Requests /\ SameButClean(c) /\ (req'[c].clean => ~Met(c))
    <3>1. CASE Met(c)
      <4>1. req'[c] = [req[c] EXCEPT !.clean = FALSE] /\ req[c] \in Requests /\ req[c].pc # "idle"
        BY <1>1, <2>2, <3>1 DEF Types
      <4> HIDE DEF Met
      <4> QED  BY <2>1, <2>6, <2>7, <4>1 DEF SameButClean
    <3>2. CASE ~Met(c)
      <4>1. req'[c] = req[c] /\ req[c] \in Requests
        BY <1>1, <3>2 DEF Types
      <4> HIDE DEF Met
      <4> QED  BY <3>2, <4>1 DEF SameButClean
    <3> QED  BY <3>1, <3>2
  <2>4. \A c \in Clients : req'[c] \in Requests
    BY <2>3
  <2>5. req' = [c \in Clients |-> req'[c]]
    BY <1>1
  <2> QED  BY <2>3, <2>4, <2>5
<1>7. Types'
  BY <1>1, <1>2, <1>5, <1>6, PassTypes DEF Types, bounds, stores
<1>8. \A c \in Clients : \A o : Touches(c, o)' <=> Touches(c, o)
  BY <1>6 DEF Touches, SameButClean
<1>9. \A o \in Objects : /\ Served(o)' = Served(o) /\ meta'[o] = meta[o]
                         /\ Misfiled(o)' <=> Misfiled(o)
                         /\ Expired(meta[o])' <=> Expired(meta[o])
  BY <1>1 DEF Served, Misfiled, Expired, stores
<1>10. \A h \in Collectors, o \in Objects : /\ gc'[h].cur = o <=> gc[h].cur = o
                                            /\ Listed(h, o)' => Listed(h, o) \/ o \in expired
  BY <1>1, <1>2, <1>4 DEF Listed, Types
<1>11. ASSUME NEW o \in Objects  PROVE SettledOK(o)'
  <2> SUFFICES ASSUME settled'[o]  PROVE SettledOK(o)'
    BY DEF SettledOK
  <2>1. settled[o] /\ (o \in expired => \A c \in Clients : ~Touches(c, o))
    BY <1>5
  <2>2. SettledOK(o)
    OBVIOUS
  <2>3. ASSUME NEW c \in Clients, Touches(c, o)'  PROVE Alone(c, o)' /\ Writes(c, o)'
    <3>1. Touches(c, o) /\ Alone(c, o) /\ Writes(c, o) /\ o \notin expired
      BY <1>8, <2>1, <2>2, <2>3 DEF SettledOK
    <3>2. Alone(c, o)'
      BY <1>8, <1>10, <3>1 DEF Alone
    <3>3. Writes(c, o)'
      BY <1>6, <1>9, <3>1 DEF Writes, SameButClean
    <3> QED  BY <3>2, <3>3
  <2>4. \A h \in Collectors : Listed(h, o)' => Expired(meta[o])' \/ Served(o)' = None
    BY <1>3, <1>9, <1>10, <2>1, <2>2 DEF SettledOK
  <2>5. /\ ~Misfiled(o)' /\ \A h \in Collectors : gc'[h].cur = o => Served(o)' = None
        /\ \/ Served(o)' = meta'[o]
           \/ \E c \in Clients : Touches(c, o)'
           \/ \E h \in Collectors : gc'[h].cur = o
    BY <1>8, <1>9, <1>10, <2>1, <2>2 DEF SettledOK
  <2> QED  BY <2>3, <2>4, <2>5 DEF SettledOK
<1>12. ASSUME NEW d \in Clients  PROVE CleanOK(d)'
  <2> SUFFICES ASSUME req'[d].clean  PROVE CleanOK(d)'
    BY DEF CleanOK
  <2>1. CleanOK(d) /\ SameButClean(d) /\ ~Met(d)
    BY <1>6
  <2>2. PICK o : o = req[d].obj
    OBVIOUS
  <2>3. ASSUME req[d].pc \in {"putmeta", "delmeta"}
        PROVE  /\ Served(o)' = Served(o)
               /\ \A e \in Clients : Touches(e, o)' => e = d \/ Touches(e, o)
               /\ \A h \in Collectors : Listed(h, o)' => Listed(h, o)
    <3>1. o \in Objects /\ Touches(d, o)
      BY <2>2, <2>3, ReqFacts DEF Touches
    <3>2. o \notin expired
      BY <2>1, <3>1
    <3> QED  BY <1>8, <1>9, <1>10, <3>1, <3>2
  <2> QED  BY <2>1, <2>2, <2>3, CleanKept
<1> QED  BY <1>7, <1>11, <1>12

-----------------------------------------------------------------------------
(* Time, crashes, and the invariant                                        *)

\* What has expired stays expired.
LEMMA TickGood ==
  ASSUME IInv, Tick
  PROVE  IInv'
<1> USE DEF IInv
<1>1. /\ now < MaxTime /\ now' = now + 1
      /\ UNCHANGED <<files, refs, meta, req, gc, dryRun, deleted, unlinked, settled, requests, faults>>
  BY DEF Tick, stores, bounds
<1>2. now \in Nat /\ now' \in 0..MaxTime
  BY <1>1, BoundsAssumption DEF Types
<1>3. Types'
  BY <1>1, <1>2 DEF Types
<1>4. \A o \in Objects : /\ Served(o)' = Served(o) /\ (Misfiled(o)' <=> Misfiled(o))
                         /\ meta'[o] = meta[o] /\ settled'[o] = settled[o]
  BY <1>1 DEF Served, Misfiled
<1>5. /\ \A c \in Clients : \A o : Touches(c, o)' <=> Touches(c, o)
      /\ \A c \in Clients : SameButClean(c)
      /\ \A g \in Collectors : \A o : Listed(g, o)' <=> Listed(g, o)
      /\ \A g \in Collectors : \A o : gc'[g].cur = o <=> gc[g].cur = o
  BY <1>1 DEF Touches, SameButClean, Listed
<1>6. \A o \in Objects : Expired(meta[o]) => Expired(meta[o])'
  <2>1. \A o \in Objects : meta[o] \in {None, Never} \cup Nat
    BY BoundsAssumption DEF Types, Contents, Expiries
  <2> QED  BY <1>1, <1>2, <2>1 DEF Expired
<1>7. ASSUME NEW o \in Objects  PROVE SettledOK(o)'
  BY <1>4, <1>5, <1>6, Kept
<1>8. ASSUME NEW d \in Clients  PROVE CleanOK(d)'
  <2>1. PICK o : o = req[d].obj
    OBVIOUS
  <2>2. Served(o)' = Served(o)
    BY <1>1 DEF Served
  <2> QED  BY <1>5, <2>1, <2>2, CleanKept
<1> QED  BY <1>3, <1>7, <1>8

\* Nothing is at work after a crash, and what was is unsettled.
LEMMA CrashGood ==
  ASSUME IInv, Crash
  PROVE  IInv'
<1> USE DEF IInv
<1>1. /\ faults < MaxFaults /\ faults' = faults + 1
      /\ Unsettle({o \in Objects : Busy(o)})
      /\ req' = [c \in Clients |-> Idle] /\ gc' = [g \in Collectors |-> Resting]
      /\ deleted' = 0 /\ unlinked' = 0
      /\ UNCHANGED <<now, files, refs, meta, dryRun, requests>>
  BY DEF Crash, stores
<1>2. faults' \in 0..MaxFaults
  BY <1>1, BoundsAssumption DEF Types
<1>3. /\ settled' \in [Objects -> BOOLEAN]
      /\ \A o \in Objects : settled'[o] => settled[o] /\ ~Busy(o)
  BY <1>1, UnsettleFacts
<1>4. Idle \in Requests /\ Resting \in Passes
  BY DEF Requests, Passes
<1>5. Types'
  BY <1>1, <1>2, <1>3, <1>4 DEF Types
<1>6. /\ \A c \in Clients : \A o : ~Touches(c, o)'
      /\ \A c \in Clients : req'[c].pc = "idle"
  BY <1>1 DEF Touches, Idle
<1>7. \A g \in Collectors, o \in Objects : ~Listed(g, o)' /\ gc'[g].cur # o
  BY <1>1, NoneAssumption DEF Listed, Resting, Objects
<1>8. ASSUME NEW o \in Objects, settled'[o]  PROVE SettledOK(o)'
  <2>1. settled[o] /\ SettledOK(o) /\ ~Busy(o)
    BY <1>3, <1>8
  <2>2. ~Misfiled(o) /\ Served(o) = meta[o]
    BY <2>1 DEF SettledOK, Busy, Listed
  <2>3. ~Misfiled(o)' /\ Served(o)' = meta'[o]
    BY <1>1, <2>2 DEF Misfiled, Served
  <2> QED  BY <1>6, <1>7, <2>3 DEF SettledOK
<1>9. \A o \in Objects : SettledOK(o)'
  BY <1>8 DEF SettledOK
<1>10. \A d \in Clients : CleanOK(d)'
  BY <1>6 DEF CleanOK
<1> QED  BY <1>5, <1>9, <1>10

LEMMA InitGood == Init => IInv
<1> SUFFICES ASSUME Init  PROVE IInv
  OBVIOUS
<1>1. Idle \in Requests /\ Resting \in Passes /\ None \in Contents
  BY DEF Requests, Passes, Contents
<1>2. Types
  BY <1>1, BoundsAssumption DEF Init, Types
<1>3. /\ \A c \in Clients : \A o : ~Touches(c, o)
      /\ \A c \in Clients : req[c].pc = "idle"
  BY DEF Init, Touches, Idle
<1>4. \A g \in Collectors, o \in Objects : ~Listed(g, o) /\ gc[g].cur # o
  BY NoneAssumption DEF Init, Listed, Resting, Objects
<1>5. \A o \in Objects : ~Misfiled(o) /\ Served(o) = meta[o]
  BY DEF Init, Misfiled, Served
<1>6. \A o \in Objects : SettledOK(o)
  BY <1>3, <1>4, <1>5 DEF SettledOK
<1>7. \A c \in Clients : CleanOK(c)
  BY <1>3 DEF CleanOK
<1> QED  BY <1>2, <1>6, <1>7 DEF IInv

LEMMA StutterGood ==
  ASSUME IInv, UNCHANGED vars
  PROVE  IInv'
<1> USE DEF IInv
<1>1. UNCHANGED <<now, files, refs, meta, req, gc, dryRun, deleted, unlinked, settled, requests, faults>>
  BY DEF vars
<1>2. Types'
  BY <1>1 DEF Types
<1>3. /\ \A c, o : Touches(c, o)' <=> Touches(c, o)
      /\ \A g, o : Listed(g, o)' <=> Listed(g, o)
      /\ \A o : Served(o)' = Served(o) /\ (Misfiled(o)' <=> Misfiled(o))
  BY <1>1 DEF Touches, Listed, Served, Misfiled
<1>4. \A c, o : (Alone(c, o)' <=> Alone(c, o)) /\ (Writes(c, o)' <=> Writes(c, o))
  BY <1>1, <1>3 DEF Alone, Writes
<1>5. \A o \in Objects : SettledOK(o)'
  BY <1>1, <1>3, <1>4 DEF SettledOK, Expired
<1>6. \A c \in Clients : CleanOK(c)'
  BY <1>1, <1>4 DEF CleanOK
<1> QED  BY <1>2, <1>5, <1>6

LEMMA StepGood == IInv /\ [Next]_vars => IInv'
<1> SUFFICES ASSUME IInv, [Next]_vars  PROVE IInv'
  OBVIOUS
<1>1. ASSUME NEW c \in Clients, Request(c)  PROVE IInv'
  BY <1>1, PutStoreGood, DeleteStoreGood, MoveGood DEF Request
<1>2. ASSUME NEW c \in Clients, Handler(c) \/ PutMetaFails(c)  PROVE IInv'
  BY <1>2, MetaGood, RenameGood DEF Handler
<1>3. ASSUME NEW g \in Collectors, RunOnce(g) \/ GCMetaFails(g)  PROVE IInv'
  BY <1>3, ListGood, GCMetaGood, DoneGood, UnlinkGood, SkipGood DEF RunOnce
<1>4. CASE Tick
  BY <1>4, TickGood
<1>5. CASE Crash
  BY <1>5, CrashGood
<1>6. CASE UNCHANGED vars
  BY <1>6, StutterGood
<1> QED  BY <1>1, <1>2, <1>3, <1>4, <1>5, <1>6 DEF Next

LEMMA Invariance == Spec => []IInv
  BY InitGood, StepGood, PTL DEF Spec

-----------------------------------------------------------------------------
(* The properties                                                          *)

\* Content and metadata of a settled object agree when nobody is at work on it.
THEOREM SettledObjectsAgree == Spec => []SettledAgree
<1>1. IInv => SettledAgree
  <2> SUFFICES ASSUME IInv, NEW o \in Objects, settled[o], ~Busy(o)
               PROVE  Served(o) = meta[o]
    BY DEF SettledAgree
  <2>1. SettledOK(o)
    BY DEF IInv
  <2> QED  BY <2>1 DEF SettledOK, Busy, Listed
<1> QED  BY <1>1, Invariance, PTL

\* The only step that empties a file while a pass goes on to the metadata is
\* GCUnlink's, and of a settled object it removes an expired content.
THEOREM SettledObjectsSpared == Spec => GCSparesSettled
<1> DEFINE Spares == \A o \in Plain : GCUnlinks(o) /\ settled[o] => Expired(files[o])
<1>1. IInv /\ [Next]_vars => [Spares]_vars
  <2> SUFFICES ASSUME IInv, Next, NEW o \in Plain, GCUnlinks(o), settled[o]
               PROVE  Expired(files[o])
    BY DEF GCUnlinks
  <2>1. PICK g \in Collectors : gc[g].pc = "scan" /\ gc'[g].pc = "meta"
    BY DEF GCUnlinks
  <2>2. files[o] # None /\ files'[o] = None /\ o \in Objects
    BY DEF GCUnlinks, Objects
  <2>3. gc' # gc /\ files' # files
    BY <2>1, <2>2
  <2>4. ASSUME NEW c \in Clients, Request(c) \/ Handler(c) \/ PutMetaFails(c)  PROVE FALSE
    BY <2>3, <2>4 DEF Request, Handler, PutStore, DeleteStore, MoveDedup, MoveCheck,
                      PutMeta, DeleteMeta, MoveRename, PutMetaFails
  <2>5. ASSUME Tick \/ Crash  PROVE FALSE
    BY <2>3, <2>5 DEF Tick, Crash, stores
  <2>6. PICK h \in Collectors, x \in Objects : GCUnlink(h, x)
    <3>1. PICK h \in Collectors : RunOnce(h) \/ GCMetaFails(h)
      BY <2>4, <2>5 DEF Next
    <3>2. ~GCList(h) /\ ~GCMeta(h) /\ ~GCMetaFails(h) /\ ~GCDone(h)
      BY <2>3 DEF GCList, GCMeta, GCMetaFails, GCDone, stores
    <3>3. \A x \in Objects : ~GCSkip(h, x) /\ ~GCDryRun(h, x)
      BY <2>3 DEF GCSkip, GCDryRun, stores
    <3> QED  BY <3>1, <3>2, <3>3 DEF RunOnce
  <2>7. x = o
    BY <2>2, <2>6 DEF GCUnlink, IInv, Types
  <2> QED  BY <2>6, <2>7, UnlinkFacts
<1> QED  BY <1>1, Invariance, PTL DEF Spec, GCSparesSettled

-----------------------------------------------------------------------------
(* What the passes count                                                   *)

Most == Cardinality(Objects)

\* The pass of g has not yet counted the file it removed last.
Uncounted == {g \in Collectors : gc[g].pc = "meta"}

\* A pass counts no more files than it listed.
Fits(g) ==
  gc[g].n + Cardinality(gc[g].todo) + (IF gc[g].pc = "meta" THEN 1 ELSE 0) <= Most

CountInv ==
  /\ \A g \in Collectors : Fits(g)
  /\ ~dryRun => unlinked = deleted + Cardinality(Counted) + Cardinality(Uncounted)

LEMMA Sizes ==
  /\ Most \in Nat
  /\ IsFiniteSet(Counted) /\ IsFiniteSet(Uncounted)
  /\ Cardinality(Counted) \in Nat /\ Cardinality(Uncounted) \in Nat
  /\ \A T \in SUBSET Objects : /\ IsFiniteSet(T) /\ Cardinality(T) \in Nat
                               /\ Cardinality(T) <= Most
<1>1. Most \in Nat /\ IsFiniteSet(Objects)
  BY ObjectsAssumption, FS_CardinalityType DEF Most, Objects
<1>2. IsFiniteSet(1..Most)
  BY <1>1, FS_Interval
<1>3. IsFiniteSet(Collectors \X (1..Most))
  BY <1>2, CollectorsAssumption, FS_Product
<1>4. Counted \subseteq Collectors \X (1..Most) /\ Uncounted \subseteq Collectors
  BY DEF Counted, Uncounted, Most
<1>5. IsFiniteSet(Counted) /\ IsFiniteSet(Uncounted)
  BY <1>3, <1>4, CollectorsAssumption, FS_Subset
<1>6. \A T \in SUBSET Objects : IsFiniteSet(T) /\ Cardinality(T) <= Most
  BY <1>1, FS_Subset DEF Most
<1> QED  BY <1>1, <1>5, <1>6, FS_CardinalityType

\* Which of the files a pass counted are its first, second, ...
LEMMA CountedIs ==
  \A g \in Collectors : \A i : <<g, i>> \in Counted <=> i \in 1..Most /\ i <= gc[g].n
  BY DEF Counted, Most

\* The other passes have the same counts.
OthersSame(g) == \A h \in Collectors : h # g => gc'[h] = gc[h]

LEMMA CountSame ==
  ASSUME NEW g \in Collectors, OthersSame(g), gc'[g].n = gc[g].n
  PROVE  Counted' = Counted
  BY DEF OthersSame, Counted

LEMMA CountOne ==
  ASSUME Types, NEW g \in Collectors, OthersSame(g), Fits(g), gc[g].pc = "meta",
         gc'[g].n = gc[g].n + 1
  PROVE  Cardinality(Counted)' = Cardinality(Counted) + 1
<1>1. PICK m \in Nat : m = gc[g].n
  BY PassFacts
<1>2. m + 1 \in 1..Most
  <2>1. PICK t \in Nat : t = Cardinality(gc[g].todo)
    BY Sizes, PassFacts
  <2> QED  BY <1>1, <2>1, Sizes DEF Fits
<1>3. Counted' = Counted \cup {<<g, m + 1>>}
  <2>1. \A h \in Collectors, i \in 1..Most :
          <<h, i>> \in Counted' <=> <<h, i>> \in Counted \/ (h = g /\ i = m + 1)
    BY <1>1, Sizes DEF Counted, OthersSame, Most
  <2>2. Counted \subseteq Collectors \X (1..Most) /\ Counted' \subseteq Collectors \X (1..Most)
    BY DEF Counted, Most
  <2> QED  BY <1>2, <2>1, <2>2
<1>4. <<g, m + 1>> \notin Counted
  BY <1>1 DEF Counted
<1>5. IsFiniteSet(Counted) /\ Cardinality(Counted)' = Cardinality(Counted')
  BY Sizes
<1> QED  BY <1>3, <1>4, <1>5, FS_AddElement

LEMMA CountReset ==
  ASSUME Types, NEW g \in Collectors, OthersSame(g), Fits(g), gc'[g].n = 0
  PROVE  Cardinality(Counted) = Cardinality(Counted)' + gc[g].n
<1>1. PICK m \in Nat : m = gc[g].n
  BY PassFacts
<1>2. m <= Most
  <2>1. PICK t \in Nat : t = Cardinality(gc[g].todo)
    BY Sizes, PassFacts
  <2> QED  BY <1>1, <2>1, Sizes DEF Fits
<1> DEFINE own == {g} \X (1..m)
<1>3. Counted' = Counted \ own /\ Counted \cap own = own
  <2>1. \A h \in Collectors, i \in 1..Most :
          <<h, i>> \in Counted' <=> <<h, i>> \in Counted /\ ~(h = g /\ i \in 1..m)
    BY <1>1, Sizes DEF Counted, OthersSame, Most
  <2>2. Counted \subseteq Collectors \X (1..Most) /\ Counted' \subseteq Collectors \X (1..Most)
    BY DEF Counted, Most
  <2>3. \A i \in 1..m : <<g, i>> \in Counted
    BY <1>1, <1>2, Sizes DEF Counted, Most
  <2>4. \A h, i : <<h, i>> \in own <=> h = g /\ i \in 1..m
    OBVIOUS
  <2>5. \A u \in own : u = <<g, u[2]>> /\ u[2] \in 1..m
    OBVIOUS
  <2> HIDE DEF own
  <2>6. Counted' = Counted \ own
    BY <2>1, <2>2, <2>4
  <2>7. own \subseteq Counted
    BY <2>3, <2>5
  <2> QED  BY <2>6, <2>7
<1>4. Cardinality(own) = m
  <2>1. IsFiniteSet(1..m) /\ Cardinality(1..m) = m
    BY FS_Interval
  <2>2. IsFiniteSet({g}) /\ Cardinality({g}) = 1
    BY FS_Singleton
  <2> QED  BY <2>1, <2>2, FS_Product
<1> HIDE DEF own
<1>5. Cardinality(Counted \ own) = Cardinality(Counted) - Cardinality(Counted \cap own)
  BY Sizes, FS_Difference
<1>6. Cardinality(Counted)' = Cardinality(Counted) - m
  BY <1>3, <1>4, <1>5
<1> QED  BY <1>1, <1>6, Sizes

\* A step of the pass of g.
LEMMA PassCounts ==
  ASSUME CountInv, NEW g \in Collectors, OthersSame(g), Fits(g)',
         ~dryRun' => unlinked' = deleted' + Cardinality(Counted)' + Cardinality(Uncounted)'
  PROVE  CountInv'
<1>1. \A h \in Collectors : h # g => Fits(h)'
  BY DEF CountInv, OthersSame, Fits, Most
<1> QED  BY <1>1 DEF CountInv

LEMMA UncountedSame ==
  ASSUME NEW g \in Collectors, OthersSame(g), gc[g].pc # "meta", gc'[g].pc # "meta"
  PROVE  Cardinality(Uncounted)' = Cardinality(Uncounted)
<1>1. Uncounted' = Uncounted
  BY DEF OthersSame, Uncounted
<1> QED  BY <1>1

LEMMA UnlinkCounts ==
  ASSUME Types, CountInv, NEW g \in Collectors, NEW o \in Objects, GCUnlink(g, o)
  PROVE  CountInv'
<1>1. PICK T \in SUBSET Objects, m \in Nat :
        gc[g] = [pc |-> "scan", todo |-> T, cur |-> None, n |-> m]
  BY ScanFacts DEF GCUnlink
<1>2. /\ OthersSame(g) /\ o \in T /\ ~dryRun
      /\ gc'[g] = [pc |-> "meta", todo |-> T \ {o}, cur |-> o, n |-> m]
      /\ unlinked' = unlinked + 1 /\ UNCHANGED <<dryRun, deleted>>
  BY <1>1 DEF GCUnlink, OthersSame, Types
<1>3. PICK t \in Nat : t = Cardinality(T) /\ Cardinality(T \ {o}) = t - 1
  BY <1>2, Sizes, FS_RemoveElement
<1>4. m + t + 0 <= Most
  BY <1>1, <1>3 DEF CountInv, Fits
<1>5. Fits(g)'
  <2>1. m + (t - 1) + 1 <= Most
    BY <1>4, Sizes
  <2> QED  BY <1>2, <1>3, <2>1 DEF Fits, Most
<1>6. Counted' = Counted
  BY <1>1, <1>2, CountSame
<1>7. Cardinality(Uncounted)' = Cardinality(Uncounted) + 1
  <2>1. Uncounted' = Uncounted \cup {g} /\ g \notin Uncounted
    BY <1>1, <1>2 DEF Uncounted, OthersSame
  <2> QED  BY <2>1, Sizes, FS_AddElement
<1>8. unlinked = deleted + Cardinality(Counted) + Cardinality(Uncounted)
  BY <1>2 DEF CountInv
<1>9. unlinked' = deleted' + Cardinality(Counted)' + Cardinality(Uncounted)'
  BY <1>2, <1>6, <1>7, <1>8, Sizes DEF Types
<1> QED  BY <1>2, <1>5, <1>9, PassCounts

LEMMA SkipCounts ==
  ASSUME Types, CountInv, NEW g \in Collectors, NEW o \in Objects, GCSkip(g, o) \/ GCDryRun(g, o)
  PROVE  CountInv'
<1>1. PICK T \in SUBSET Objects, m \in Nat :
        gc[g] = [pc |-> "scan", todo |-> T, cur |-> None, n |-> m]
  BY ScanFacts DEF GCSkip, GCDryRun
<1>2. PICK m1 \in {m, m + 1} :
        /\ gc'[g] = [pc |-> "scan", todo |-> T \ {o}, cur |-> None, n |-> m1]
        /\ ~dryRun => m1 = m
  BY <1>1 DEF GCSkip, GCDryRun, Types
<1>3. OthersSame(g) /\ o \in T /\ UNCHANGED <<dryRun, deleted, unlinked>>
  BY <1>1 DEF GCSkip, GCDryRun, OthersSame, Types
<1>4. PICK t \in Nat : t = Cardinality(T) /\ Cardinality(T \ {o}) = t - 1
  BY <1>3, Sizes, FS_RemoveElement
<1>5. m + t + 0 <= Most
  BY <1>1, <1>4 DEF CountInv, Fits
<1>6. Fits(g)'
  <2>1. m1 + (t - 1) + 0 <= Most
    BY <1>5, Sizes
  <2> QED  BY <1>2, <1>4, <2>1 DEF Fits, Most
<1>7. Cardinality(Uncounted)' = Cardinality(Uncounted)
  BY <1>1, <1>2, <1>3, UncountedSame
<1>8. ~dryRun => Counted' = Counted
  BY <1>1, <1>2, <1>3, CountSame
<1>9. ~dryRun' => unlinked' = deleted' + Cardinality(Counted)' + Cardinality(Uncounted)'
  BY <1>3, <1>7, <1>8 DEF CountInv
<1> QED  BY <1>3, <1>6, <1>9, PassCounts

LEMMA MetaCounts ==
  ASSUME Types, CountInv, NEW g \in Collectors, GCMeta(g) \/ GCMetaFails(g)
  PROVE  CountInv'
<1>1. PICK m \in Nat, t \in Nat : m = gc[g].n /\ t = Cardinality(gc[g].todo)
  BY PassFacts, Sizes
<1>2. /\ gc[g].pc = "meta" /\ gc'[g].pc = "scan" /\ gc'[g].n = m + 1
      /\ gc'[g].todo = gc[g].todo
  <2>1. gc[g] \in [pc : {"meta"}, todo : SUBSET Objects, cur : Objects, n : Nat]
    BY PassFacts DEF GCMeta, GCMetaFails, Passes, Resting
  <2> QED  BY <1>1, <2>1 DEF GCMeta, GCMetaFails, Types
<1>3. OthersSame(g) /\ UNCHANGED <<dryRun, deleted, unlinked>>
  BY DEF GCMeta, GCMetaFails, OthersSame, Types
<1>4. Fits(g)
  BY DEF CountInv
<1>5. Fits(g)'
  <2>1. m + t + 1 <= Most
    BY <1>1, <1>2, <1>4 DEF Fits
  <2>2. (m + 1) + t + 0 <= Most
    BY <2>1, Sizes
  <2> QED  BY <1>1, <1>2, <2>2 DEF Fits, Most
<1>6. Cardinality(Counted)' = Cardinality(Counted) + 1
  BY <1>1, <1>2, <1>3, <1>4, CountOne
<1>7. Cardinality(Uncounted)' = Cardinality(Uncounted) - 1
  <2>1. Uncounted' = Uncounted \ {g} /\ g \in Uncounted
    BY <1>2, <1>3 DEF Uncounted, OthersSame
  <2> QED  BY <2>1, Sizes, FS_RemoveElement
<1>8. ~dryRun => unlinked = deleted + Cardinality(Counted) + Cardinality(Uncounted)
  BY DEF CountInv
<1>9. ~dryRun' => unlinked' = deleted' + Cardinality(Counted)' + Cardinality(Uncounted)'
  BY <1>3, <1>6, <1>7, <1>8, Sizes DEF Types
<1> QED  BY <1>3, <1>5, <1>9, PassCounts

LEMMA DoneCounts ==
  ASSUME Types, CountInv, NEW g \in Collectors, GCDone(g)
  PROVE  CountInv'
<1>1. PICK m \in Nat : m = gc[g].n
  BY PassFacts
<1>2. /\ gc[g].pc = "scan" /\ gc'[g] = Resting /\ OthersSame(g)
      /\ ~dryRun => deleted' = deleted + m
      /\ UNCHANGED <<dryRun, unlinked>>
  BY <1>1 DEF GCDone, OthersSame, Types
<1>3. gc'[g].pc = "idle" /\ gc'[g].n = 0 /\ gc'[g].todo = {}
  BY <1>2 DEF Resting
<1>4. Fits(g)
  BY DEF CountInv
<1>5. Fits(g)'
  <2>1. 0 + 0 + 0 <= Most
    BY Sizes
  <2> QED  BY <1>3, <2>1, FS_EmptySet DEF Fits, Most
<1>6. Cardinality(Counted) = Cardinality(Counted)' + m
  BY <1>1, <1>2, <1>3, <1>4, CountReset
<1>7. Cardinality(Uncounted)' = Cardinality(Uncounted)
  BY <1>2, <1>3, UncountedSame
<1>8. ~dryRun => unlinked = deleted + Cardinality(Counted) + Cardinality(Uncounted)
  BY DEF CountInv
<1>9. Cardinality(Counted)' \in Nat
  <2>1. Counted' \subseteq Counted
    BY <1>1, <1>2, <1>3 DEF Counted, OthersSame
  <2>2. IsFiniteSet(Counted')
    BY <2>1, Sizes, FS_Subset
  <2>3. Cardinality(Counted') \in Nat
    BY <2>2, FS_CardinalityType
  <2> QED  BY <2>3
<1>10. ~dryRun' => unlinked' = deleted' + Cardinality(Counted)' + Cardinality(Uncounted)'
  BY <1>2, <1>6, <1>7, <1>8, <1>9, Sizes DEF Types
<1> QED  BY <1>2, <1>5, <1>10, PassCounts

LEMMA ListCounts ==
  ASSUME Types, CountInv, NEW g \in Collectors, GCList(g)
  PROVE  CountInv'
<1>1. gc[g] = Resting /\ OthersSame(g) /\ UNCHANGED <<dryRun, deleted, unlinked>>
  BY PassFacts DEF GCList, OthersSame, Types
<1>2. /\ gc[g].pc # "meta" /\ gc[g].n = 0
      /\ gc'[g].pc # "meta" /\ gc'[g].n = 0 /\ gc'[g].todo \in SUBSET Objects
  BY <1>1 DEF Resting, GCList, Types
<1>3. Fits(g)'
  <2>1. PICK t \in Nat : t = Cardinality(gc'[g].todo) /\ t <= Most
    BY <1>2, Sizes
  <2>2. 0 + t + 0 <= Most
    BY <2>1, Sizes
  <2> QED  BY <1>2, <2>1, <2>2 DEF Fits, Most
<1>4. Counted' = Counted
  BY <1>1, <1>2, CountSame
<1>5. Cardinality(Uncounted)' = Cardinality(Uncounted)
  BY <1>1, <1>2, UncountedSame
<1>6. ~dryRun' => unlinked' = deleted' + Cardinality(Counted)' + Cardinality(Uncounted)'
  BY <1>1, <1>4, <1>5 DEF CountInv
<1> QED  BY <1>1, <1>3, <1>6, PassCounts

\* Without passes there is nothing to count.
NothingToCount == gc = [g \in Collectors |-> Resting] /\ deleted = 0 /\ unlinked = 0

LEMMA RestingCounts == NothingToCount => CountInv
<1> SUFFICES ASSUME NothingToCount  PROVE CountInv
  OBVIOUS
<1> USE DEF NothingToCount
<1>1. \A g \in Collectors : gc[g].pc = "idle" /\ gc[g].n = 0 /\ gc[g].todo = {}
  BY DEF Resting
<1>2. Counted = {} /\ Uncounted = {}
  BY <1>1 DEF Counted, Uncounted
<1>3. Cardinality({}) = 0
  BY FS_EmptySet
<1>4. 0 + 0 + 0 <= Most
  BY Sizes
<1>5. \A g \in Collectors : Fits(g)
  BY <1>1, <1>3, <1>4 DEF Fits
<1>6. unlinked = deleted + Cardinality(Counted) + Cardinality(Uncounted)
  BY <1>2, <1>3
<1> QED  BY <1>5, <1>6 DEF CountInv

LEMMA CrashCounts == NothingToCount' => CountInv'
  BY RestingCounts, PTL

LEMMA CountStep == IInv /\ CountInv /\ [Next]_vars => CountInv'
<1> SUFFICES ASSUME IInv, CountInv, [Next]_vars  PROVE CountInv'
  OBVIOUS
<1>1. Types
  BY DEF IInv
<1>2. ASSUME UNCHANGED <<gc, dryRun, deleted, unlinked>>  PROVE CountInv'
  <2>1. Counted' = Counted /\ Uncounted' = Uncounted
    BY <1>2 DEF Counted, Uncounted
  <2>2. \A g \in Collectors : Fits(g)'
    BY <1>2 DEF CountInv, Fits, Most
  <2> QED  BY <1>2, <2>1, <2>2 DEF CountInv
<1>3. ASSUME NEW c \in Clients, Request(c) \/ Handler(c) \/ PutMetaFails(c)  PROVE CountInv'
  BY <1>2, <1>3 DEF Request, Handler, PutStore, DeleteStore, MoveDedup, MoveCheck,
                    PutMeta, DeleteMeta, MoveRename, PutMetaFails
<1>4. ASSUME NEW g \in Collectors, RunOnce(g) \/ GCMetaFails(g)  PROVE CountInv'
  BY <1>1, <1>4, ListCounts, MetaCounts, DoneCounts, UnlinkCounts, SkipCounts DEF RunOnce
<1>5. CASE Tick \/ UNCHANGED vars
  BY <1>2, <1>5 DEF Tick, vars
<1>6. CASE Crash
  <2>1. gc' = [g \in Collectors |-> Resting] /\ deleted' = 0 /\ unlinked' = 0
    BY <1>6 DEF Crash
  <2> QED  BY <2>1, CrashCounts DEF NothingToCount
<1> QED  BY <1>3, <1>4, <1>5, <1>6 DEF Next

LEMMA Counts == Spec => []CountInv
<1>1. Init => CountInv
  BY RestingCounts DEF Init, NothingToCount
<1> QED  BY <1>1, CountStep, Invariance, PTL DEF Spec

\* What the statistics and the passes report is what the passes removed, for
\* any number of passes at once; and types are as declared.
THEOREM DeletionsAreCounted == Spec => []DeletionsCounted
<1>1. IInv /\ CountInv => TypeOK
  <2> SUFFICES ASSUME IInv, CountInv  PROVE TypeOK
    OBVIOUS
  <2>1. Types
    BY DEF IInv
  <2>2. None \in Objects \cup {None} /\ None \in Contents /\ None \notin Objects
    BY NoneAssumption DEF Objects, Contents
  <2>3. ASSUME NEW c \in Clients
        PROVE  /\ req[c] \in [pc : {"idle", "putmeta", "delmeta", "rename"},
                              obj : Objects \cup {None}, dst : Objects \cup {None},
                              exp : Contents, clean : BOOLEAN]
               /\ req[c].pc = "idle" => req[c] = Idle
    <3>1. req[c] \in Requests
      BY <2>1 DEF Types
    <3>2. CASE req[c] = Idle
      BY <2>2, <3>2 DEF Idle
    <3>3. CASE req[c] # Idle
      <4>1. Plain \subseteq Objects /\ Expiries \subseteq Contents
        BY DEF Objects, Contents
      <4> QED  BY <2>2, <3>1, <3>3, <4>1 DEF Requests
    <3> QED  BY <3>2, <3>3
  <2>4. ASSUME NEW g \in Collectors
        PROVE  /\ gc[g] \in [pc : {"idle", "scan", "meta"}, todo : SUBSET Objects,
                             cur : Objects \cup {None}, n : 0..Cardinality(Objects)]
               /\ gc[g].pc = "idle" => gc[g] = Resting
               /\ gc[g].pc = "meta" <=> gc[g].cur # None
    <3>1. gc[g] \in Passes /\ gc[g].n \in Nat /\ Fits(g)
      BY <2>1, PassFacts DEF CountInv
    <3>2. gc[g].n \in 0..Most
      <4>1. PICK t \in Nat : t = Cardinality(gc[g].todo)
        BY <2>1, PassFacts, Sizes
      <4> QED  BY <3>1, <4>1, Sizes DEF Fits
    <3>3. gc[g].n \in 0..Cardinality(Objects)
      BY <3>2 DEF Most
    <3>4. CASE gc[g] = Resting
      BY <2>2, <3>3, <3>4 DEF Resting
    <3>5. CASE gc[g] # Resting
      BY <2>2, <3>1, <3>3, <3>5 DEF Passes
    <3> QED  BY <3>4, <3>5
  <2>5. /\ req \in [Clients -> [pc : {"idle", "putmeta", "delmeta", "rename"},
                               obj : Objects \cup {None}, dst : Objects \cup {None},
                               exp : Contents, clean : BOOLEAN]]
        /\ gc \in [Collectors -> [pc : {"idle", "scan", "meta"}, todo : SUBSET Objects,
                                 cur : Objects \cup {None}, n : 0..Cardinality(Objects)]]
    BY <2>1, <2>3, <2>4 DEF Types
  <2> QED  BY <2>1, <2>3, <2>4, <2>5 DEF Types, TypeOK
<1>2. IInv /\ CountInv => DeletionsCounted
  BY <1>1 DEF CountInv, DeletionsCounted, Uncounted
<1> QED  BY <1>2, Invariance, Counts, PTL
=============================================================================
