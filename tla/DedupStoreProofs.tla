------------------------- MODULE DedupStoreProofs -------------------------
(***************************************************************************)
(* Proofs about DedupStore, for every finite set of keys and hashes and    *)
(* every bound on the number of faults.                                    *)
(***************************************************************************)
EXTENDS DedupStore, FiniteSetTheorems, TLAPS

Views == [refs : Refs, blobs : Blobs, victim : Slots, unread : Slots]

\* The number of references to a hash.
NumRefs(r, h) == Cardinality(Holders(r, h))

\* The number of references to a hash that were replaced unread.
NumUnread(u, h) == Cardinality({x \in u : x[2] = h})

-----------------------------------------------------------------------------
(* Counting references                                                     *)

\* The references to a hash are finitely many, and none means zero.
LEMMA NumRefsType ==
  ASSUME NEW r, NEW h
  PROVE  /\ IsFiniteSet(Holders(r, h))
         /\ NumRefs(r, h) \in Nat
         /\ NumRefs(r, h) = 0 <=> Holders(r, h) = {}
<1>1. Holders(r, h) \subseteq Keys
  BY DEF Holders
<1>2. IsFiniteSet(Holders(r, h))
  BY <1>1, KeysAssumption, FS_Subset
<1>3. QED
  BY <1>2, FS_CardinalityType, FS_EmptySet DEF NumRefs

\* Pointing key k at x adds one reference to x and takes one from the hash
\* that k pointed at before.
LEMMA NumRefsUpdate ==
  ASSUME NEW r \in Refs, NEW k \in Keys, NEW x \in Slots, NEW h \in Hashes
  PROVE  NumRefs([r EXCEPT ![k] = x], h) =
           IF h = x /\ r[k] # h THEN NumRefs(r, h) + 1
           ELSE IF h # x /\ r[k] = h THEN NumRefs(r, h) - 1
           ELSE NumRefs(r, h)
<1> DEFINE H == Holders(r, h)
           G == Holders([r EXCEPT ![k] = x], h)
<1>1. IsFiniteSet(H)
  BY NumRefsType
<1>2. CASE h = x /\ r[k] # h
  <2>1. G = H \cup {k} /\ k \notin H
    BY <1>2 DEF Holders, Refs
  <2>2. Cardinality(G) = Cardinality(H) + 1
    BY <1>1, <2>1, FS_AddElement
  <2>3. QED
    BY <1>2, <2>2 DEF NumRefs
<1>3. CASE h # x /\ r[k] = h
  <2>1. G = H \ {k} /\ k \in H
    BY <1>3 DEF Holders, Refs
  <2>2. Cardinality(G) = Cardinality(H) - 1
    BY <1>1, <2>1, FS_RemoveElement
  <2>3. QED
    BY <1>3, <2>2 DEF NumRefs
<1>4. CASE (h = x) <=> (r[k] = h)
  <2>1. G = H
    BY <1>4 DEF Holders, Refs
  <2>2. QED
    BY <1>4, <2>1 DEF NumRefs
<1>5. QED
  BY <1>2, <1>3, <1>4

\* A count is the sum of two numbers.
LEMMA CountType ==
  ASSUME NEW r, NEW u, IsFiniteSet(u), NEW h
  PROVE  /\ NumRefs(r, h) \in Nat /\ NumUnread(u, h) \in Nat
         /\ Count(r, u, h) = NumRefs(r, h) + NumUnread(u, h)
         /\ Count(r, u, h) \in Nat /\ NumRefs(r, h) <= Count(r, u, h)
<1>1. NumRefs(r, h) \in Nat
  BY NumRefsType
<1>2. {x \in u : x[2] = h} \subseteq u
  OBVIOUS
<1>3. NumUnread(u, h) \in Nat
  BY <1>2, FS_Subset, FS_CardinalityType DEF NumUnread
<1>4. Count(r, u, h) = NumRefs(r, h) + NumUnread(u, h)
  BY DEF Count, NumRefs, NumUnread
<1>5. QED
  BY <1>1, <1>3, <1>4

\* Pointing a key elsewhere changes it as it changes the number of references.
LEMMA CountUpdate ==
  ASSUME NEW r \in Refs, NEW u, IsFiniteSet(u), NEW k \in Keys, NEW x \in Slots,
         NEW h \in Hashes
  PROVE  Count([r EXCEPT ![k] = x], u, h) =
           IF h = x /\ r[k] # h THEN Count(r, u, h) + 1
           ELSE IF h # x /\ r[k] = h THEN Count(r, u, h) - 1
           ELSE Count(r, u, h)
<1> DEFINE q == [r EXCEPT ![k] = x]
<1>1. /\ NumRefs(r, h) \in Nat /\ NumUnread(u, h) \in Nat
      /\ Count(r, u, h) = NumRefs(r, h) + NumUnread(u, h)
      /\ Count(q, u, h) = NumRefs(q, h) + NumUnread(u, h)
  <2> HIDE DEF q
  <2> QED BY CountType
<1>2. NumRefs(q, h) = IF h = x /\ r[k] # h THEN NumRefs(r, h) + 1
                      ELSE IF h # x /\ r[k] = h THEN NumRefs(r, h) - 1
                      ELSE NumRefs(r, h)
  BY NumRefsUpdate
<1>3. QED
  <2> HIDE DEF q
  <2>1. Count(q, u, h) = IF h = x /\ r[k] # h THEN Count(r, u, h) + 1
                         ELSE IF h # x /\ r[k] = h THEN Count(r, u, h) - 1
                         ELSE Count(r, u, h)
    BY <1>1, <1>2
  <2>2. QED
    BY <2>1 DEF q

\* One more reference replaced unread counts for its own hash.
LEMMA CountUnread ==
  ASSUME NEW r, NEW u, IsFiniteSet(u), NEW n, NEW o \in Hashes, <<n, o>> \notin u,
         NEW h \in Hashes
  PROVE  Count(r, u \cup {<<n, o>>}, h) =
           IF h = o THEN Count(r, u, h) + 1 ELSE Count(r, u, h)
<1> DEFINE E == {x \in u : x[2] = h}
           D == {x \in u \cup {<<n, o>>} : x[2] = h}
<1>1. IsFiniteSet(E) /\ Cardinality(E) \in Nat /\ Cardinality(Holders(r, h)) \in Nat
  <2>1. E \subseteq u
    OBVIOUS
  <2>2. QED
    BY <2>1, FS_Subset, FS_CardinalityType, NumRefsType
<1>2. CASE h = o
  <2>1. D = E \cup {<<n, o>>} /\ <<n, o>> \notin E
    BY <1>2
  <2> HIDE DEF E, D
  <2>2. Cardinality(D) = Cardinality(E) + 1
    BY <1>1, <2>1, FS_AddElement
  <2>3. QED
    BY <1>1, <1>2, <2>2 DEF Count, D, E
<1>3. CASE h # o
  <2>1. D = E
    BY <1>3
  <2>2. QED
    BY <1>3, <2>1 DEF Count
<1>4. QED
  BY <1>2, <1>3

\* A referenced hash is recorded, with a count of at least its references.
LEMMA Recorded ==
  ASSUME NEW r \in Refs, NEW b, NEW u, IsFiniteSet(u), Exact(r, b, u),
         NEW k \in Keys, r[k] # NoRef
  PROVE  /\ r[k] \in Hashes
         /\ b[r[k]] = Count(r, u, r[k]) /\ b[r[k]] # NoBlob
         /\ NumRefs(r, r[k]) \in Nat /\ NumRefs(r, r[k]) >= 1
         /\ Count(r, u, r[k]) \in Nat /\ NumRefs(r, r[k]) <= Count(r, u, r[k])
<1>1. PICK h \in Hashes : h = r[k]
  BY DEF Refs
<1>2. k \in Holders(r, h)
  BY <1>1 DEF Holders
<1>3. /\ NumRefs(r, h) \in Nat /\ NumRefs(r, h) # 0
      /\ Count(r, u, h) \in Nat /\ NumRefs(r, h) <= Count(r, u, h)
  BY <1>2, NumRefsType, CountType
<1>4. b[h] = IF Count(r, u, h) = 0 THEN NoBlob ELSE Count(r, u, h)
  BY DEF Exact
<1>5. QED
  BY <1>1, <1>3, <1>4, NoBlobAssumption

-----------------------------------------------------------------------------
(* What the transactions' functions compute                                *)

\* decrementRefCount leaves the references alone, drops a record that would
\* reach zero and names its file as the one unlinked.
LEMMA DecrementResult ==
  ASSUME NEW v \in Views, NEW h \in Hashes, v.blobs[h] # NoBlob,
         NEW w, w = decrementRefCount(v, h)
  PROVE  /\ w.refs = v.refs
         /\ w.blobs = [v.blobs EXCEPT ![h] = IF v.blobs[h] <= 1 THEN NoBlob
                                             ELSE v.blobs[h] - 1]
         /\ w.victim = IF v.blobs[h] <= 1 THEN h ELSE v.victim
         /\ w.unread = v.unread
         /\ w \in Views
<1>1. v.blobs[h] \in Nat
  BY DEF Views, Blobs
<1>2. v.blobs[h] - 1 <= 0 <=> v.blobs[h] <= 1
  BY <1>1
<1>3. CASE v.blobs[h] <= 1
  <2>1. w = [v EXCEPT !.blobs[h] = NoBlob, !.victim = h]
    BY <1>2, <1>3 DEF decrementRefCount
  <2>2. QED
    BY <1>3, <2>1 DEF Views, Blobs, Slots
<1>4. CASE ~(v.blobs[h] <= 1)
  <2>1. w = [v EXCEPT !.blobs[h] = @ - 1]
    BY <1>2, <1>4 DEF decrementRefCount
  <2>2. v.blobs[h] - 1 \in Nat
    BY <1>1, <1>4
  <2>3. QED
    BY <1>4, <2>1, <2>2 DEF Views, Blobs, Slots
<1>5. QED
  BY <1>3, <1>4

\* What every transaction's function guarantees: it replaces the references
\* by r, makes the counts exact for the unread references u, the last of which
\* is x, touches no count but those of the hashes it names, and unlinks at most
\* the file of a hash whose only reference was that of key d.
Good(v, w, r, d, fresh, u, x) ==
  /\ w \in Views
  /\ w.refs = r
  /\ w.unread = x
  /\ Exact(w.refs, w.blobs, u)
  /\ w.victim # NoRef => /\ w.blobs[w.victim] = NoBlob
                         /\ v.refs[d] = w.victim
                         /\ NumRefs(v.refs, w.victim) = 1
  /\ \A h \in Hashes : w.blobs[h] # NoBlob => h = fresh \/ v.blobs[h] # NoBlob

\* Store's transaction.
LEMMA StoreTxnGood ==
  ASSUME NEW v \in Views, v.victim = NoRef, NEW u, IsFiniteSet(u), Exact(v.refs, v.blobs, u),
         NEW k \in Keys, NEW h \in Hashes, NEW info \in Nat,
         info = IF v.blobs[h] = NoBlob THEN 1 ELSE v.blobs[h] + 1
  PROVE  Good(v, StoreTxn(v, k, h, info, v.refs[k]), [v.refs EXCEPT ![k] = h], k, h,
              u, v.unread)
<1> DEFINE old == v.refs[k]
           w == IF old \notin {NoRef, h} THEN decrementRefCount(v, old) ELSE v
           t == StoreTxn(v, k, h, info, v.refs[k])
           new == IF old = h THEN info - 1 ELSE info
           r == [v.refs EXCEPT ![k] = h]
<1>1. /\ v.refs \in Refs /\ v.blobs \in Blobs
      /\ old \in Slots /\ r \in Refs /\ h \in Slots
  BY DEF Views, Refs, Slots
<1>2. \A g \in Hashes : /\ Count(v.refs, u, g) \in Nat
                        /\ v.blobs[g] = IF Count(v.refs, u, g) = 0 THEN NoBlob
                                        ELSE Count(v.refs, u, g)
  BY CountType DEF Exact
<1>3. old # NoRef => /\ old \in Hashes
                     /\ NumRefs(v.refs, old) \in Nat /\ NumRefs(v.refs, old) >= 1
                     /\ NumRefs(v.refs, old) <= Count(v.refs, u, old)
  BY <1>1, Recorded
<1>4. new \in Nat \ {0}
  <2>1. CASE old = h
    <3>1. v.blobs[h] = Count(v.refs, u, h) /\ v.blobs[h] \in Nat \ {0}
      BY <1>2, <1>3, <2>1, NoRefAssumption
    <3>2. v.blobs[h] # NoBlob /\ info = v.blobs[h] + 1
      BY <3>1, NoBlobAssumption
    <3>3. QED
      BY <2>1, <3>1, <3>2
  <2>2. CASE old # h
    BY <1>2, <2>2, NoBlobAssumption
  <2>3. QED
    BY <2>1, <2>2
<1>5. t = [w EXCEPT !.blobs[h] = new, !.refs[k] = h]
  BY DEF StoreTxn
<1>6. \A g \in Hashes : Count(r, u, g) =
           IF g = h /\ old # g THEN Count(v.refs, u, g) + 1
           ELSE IF g # h /\ old = g THEN Count(v.refs, u, g) - 1
           ELSE Count(v.refs, u, g)
  BY <1>1, CountUpdate
<1>7. CASE old \in {NoRef, h}
  <2>1. w = v
    BY <1>7
  <2>2. /\ t \in Views /\ t.refs = r /\ t.victim = NoRef
        /\ t.blobs = [v.blobs EXCEPT ![h] = new] /\ t.unread = v.unread
    <3>1. t = [v EXCEPT !.blobs[h] = new, !.refs[k] = h]
      BY <1>5, <2>1
    <3> HIDE DEF t, new
    <3> QED BY <1>1, <1>4, <3>1 DEF Views, Blobs
  <2>3. \A g \in Hashes : t.blobs[g] = IF Count(r, u, g) = 0 THEN NoBlob
                                        ELSE Count(r, u, g)
    BY <1>1, <1>2, <1>3, <1>6, <1>7, <2>2, NoBlobAssumption, NoRefAssumption
       DEF Blobs
  <2>4. Exact(t.refs, t.blobs, u)
    BY <2>2, <2>3 DEF Exact
  <2>5. QED
    BY <1>1, <2>2, <2>4 DEF Good, Blobs
<1>8. CASE old \notin {NoRef, h}
  <2> DEFINE dec == IF v.blobs[old] <= 1 THEN NoBlob ELSE v.blobs[old] - 1
  <2>1. w = decrementRefCount(v, old) /\ old \in Hashes /\ v.blobs[old] # NoBlob
    BY <1>2, <1>3, <1>8, NoBlobAssumption
  <2>2. /\ w.refs = v.refs /\ w \in Views
        /\ w.blobs = [v.blobs EXCEPT ![old] = dec]
        /\ w.victim = IF v.blobs[old] <= 1 THEN old ELSE v.victim
        /\ w.unread = v.unread
    <3> HIDE DEF w, old
    <3> QED BY <2>1, DecrementResult
  <2>3. /\ t \in Views /\ t.refs = r /\ t.victim = w.victim
        /\ t.blobs = [w.blobs EXCEPT ![h] = new] /\ t.unread = w.unread
    <3> HIDE DEF t, new, w
    <3> QED BY <1>1, <1>4, <1>5, <2>2 DEF Views, Blobs
  <2>4. \A g \in Hashes : t.blobs[g] = IF Count(r, u, g) = 0 THEN NoBlob
                                        ELSE Count(r, u, g)
    <3>1. new = Count(v.refs, u, h) + 1 /\ old # h
      BY <1>2, <1>8, NoBlobAssumption
    <3>2. dec = IF Count(v.refs, u, old) = 1 THEN NoBlob
                ELSE Count(v.refs, u, old) - 1
      BY <1>2, <1>3, <2>1
    <3>3. \A g \in Hashes : t.blobs[g] = IF g = h THEN new
                                         ELSE IF g = old THEN dec
                                         ELSE v.blobs[g]
      <4> HIDE DEF t, w, new, dec, old
      <4> QED BY <1>1, <2>2, <2>3 DEF Blobs
    <3> HIDE DEF t, w, new, dec, old, r
    <3> QED BY <1>2, <1>3, <1>6, <1>8, <2>1, <3>1, <3>2, <3>3
  <2>5. Exact(t.refs, t.blobs, u)
    BY <2>3, <2>4 DEF Exact
  <2>6. t.victim # NoRef => /\ t.victim = old
                            /\ NumRefs(v.refs, old) = 1
                            /\ t.blobs[old] = NoBlob
    BY <1>1, <1>2, <1>3, <1>8, <2>1, <2>2, <2>3, NoBlobAssumption DEF Blobs
  <2>7. \A g \in Hashes : t.blobs[g] # NoBlob => g = h \/ v.blobs[g] # NoBlob
    BY <1>1, <2>1, <2>2, <2>3 DEF Blobs
  <2>8. QED
    BY <2>2, <2>3, <2>5, <2>6, <2>7 DEF Good
<1>9. QED
  BY <1>7, <1>8

\* Delete's transaction, for a key with and without an object.
LEMMA DeleteTxnGood ==
  ASSUME NEW v \in Views, v.victim = NoRef, NEW u, IsFiniteSet(u), Exact(v.refs, v.blobs, u),
         NEW k \in Keys
  PROVE  Good(v, DeleteTxn(v, k), [v.refs EXCEPT ![k] = NoRef], k, NoRef, u, v.unread)
<1> DEFINE old == v.refs[k]
           t == DeleteTxn(v, k)
           r == [v.refs EXCEPT ![k] = NoRef]
<1>1. /\ v.refs \in Refs /\ v.blobs \in Blobs
      /\ old \in Slots /\ r \in Refs /\ NoRef \in Slots
  BY DEF Views, Refs, Slots
<1>2. \A g \in Hashes : /\ Count(v.refs, u, g) \in Nat
                        /\ v.blobs[g] = IF Count(v.refs, u, g) = 0 THEN NoBlob
                                        ELSE Count(v.refs, u, g)
  BY CountType DEF Exact
<1>3. CASE old = NoRef
  <2>1. t = v /\ r = v.refs
    BY <1>1, <1>3 DEF DeleteTxn, Refs
  <2>2. QED
    BY <2>1 DEF Good
<1>4. CASE old # NoRef
  <2> DEFINE z == [v EXCEPT !.refs[k] = NoRef]
             dec == IF v.blobs[old] <= 1 THEN NoBlob ELSE v.blobs[old] - 1
  <2>1. old \in Hashes /\ k \in Holders(v.refs, old)
    BY <1>1, <1>4 DEF Slots, Holders
  <2>2. /\ v.blobs[old] # NoBlob /\ v.blobs[old] = Count(v.refs, u, old)
        /\ NumRefs(v.refs, old) \in Nat /\ NumRefs(v.refs, old) >= 1
        /\ NumRefs(v.refs, old) <= Count(v.refs, u, old)
    BY <1>1, <1>4, Recorded
  <2>3. /\ z \in Views /\ z.refs = r /\ z.blobs = v.blobs /\ z.victim = NoRef
        /\ z.unread = v.unread
    BY <1>1 DEF Views
  <2>4. t = decrementRefCount(z, old)
    BY <1>4 DEF DeleteTxn
  <2>5. /\ t.refs = r /\ t \in Views /\ t.unread = v.unread
        /\ t.blobs = [v.blobs EXCEPT ![old] = dec]
        /\ t.victim = IF v.blobs[old] <= 1 THEN old ELSE NoRef
    <3> HIDE DEF z, t, old, r
    <3> QED BY <2>1, <2>2, <2>3, <2>4, DecrementResult
  <2>6. \A g \in Hashes : Count(r, u, g) =
            IF old = g THEN Count(v.refs, u, g) - 1 ELSE Count(v.refs, u, g)
    BY <1>1, CountUpdate, NoRefAssumption
  <2>7. \A g \in Hashes : t.blobs[g] = IF Count(r, u, g) = 0 THEN NoBlob
                                        ELSE Count(r, u, g)
    BY <1>1, <1>2, <2>1, <2>2, <2>5, <2>6, NoBlobAssumption DEF Blobs
  <2>8. Exact(t.refs, t.blobs, u)
    BY <2>5, <2>7 DEF Exact
  <2>9. t.victim # NoRef => /\ t.victim = old
                            /\ NumRefs(v.refs, old) = 1
                            /\ t.blobs[old] = NoBlob
    BY <1>1, <1>2, <2>1, <2>2, <2>5, NoBlobAssumption DEF Blobs
  <2>10. \A g \in Hashes : t.blobs[g] # NoBlob => v.blobs[g] # NoBlob
    BY <1>1, <2>1, <2>2, <2>5 DEF Blobs
  <2>11. QED
    BY <2>5, <2>8, <2>9, <2>10 DEF Good
<1>5. QED
  BY <1>3, <1>4

\* Move's transaction, the move of a key onto itself included.
LEMMA MoveTxnGood ==
  ASSUME NEW v \in Views, v.victim = NoRef, NEW u, IsFiniteSet(u), Exact(v.refs, v.blobs, u),
         NEW s \in Keys, NEW d \in Keys, v.refs[s] # NoRef
  PROVE  Good(v, MoveTxn(v, s, d, v.refs[d]),
              [v.refs EXCEPT ![d] = v.refs[s], ![s] = NoRef], d, NoRef, u, v.unread)
<1> DEFINE src == v.refs[s]
           old == v.refs[d]
           t == MoveTxn(v, s, d, v.refs[d])
           w == IF old = NoRef THEN v ELSE decrementRefCount(v, old)
           q == [v.refs EXCEPT ![d] = src]
           r == [q EXCEPT ![s] = NoRef]
<1>1. /\ v.refs \in Refs /\ v.blobs \in Blobs /\ src \in Hashes
      /\ old \in Slots /\ q \in Refs /\ r \in Refs
      /\ NoRef \in Slots /\ src \in Slots
  BY DEF Views, Refs, Slots
<1>2. \A g \in Hashes : /\ Count(v.refs, u, g) \in Nat
                        /\ v.blobs[g] = IF Count(v.refs, u, g) = 0 THEN NoBlob
                                        ELSE Count(v.refs, u, g)
  BY CountType DEF Exact
<1>3. q[s] = src
  BY <1>1 DEF Refs
<1>4. \A g \in Hashes : Count(q, u, g) =
           IF g = src /\ old # g THEN Count(v.refs, u, g) + 1
           ELSE IF g # src /\ old = g THEN Count(v.refs, u, g) - 1
           ELSE Count(v.refs, u, g)
  BY <1>1, CountUpdate
<1>5. \A g \in Hashes : Count(r, u, g) =
           IF src = g THEN Count(q, u, g) - 1 ELSE Count(q, u, g)
  <2> HIDE DEF q
  <2> QED BY <1>1, <1>3, CountUpdate, NoRefAssumption
<1>6. \A g \in Hashes : Count(r, u, g) =
           IF old = g THEN Count(v.refs, u, g) - 1 ELSE Count(v.refs, u, g)
  <2> HIDE DEF q, r
  <2> QED BY <1>2, <1>4, <1>5
<1>7. [v.refs EXCEPT ![d] = v.refs[s], ![s] = NoRef] = r
  BY <1>1 DEF Refs
<1>8. t = [w EXCEPT !.refs[d] = src, !.refs[s] = NoRef]
  BY DEF MoveTxn
<1>9. CASE old = NoRef
  <2>1. w = v
    BY <1>9
  <2>2. /\ t \in Views /\ t.refs = r /\ t.blobs = v.blobs /\ t.victim = NoRef
        /\ t.unread = v.unread
    BY <1>1, <1>8, <2>1 DEF Views
  <2>3. \A g \in Hashes : t.blobs[g] = IF Count(r, u, g) = 0 THEN NoBlob
                                        ELSE Count(r, u, g)
    BY <1>2, <1>6, <1>9, <2>2, NoRefAssumption
  <2>4. Exact(t.refs, t.blobs, u)
    BY <2>2, <2>3 DEF Exact
  <2>5. QED
    BY <1>7, <2>2, <2>4 DEF Good
<1>10. CASE old # NoRef
  <2> DEFINE dec == IF v.blobs[old] <= 1 THEN NoBlob ELSE v.blobs[old] - 1
  <2>1. old \in Hashes /\ d \in Holders(v.refs, old)
    BY <1>1, <1>10 DEF Slots, Holders
  <2>2. /\ v.blobs[old] # NoBlob /\ v.blobs[old] = Count(v.refs, u, old)
        /\ NumRefs(v.refs, old) \in Nat /\ NumRefs(v.refs, old) >= 1
        /\ NumRefs(v.refs, old) <= Count(v.refs, u, old)
    BY <1>1, <1>10, Recorded
  <2>3. /\ w.refs = v.refs /\ w \in Views /\ w.unread = v.unread
        /\ w.blobs = [v.blobs EXCEPT ![old] = dec]
        /\ w.victim = IF v.blobs[old] <= 1 THEN old ELSE NoRef
    BY <1>10, <2>1, <2>2, DecrementResult
  <2>4. /\ t \in Views /\ t.refs = r /\ t.blobs = w.blobs /\ t.victim = w.victim
        /\ t.unread = w.unread
    <3> HIDE DEF w
    <3> QED BY <1>1, <1>8, <2>3 DEF Views
  <2>5. \A g \in Hashes : t.blobs[g] = IF Count(r, u, g) = 0 THEN NoBlob
                                        ELSE Count(r, u, g)
    BY <1>1, <1>2, <1>6, <2>1, <2>2, <2>3, <2>4, NoBlobAssumption DEF Blobs
  <2>6. Exact(t.refs, t.blobs, u)
    BY <2>4, <2>5 DEF Exact
  <2>7. t.victim # NoRef => /\ t.victim = old
                            /\ NumRefs(v.refs, old) = 1
                            /\ t.blobs[old] = NoBlob
    BY <1>1, <1>2, <2>1, <2>2, <2>3, <2>4, NoBlobAssumption DEF Blobs
  <2>8. \A g \in Hashes : t.blobs[g] # NoBlob => v.blobs[g] # NoBlob
    BY <1>1, <2>1, <2>2, <2>3, <2>4 DEF Blobs
  <2>9. QED
    BY <1>7, <2>3, <2>4, <2>6, <2>7, <2>8 DEF Good
<1>11. QED
  BY <1>9, <1>10

\* Store's transaction when it could not read the reference it replaces.
LEMMA StoreTxnMisread ==
  ASSUME NEW v \in Views, v.victim = NoRef, NEW u, IsFiniteSet(u), Exact(v.refs, v.blobs, u),
         NEW k \in Keys, NEW h \in Hashes, NEW info \in Nat,
         info = IF v.blobs[h] = NoBlob THEN 1 ELSE v.blobs[h] + 1,
         v.refs[k] # NoRef, NEW n, <<n, v.refs[k]>> \notin u
  PROVE  Good(v, [StoreTxn(v, k, h, info, NoRef) EXCEPT !.unread = v.refs[k]],
              [v.refs EXCEPT ![k] = h], k, h, u \cup {<<n, v.refs[k]>>}, v.refs[k])
<1> DEFINE t == [StoreTxn(v, k, h, info, NoRef) EXCEPT !.unread = v.refs[k]]
           r == [v.refs EXCEPT ![k] = h]
<1>1. PICK old \in Hashes : old = v.refs[k]
  BY Recorded DEF Views
<1>2. PICK U : U = u \cup {<<n, old>>}
  OBVIOUS
<1>3. r \in Refs /\ h \in Slots
  BY DEF Views, Refs, Slots
<1>4. \A g \in Hashes : Count(r, U, g) = IF g = old THEN Count(r, u, g) + 1
                                         ELSE Count(r, u, g)
  <2> HIDE DEF r
  <2> QED BY <1>1, <1>2, CountUnread
<1>5. \A g \in Hashes : /\ Count(v.refs, u, g) \in Nat
                        /\ v.blobs[g] = IF Count(v.refs, u, g) = 0 THEN NoBlob
                                        ELSE Count(v.refs, u, g)
  BY CountType DEF Exact
<1>6. Count(v.refs, u, old) >= 1
  <2>1. v.blobs[old] # NoBlob
    BY <1>1, Recorded DEF Views
  <2>2. QED
    BY <1>5, <2>1
<1>7. \A g \in Hashes : Count(r, u, g) =
           IF g = h /\ old # g THEN Count(v.refs, u, g) + 1
           ELSE IF g # h /\ old = g THEN Count(v.refs, u, g) - 1
           ELSE Count(v.refs, u, g)
  BY <1>1, <1>3, CountUpdate DEF Views
<1>8. info = Count(v.refs, u, h) + 1 /\ info \in Nat \ {0}
  BY <1>5, NoBlobAssumption
<1>9. /\ t \in Views /\ t.refs = r /\ t.victim = NoRef /\ t.unread = old
      /\ t.blobs = [v.blobs EXCEPT ![h] = info]
  <2>1. t = [v EXCEPT !.blobs[h] = info, !.refs[k] = h, !.unread = old]
    BY <1>1, NoRefAssumption DEF StoreTxn
  <2> HIDE DEF t
  <2>2. QED
    BY <1>1, <1>8, <2>1 DEF Views, Refs, Blobs, Slots
<1>10. \A g \in Hashes : t.blobs[g] = IF Count(r, U, g) = 0 THEN NoBlob
                                       ELSE Count(r, U, g)
  <2>1. \A g \in Hashes : t.blobs[g] = IF g = h THEN info ELSE v.blobs[g]
    BY <1>9 DEF Views, Blobs
  <2> HIDE DEF t, r
  <2>2. QED
    BY <1>4, <1>5, <1>6, <1>7, <1>8, <2>1
<1>11. Exact(t.refs, t.blobs, u \cup {<<n, old>>})
  <2> HIDE DEF t, r
  <2> QED BY <1>2, <1>9, <1>10 DEF Exact
<1>12. QED
  <2> HIDE DEF t, r
  <2>1. \A g \in Hashes : t.blobs[g] = IF g = h THEN info ELSE v.blobs[g]
    BY <1>9 DEF Views, Blobs
  <2>2. Good(v, t, r, k, h, u \cup {<<n, v.refs[k]>>}, v.refs[k])
    BY <1>1, <1>9, <1>11, <2>1 DEF Good
  <2>3. QED
    BY <2>2 DEF t, r

\* Move's transaction when it could not read the reference at the destination.
LEMMA MoveTxnMisread ==
  ASSUME NEW v \in Views, v.victim = NoRef, NEW u, IsFiniteSet(u), Exact(v.refs, v.blobs, u),
         NEW s \in Keys, NEW d \in Keys, v.refs[s] # NoRef, v.refs[d] # NoRef,
         NEW n, <<n, v.refs[d]>> \notin u
  PROVE  Good(v, [MoveTxn(v, s, d, NoRef) EXCEPT !.unread = v.refs[d]],
              [v.refs EXCEPT ![d] = v.refs[s], ![s] = NoRef], d, NoRef,
              u \cup {<<n, v.refs[d]>>}, v.refs[d])
<1> DEFINE t == [MoveTxn(v, s, d, NoRef) EXCEPT !.unread = v.refs[d]]
<1>1. PICK old \in Hashes : old = v.refs[d]
  BY Recorded DEF Views
<1>2. PICK src \in Hashes : src = v.refs[s]
  BY Recorded DEF Views
<1>3. PICK U : U = u \cup {<<n, old>>}
  OBVIOUS
<1>4. \A g \in Hashes : /\ Count(v.refs, u, g) \in Nat
                        /\ v.blobs[g] = IF Count(v.refs, u, g) = 0 THEN NoBlob
                                        ELSE Count(v.refs, u, g)
  BY CountType DEF Exact
<1>5. PICK q : q = [v.refs EXCEPT ![d] = src]
  OBVIOUS
<1>6. PICK r : r = [q EXCEPT ![s] = NoRef]
  OBVIOUS
<1>7. /\ v.refs \in Refs /\ v.blobs \in Blobs /\ q \in Refs /\ r \in Refs
      /\ src \in Slots /\ NoRef \in Slots /\ old \in Slots /\ q[s] = src
  BY <1>1, <1>2, <1>5, <1>6 DEF Views, Refs, Slots
<1>8. \A g \in Hashes : Count(q, u, g) =
            IF g = src /\ old # g THEN Count(v.refs, u, g) + 1
            ELSE IF g # src /\ old = g THEN Count(v.refs, u, g) - 1
            ELSE Count(v.refs, u, g)
  BY <1>1, <1>5, <1>7, CountUpdate
<1>9. \A g \in Hashes : Count(r, u, g) =
            IF src = g THEN Count(q, u, g) - 1 ELSE Count(q, u, g)
  <2>1. \A g \in Hashes : Count([q EXCEPT ![s] = NoRef], u, g) =
             IF g = NoRef /\ q[s] # g THEN Count(q, u, g) + 1
             ELSE IF g # NoRef /\ q[s] = g THEN Count(q, u, g) - 1
             ELSE Count(q, u, g)
    BY <1>7, CountUpdate
  <2>2. QED
    BY <1>6, <1>7, <2>1, NoRefAssumption
<1>10. \A g \in Hashes : Count(r, U, g) = IF g = old THEN Count(r, u, g) + 1
                                         ELSE Count(r, u, g)
  BY <1>1, <1>3, CountUnread
<1>11. /\ t \in Views /\ t.refs = r /\ t.victim = NoRef /\ t.unread = old
       /\ t.blobs = v.blobs
  <2>1. t = [v EXCEPT !.refs[d] = v.refs[s], !.refs[s] = NoRef, !.unread = old]
    BY <1>1 DEF MoveTxn
  <2> HIDE DEF t
  <2>2. QED
    BY <1>2, <1>5, <1>6, <1>7, <2>1 DEF Views
<1>12. \A g \in Hashes : t.blobs[g] = IF Count(r, U, g) = 0 THEN NoBlob
                                       ELSE Count(r, U, g)
  <2> HIDE DEF t
  <2>1. QED
    BY <1>10, <1>4, <1>8, <1>9, <1>11
<1>13. Exact(t.refs, t.blobs, u \cup {<<n, old>>})
  <2> HIDE DEF t
  <2> QED BY <1>3, <1>11, <1>12 DEF Exact
<1>14. [v.refs EXCEPT ![d] = v.refs[s], ![s] = NoRef] = r
  BY <1>2, <1>5, <1>6, <1>7 DEF Refs
<1>15. QED
  <2> HIDE DEF t
  <2>1. Good(v, t, r, d, NoRef, u \cup {<<n, v.refs[d]>>}, v.refs[d])
    BY <1>1, <1>11, <1>13 DEF Good
  <2>2. QED
    BY <1>14, <2>1 DEF t

-----------------------------------------------------------------------------
(* The inductive invariant                                                 *)

\* The references after operation o.
After(o) ==
  CASE o.kind = "store"  -> [refs EXCEPT ![o.dst] = o.hash]
    [] o.kind = "delete" -> [refs EXCEPT ![o.dst] = NoRef]
    [] o.kind = "move"   -> [refs EXCEPT ![o.dst] = refs[o.src], ![o.src] = NoRef]

Fresh(o) == IF o.kind = "store" THEN o.hash ELSE NoRef

\* The lock is held by an operation with proper arguments, and the count
\* Store is about to write is the one the transaction still finds.
OpOK ==
  /\ pc # "idle" => /\ op # NoOp
                    /\ op.kind = "store" => op.hash \in Hashes
                    /\ op.kind = "delete" => op.src = op.dst
  /\ pc \in {"store", "copy"} => op.kind = "store"
  /\ pc = "copy" => blobs[op.hash] = NoBlob
  /\ pc = "txn" /\ op.kind = "store" =>
       op.info = IF blobs[op.hash] = NoBlob THEN 1 ELSE blobs[op.hash] + 1

\* What is about to be committed is what the operation means.
TxnOK ==
  /\ pc # "commit" => txn.unread = NoRef
  /\ pc = "commit" =>
       /\ op.kind = "move" => refs[op.src] # NoRef
       /\ Good(Snapshot, txn, After(op), op.dst, Fresh(op), unread \cup Pending, txn.unread)

\* Every unread reference is one of a fault that struck.
UnreadOK == /\ IsFiniteSet(unread)
            /\ \A x \in unread : x[1] \in Nat /\ x[1] <= faults

\* Files that are, or are about to be, the files of recorded blobs are not
\* partial.
FilesOK ==
  /\ NoPartialBlob
  /\ pc = "txn" /\ op.kind = "store" => files[op.hash] # "partial"
  /\ pc = "commit" =>
       \A h \in Hashes : txn.blobs[h] # NoBlob => files[h] # "partial"

\* Without a fault in an unlink window every recorded blob has its file,
\* except the one whose record the pending transaction deletes.
Intact ==
  unlinkFaults = 0 =>
    /\ \A h \in Hashes : blobs[h] # NoBlob =>
         files[h] = "whole" \/ (pc = "commit" /\ txn.victim = h)
    /\ pc = "txn" /\ op.kind = "store" => files[op.hash] = "whole"
    /\ pc = "commit" =>
         \A h \in Hashes : txn.blobs[h] # NoBlob => files[h] = "whole"

IInv == TypeOK /\ RefCountExact /\ UnreadOK /\ OpOK /\ TxnOK /\ FilesOK /\ Intact

\* The invariant holds initially.
LEMMA InitIInv == Init => IInv
<1> SUFFICES ASSUME Init PROVE IInv
  OBVIOUS
<1> USE DEF Init
<1>1. TypeOK
  BY DEF TypeOK, Refs, Blobs, Slots, Ops, NoTxn, NoOp
<1>2. RefCountExact
  <2>1. \A h \in Hashes : Holders(refs, h) = {}
    BY NoRefAssumption DEF Holders
  <2>2. QED
    BY <2>1, FS_EmptySet DEF RefCountExact, Exact, Count
<1>3. OpOK /\ TxnOK /\ UnreadOK
  BY FS_EmptySet DEF OpOK, TxnOK, UnreadOK, NoTxn
<1>4. FilesOK /\ Intact
  BY DEF FilesOK, NoPartialBlob, Intact
<1>5. QED
  BY <1>1, <1>2, <1>3, <1>4 DEF IInv

\* What Return and a crash leave: no operation, no transaction.
LEMMA Released ==
  ASSUME TypeOK, pc' = "idle", op' = NoOp, txn' = NoTxn,
         UNCHANGED files, refs' \in Refs, blobs' \in Blobs,
         unread' \subseteq (Nat \X Hashes), UnreadOK', RefCountExact', NoPartialBlob', UNCHANGED got,
         tmp' \in BOOLEAN, litter' \in Nat,
         faults' \in Nat, unlinkFaults' \in Nat,
         unlinkFaults' = 0 =>
           \A h \in Hashes : blobs'[h] # NoBlob => files[h] = "whole"
  PROVE  IInv'
<1>1. TypeOK'
  BY DEF TypeOK, Ops, NoOp, NoTxn, Refs, Blobs, Slots
<1>2. (OpOK /\ TxnOK)'
  BY DEF OpOK, TxnOK, NoTxn
<1>3. (FilesOK /\ Intact)'
  BY DEF FilesOK, Intact
<1>4. QED
  BY <1>1, <1>2, <1>3 DEF IInv

\* A failed or interrupted operation changes neither records nor files.
LEMMA AbortedKeepsIInv ==
  ASSUME IInv, pc' = "idle", op' = NoOp, txn' = NoTxn,
         UNCHANGED <<db, files, unread, got>>, tmp' \in BOOLEAN, litter' \in Nat,
         \/ Fault
         \/ NoFault /\ pc # "commit"
  PROVE  IInv'
<1>1. TypeOK /\ RefCountExact /\ UnreadOK /\ NoPartialBlob /\ Intact
  BY DEF IInv, FilesOK
<1>2. refs' = refs /\ blobs' = blobs /\ files' = files /\ got' = got /\ unread' = unread
  BY DEF db
<1>3. refs' \in Refs /\ blobs' \in Blobs /\ RefCountExact' /\ NoPartialBlob'
  BY <1>1, <1>2 DEF TypeOK, RefCountExact, Exact, Count, Holders, NoPartialBlob
<1>4. /\ faults' \in Nat /\ unlinkFaults' \in Nat /\ UnreadOK'
      /\ unread' \subseteq (Nat \X Hashes)
  BY <1>1, <1>2 DEF TypeOK, Fault, NoFault, UnreadOK
<1>5. ASSUME unlinkFaults' = 0, NEW h \in Hashes, blobs'[h] # NoBlob
      PROVE  files[h] = "whole"
  <2>1. unlinkFaults = 0 /\ (pc = "commit" => txn.victim = NoRef)
    BY <1>1, <1>5 DEF Fault, NoFault, TypeOK
  <2>2. files[h] = "whole" \/ (pc = "commit" /\ txn.victim = h)
    BY <1>1, <1>2, <1>5, <2>1 DEF Intact
  <2>3. h # NoRef
    BY NoRefAssumption
  <2>4. QED
    BY <2>1, <2>2, <2>3
<1>6. QED
  BY <1>1, <1>2, <1>3, <1>4, <1>5, Released

\* The steps of Store before its transaction.
LEMMA UploadStep ==
  ASSUME IInv, NEW k \in Keys, NEW h \in Hashes, StoreUpload(k, h)
  PROVE  IInv'
<1> USE DEF StoreUpload, NoFault, db
<1>1. TypeOK'
  BY DEF IInv, TypeOK, Ops, Slots
<1>2. (RefCountExact /\ UnreadOK)'
  BY DEF IInv, RefCountExact, Exact, Count, Holders, UnreadOK
<1>3. (OpOK /\ TxnOK)'
  BY NoRefAssumption DEF IInv, OpOK, TxnOK, NoOp
<1>4. (FilesOK /\ Intact)'
  BY DEF IInv, FilesOK, NoPartialBlob, Intact
<1>5. QED
  BY <1>1, <1>2, <1>3, <1>4 DEF IInv

\* Store drops its upload when the content is there already.
LEMMA HitStep == ASSUME IInv, StoreHit PROVE IInv'
<1> USE DEF StoreHit, NoFault, db
<1>1. /\ TypeOK /\ op # NoOp /\ op \in Ops /\ op.kind = "store"
      /\ op.hash \in Hashes /\ blobs[op.hash] \in Nat
  BY DEF IInv, TypeOK, OpOK, Blobs
<1>2. /\ op' \in Ops /\ op' # NoOp /\ op'.kind = "store"
      /\ op'.hash = op.hash /\ op'.info = blobs[op.hash] + 1
  BY <1>1 DEF Ops, NoOp
<1>3. TypeOK'
  BY <1>1, <1>2 DEF TypeOK
<1>4. (RefCountExact /\ UnreadOK)'
  BY DEF IInv, RefCountExact, Exact, Count, Holders, UnreadOK
<1>5. (OpOK /\ TxnOK)'
  BY <1>1, <1>2 DEF IInv, OpOK, TxnOK
<1>6. (FilesOK /\ Intact)'
  BY <1>1, <1>2 DEF IInv, FilesOK, NoPartialBlob, Intact
<1>7. QED
  BY <1>3, <1>4, <1>5, <1>6 DEF IInv

\* The blob file appears whole, by a rename or at the end of a copy.
LEMMA PlaceStep == ASSUME IInv, StorePlace \/ StoreCopied PROVE IInv'
<1> USE DEF StorePlace, StoreCopied, NoFault, db
<1>1. /\ TypeOK /\ op # NoOp /\ op \in Ops /\ op.kind = "store"
      /\ op.hash \in Hashes /\ blobs[op.hash] = NoBlob /\ pc # "commit"
  BY DEF IInv, TypeOK, OpOK
<1>2. /\ op' \in Ops /\ op' # NoOp /\ op'.kind = "store"
      /\ op'.hash = op.hash /\ op'.info = 1
  BY <1>1 DEF Ops, NoOp
<1>3. /\ files' = [files EXCEPT ![op.hash] = "whole"]
      /\ files'[op.hash] = "whole"
      /\ \A h \in Hashes : h # op.hash => files'[h] = files[h]
  BY <1>1 DEF TypeOK
<1>4. TypeOK'
  BY <1>1, <1>2, <1>3 DEF TypeOK
<1>5. (RefCountExact /\ UnreadOK)'
  <2>1. refs' = refs /\ blobs' = blobs /\ unread' = unread /\ faults' = faults
    OBVIOUS
  <2>2. QED
    BY <2>1 DEF IInv, RefCountExact, Exact, Count, Holders, UnreadOK
<1>6. (OpOK /\ TxnOK)'
  BY <1>1, <1>2 DEF IInv, OpOK, TxnOK
<1>7. (FilesOK /\ Intact)'
  BY <1>1, <1>2, <1>3 DEF IInv, FilesOK, NoPartialBlob, Intact
<1>8. QED
  BY <1>4, <1>5, <1>6, <1>7 DEF IInv

\* The copy fallback starts: the file of an unreferenced hash is partial.
LEMMA CopyStep == ASSUME IInv, StoreCopy PROVE IInv'
<1> USE DEF StoreCopy, db
<1>1. /\ TypeOK /\ op # NoOp /\ op \in Ops /\ op.kind = "store"
      /\ op.hash \in Hashes /\ blobs[op.hash] = NoBlob
  BY DEF IInv, TypeOK, OpOK
<1>2. faults' \in Nat /\ unlinkFaults' = unlinkFaults
  BY <1>1 DEF Fault, TypeOK
<1>3. \A h \in Hashes : h # op.hash => files'[h] = files[h]
  BY <1>1 DEF TypeOK
<1>4. TypeOK'
  BY <1>1, <1>2 DEF TypeOK
<1>5. (RefCountExact /\ UnreadOK)'
  BY <1>1 DEF IInv, RefCountExact, Exact, Count, Holders, UnreadOK, Fault, TypeOK
<1>6. (OpOK /\ TxnOK)'
  BY <1>1 DEF IInv, OpOK, TxnOK
<1>7. (FilesOK /\ Intact)'
  BY <1>1, <1>2, <1>3 DEF IInv, FilesOK, NoPartialBlob, Intact
<1>8. QED
  BY <1>4, <1>5, <1>6, <1>7 DEF IInv

\* Delete and Move take the lock.
LEMMA BeginStep ==
  ASSUME IInv, NEW s \in Keys, NEW d \in Keys, Delete(s) \/ Move(s, d)
  PROVE  IInv'
<1> USE DEF Delete, Move, NoFault, db
<1>1. TypeOK'
  BY DEF IInv, TypeOK, Ops, Slots
<1>2. (RefCountExact /\ UnreadOK)'
  BY DEF IInv, RefCountExact, Exact, Count, Holders, UnreadOK
<1>3. (OpOK /\ TxnOK)'
  BY NoRefAssumption DEF IInv, OpOK, TxnOK, NoOp
<1>4. (FilesOK /\ Intact)'
  BY DEF IInv, FilesOK, NoPartialBlob, Intact
<1>5. QED
  BY <1>1, <1>2, <1>3, <1>4 DEF IInv

\* Reading changes nothing but the result.
LEMMA GetStep == ASSUME IInv, NEW k \in Keys, Get(k) PROVE IInv'
<1> USE DEF Get, NoFault, db
<1>1. TypeOK'
  BY DEF IInv, TypeOK, Slots, Refs
<1>2. (RefCountExact /\ UnreadOK)'
  BY DEF IInv, RefCountExact, Exact, Count, Holders, UnreadOK
<1>3. (OpOK /\ TxnOK)'
  BY DEF IInv, OpOK, TxnOK
<1>4. (FilesOK /\ Intact)'
  BY DEF IInv, FilesOK, NoPartialBlob, Intact
<1>5. QED
  BY <1>1, <1>2, <1>3, <1>4 DEF IInv

\* The operation whose transaction runs has proper arguments.
LEMMA RunArguments ==
  ASSUME IInv, pc = "txn"
  PROVE  /\ op \in Ops /\ op # NoOp /\ op.dst \in Keys /\ op.src \in Keys
         /\ op.kind \in {"store", "delete", "move"} /\ op.info \in Nat
         /\ op.kind = "delete" => op.src = op.dst
         /\ op.kind = "store" =>
              /\ op.hash \in Hashes
              /\ op.info = IF blobs[op.hash] = NoBlob THEN 1 ELSE blobs[op.hash] + 1
         /\ Snapshot \in Views /\ Snapshot.victim = NoRef /\ Snapshot.unread = NoRef
         /\ Snapshot.refs = refs /\ Snapshot.blobs = blobs
         /\ IsFiniteSet(unread) /\ Exact(Snapshot.refs, Snapshot.blobs, unread)
<1>1. /\ op \in Ops /\ op # NoOp /\ op.dst \in Keys /\ op.src \in Keys
      /\ op.kind \in {"store", "delete", "move"} /\ op.info \in Nat
      /\ op.kind = "delete" => op.src = op.dst
      /\ op.kind = "store" =>
           /\ op.hash \in Hashes
           /\ op.info = IF blobs[op.hash] = NoBlob THEN 1 ELSE blobs[op.hash] + 1
  BY DEF IInv, TypeOK, OpOK, Ops
<1>2. /\ Snapshot \in Views /\ Snapshot.victim = NoRef /\ Snapshot.unread = NoRef
      /\ Snapshot.refs = refs /\ Snapshot.blobs = blobs
  BY DEF IInv, TypeOK, Views, Snapshot, Slots
<1>3. IsFiniteSet(unread) /\ Exact(Snapshot.refs, Snapshot.blobs, unread)
  BY <1>2 DEF IInv, UnreadOK, RefCountExact
<1>4. QED
  BY <1>1, <1>2, <1>3

\* The function a transaction runs computes what its operation means.
LEMMA RunGood ==
  ASSUME IInv, pc = "txn", ~Rejected(op)
  PROVE  Good(Snapshot, Run(op, refs[op.dst]), After(op), op.dst, Fresh(op), unread, NoRef)
<1>1. CASE op.kind = "store"
  <2>1. Good(Snapshot, StoreTxn(Snapshot, op.dst, op.hash, op.info, refs[op.dst]),
             [refs EXCEPT ![op.dst] = op.hash], op.dst, op.hash, unread, NoRef)
    <3> DEFINE v == Snapshot
    <3>1. /\ v \in Views /\ v.victim = NoRef /\ v.unread = NoRef /\ v.refs = refs
          /\ v.blobs = blobs /\ IsFiniteSet(unread) /\ Exact(v.refs, v.blobs, unread)
          /\ op.dst \in Keys /\ op.hash \in Hashes /\ op.info \in Nat
          /\ op.info = IF blobs[op.hash] = NoBlob THEN 1 ELSE blobs[op.hash] + 1
      BY <1>1, RunArguments
    <3> HIDE DEF v
    <3>2. Good(v, StoreTxn(v, op.dst, op.hash, op.info, v.refs[op.dst]),
               [v.refs EXCEPT ![op.dst] = op.hash], op.dst, op.hash, unread, v.unread)
      BY <3>1, StoreTxnGood
    <3>3. QED
      BY <3>1, <3>2 DEF v
  <2>2. QED
    BY <1>1, <2>1 DEF Run, After, Fresh
<1>2. CASE op.kind = "delete"
  <2>1. Good(Snapshot, DeleteTxn(Snapshot, op.src), [refs EXCEPT ![op.src] = NoRef],
             op.src, NoRef, unread, NoRef)
    BY RunArguments, DeleteTxnGood
  <2>2. op.src = op.dst
    BY <1>2, RunArguments
  <2>3. QED
    BY <1>2, <2>1, <2>2 DEF Run, After, Fresh
<1>3. CASE op.kind = "move"
  <2>1. refs[op.src] # NoRef
    BY <1>3 DEF Rejected
  <2>2. Good(Snapshot, MoveTxn(Snapshot, op.src, op.dst, refs[op.dst]),
             [refs EXCEPT ![op.dst] = refs[op.src], ![op.src] = NoRef], op.dst, NoRef,
             unread, NoRef)
    BY <2>1, RunArguments, MoveTxnGood
  <2>3. QED
    BY <1>3, <2>2 DEF Run, After, Fresh
<1>4. QED
  BY <1>1, <1>2, <1>3, RunArguments

\* So does the one that could not read the reference it replaces, but for that
\* reference's count, and it unlinks nothing.
LEMMA MisreadGood ==
  ASSUME IInv, TxnMisreads
  PROVE  /\ Good(Snapshot, txn', After(op), op.dst, Fresh(op),
                 unread \cup {<<faults', refs[op.dst]>>}, refs[op.dst])
         /\ txn'.victim = NoRef
<1>1. /\ pc = "txn" /\ op.kind \in {"store", "move"}
      /\ refs[op.src] # NoRef /\ refs[op.dst] # NoRef
      /\ txn' = [Run(op, NoRef) EXCEPT !.unread = refs[op.dst]]
      /\ faults' = faults + 1
  BY DEF TxnMisreads, Fault
<1>2. <<faults', refs[op.dst]>> \notin unread
  BY <1>1 DEF IInv, TypeOK, UnreadOK
<1> DEFINE v == Snapshot
<1>3. /\ v \in Views /\ v.victim = NoRef /\ v.refs = refs /\ v.blobs = blobs
      /\ IsFiniteSet(unread) /\ Exact(v.refs, v.blobs, unread)
      /\ op.dst \in Keys /\ op.src \in Keys /\ op.info \in Nat
      /\ op.kind = "store" =>
           /\ op.hash \in Hashes
           /\ op.info = IF blobs[op.hash] = NoBlob THEN 1 ELSE blobs[op.hash] + 1
  BY <1>1, RunArguments
<1>4. CASE op.kind = "store"
  <2>1. txn' = [StoreTxn(v, op.dst, op.hash, op.info, NoRef) EXCEPT !.unread = v.refs[op.dst]]
    BY <1>1, <1>3, <1>4 DEF Run
  <2>2. txn'.victim = NoRef
    <3> HIDE DEF v
    <3> QED BY <1>3, <2>1 DEF StoreTxn, Views
  <2>3. Good(v, txn', [v.refs EXCEPT ![op.dst] = op.hash], op.dst, op.hash,
             unread \cup {<<faults', v.refs[op.dst]>>}, v.refs[op.dst])
    <3>1. <<faults', v.refs[op.dst]>> \notin unread /\ v.refs[op.dst] # NoRef
      BY <1>1, <1>2, <1>3
    <3> HIDE DEF v
    <3> QED BY <1>3, <1>4, <2>1, <3>1, StoreTxnMisread
  <2>4. After(op) = [refs EXCEPT ![op.dst] = op.hash] /\ Fresh(op) = op.hash
    BY <1>4 DEF After, Fresh
  <2>5. QED
    BY <1>3, <2>2, <2>3, <2>4
<1>5. CASE op.kind = "move"
  <2>1. txn' = [MoveTxn(v, op.src, op.dst, NoRef) EXCEPT !.unread = v.refs[op.dst]]
    BY <1>1, <1>3, <1>5 DEF Run
  <2>2. txn'.victim = NoRef
    <3> HIDE DEF v
    <3> QED BY <1>3, <2>1 DEF MoveTxn, Views
  <2>3. Good(v, txn', [v.refs EXCEPT ![op.dst] = v.refs[op.src], ![op.src] = NoRef],
             op.dst, NoRef, unread \cup {<<faults', v.refs[op.dst]>>}, v.refs[op.dst])
    <3>1. /\ <<faults', v.refs[op.dst]>> \notin unread
          /\ v.refs[op.dst] # NoRef /\ v.refs[op.src] # NoRef
      BY <1>1, <1>2, <1>3
    <3> HIDE DEF v
    <3> QED BY <1>3, <2>1, <3>1, MoveTxnMisread
  <2>4. /\ After(op) = [refs EXCEPT ![op.dst] = refs[op.src], ![op.src] = NoRef]
        /\ Fresh(op) = NoRef
    BY <1>5 DEF After, Fresh
  <2>5. QED
    BY <1>3, <2>2, <2>3, <2>4
<1>6. QED
  BY <1>1, <1>4, <1>5

\* What either step leaves pending.
LEMMA RunOutcome ==
  ASSUME IInv, TxnRun \/ TxnMisreads
  PROVE  /\ pc = "txn" /\ pc' = "commit" /\ op' = op /\ refs' = refs /\ blobs' = blobs
         /\ tmp' = tmp /\ litter' = litter /\ got' = got /\ unread' = unread
         /\ unlinkFaults' = unlinkFaults /\ faults' \in Nat /\ faults <= faults'
         /\ op.kind = "move" => refs[op.src] # NoRef
         /\ Good(Snapshot, txn', After(op), op.dst, Fresh(op), (unread \cup Pending)',
                 txn'.unread)
         /\ \A h \in Hashes : files'[h] = IF h = txn'.victim THEN "absent" ELSE files[h]
         /\ files' \in [Hashes -> {"absent", "partial", "whole"}]
<1>1. /\ pc = "txn" /\ pc' = "commit" /\ op' = op /\ refs' = refs /\ blobs' = blobs
      /\ tmp' = tmp /\ litter' = litter /\ got' = got /\ unread' = unread
      /\ unlinkFaults' = unlinkFaults /\ faults' \in Nat /\ faults <= faults'
      /\ op.kind = "move" => refs[op.src] # NoRef
      /\ files \in [Hashes -> {"absent", "partial", "whole"}]
  BY DEF TxnRun, TxnMisreads, NoFault, Fault, db, IInv, TypeOK, Rejected
<1>2. CASE TxnRun
  <2>1. txn' = Run(op, refs[op.dst]) /\ ~Rejected(op)
    BY <1>2 DEF TxnRun
  <2>2. Good(Snapshot, txn', After(op), op.dst, Fresh(op), unread, NoRef)
    BY <1>1, <2>1, RunGood
  <2>3. txn'.unread = NoRef /\ txn'.victim \in Slots
    BY <2>2 DEF Good, Views
  <2>4. (unread \cup Pending)' = unread
    BY <1>1, <2>3 DEF Pending
  <2>5. files' = IF txn'.victim = NoRef THEN files
                 ELSE [files EXCEPT ![txn'.victim] = "absent"]
    BY <1>2 DEF TxnRun
  <2>6. /\ \A h \in Hashes : files'[h] = IF h = txn'.victim THEN "absent" ELSE files[h]
        /\ files' \in [Hashes -> {"absent", "partial", "whole"}]
    BY <1>1, <2>3, <2>5, NoRefAssumption DEF Slots
  <2>7. QED
    BY <1>1, <2>2, <2>3, <2>4, <2>6
<1>3. CASE TxnMisreads
  <2>1. /\ Good(Snapshot, txn', After(op), op.dst, Fresh(op),
                unread \cup {<<faults', refs[op.dst]>>}, refs[op.dst])
        /\ txn'.victim = NoRef
    BY <1>3, MisreadGood
  <2>2. txn'.unread = refs[op.dst] /\ refs[op.dst] # NoRef /\ files' = files
    BY <1>3, <2>1 DEF Good, TxnMisreads
  <2>3. (unread \cup Pending)' = unread \cup {<<faults', refs[op.dst]>>}
    BY <1>1, <2>2 DEF Pending
  <2>4. QED
    BY <1>1, <2>1, <2>2, <2>3, NoRefAssumption
<1>4. QED
  BY <1>2, <1>3

\* The transaction's function runs, and may unlink a file.
LEMMA RunStep == ASSUME IInv, TxnRun \/ TxnMisreads PROVE IInv'
<1>1. /\ pc = "txn" /\ pc' = "commit" /\ op' = op /\ refs' = refs /\ blobs' = blobs
      /\ tmp' = tmp /\ litter' = litter /\ got' = got /\ unread' = unread
      /\ unlinkFaults' = unlinkFaults /\ faults' \in Nat /\ faults <= faults'
      /\ op.kind = "move" => refs[op.src] # NoRef
  BY RunOutcome
<1>2. Good(Snapshot, txn', After(op), op.dst, Fresh(op), (unread \cup Pending)', txn'.unread)
  BY RunOutcome
<1>3. txn' \in Views /\ Snapshot.blobs = blobs /\ Snapshot.refs = refs
  BY <1>2 DEF Good, Snapshot
<1>4. /\ files' \in [Hashes -> {"absent", "partial", "whole"}]
      /\ \A h \in Hashes : files'[h] = IF h = txn'.victim THEN "absent"
                                       ELSE files[h]
  BY RunOutcome
<1>5. TypeOK'
  BY <1>1, <1>3, <1>4 DEF IInv, TypeOK, Views
<1>6. (RefCountExact /\ UnreadOK)'
  BY <1>1 DEF IInv, TypeOK, RefCountExact, Exact, Count, Holders, UnreadOK
<1>7. OpOK'
  BY <1>1 DEF IInv, OpOK
<1>8. TxnOK'
  <2>1. Snapshot' = Snapshot /\ After(op)' = After(op) /\ Fresh(op)' = Fresh(op)
    BY <1>1 DEF Snapshot, After, Fresh
  <2>2. Good(Snapshot, txn, After(op), op.dst, Fresh(op), unread \cup Pending, txn.unread)'
    BY <1>1, <1>2, <2>1 DEF Good, Exact, Count, Holders, Views, Refs, Blobs, Slots, NumRefs
  <2>3. QED
    BY <1>1, <2>2 DEF TxnOK
<1>9. \A h \in Hashes : txn'.blobs[h] # NoBlob =>
          h # txn'.victim /\ (h = Fresh(op) \/ blobs[h] # NoBlob)
  BY <1>2, <1>3, NoRefAssumption DEF Good
<1>10. FilesOK'
  <2>1. NoPartialBlob'
    BY <1>1, <1>4 DEF IInv, FilesOK, NoPartialBlob
  <2>2. ASSUME NEW h \in Hashes, txn'.blobs[h] # NoBlob
        PROVE  files'[h] # "partial"
    BY <1>1, <1>4, <1>9, <2>2, NoRefAssumption
       DEF IInv, FilesOK, NoPartialBlob, Fresh
  <2>3. QED
    BY <1>1, <2>1, <2>2 DEF FilesOK
<1>11. Intact'
  <2>1. SUFFICES ASSUME unlinkFaults = 0 PROVE Intact'
    BY <1>1 DEF Intact
  <2>2. ASSUME NEW h \in Hashes, blobs[h] # NoBlob
        PROVE  files'[h] = "whole" \/ txn'.victim = h
    BY <1>1, <1>4, <2>1, <2>2 DEF IInv, Intact
  <2>3. ASSUME NEW h \in Hashes, txn'.blobs[h] # NoBlob
        PROVE  files'[h] = "whole"
    BY <1>1, <1>4, <1>9, <2>1, <2>3, NoRefAssumption DEF IInv, Intact, Fresh
  <2>4. QED
    BY <1>1, <2>2, <2>3 DEF Intact
<1>12. QED
  BY <1>5, <1>6, <1>7, <1>8, <1>10, <1>11 DEF IInv

\* The write set becomes the records.
LEMMA CommitStep == ASSUME IInv, Commit PROVE IInv'
<1>1. /\ pc = "commit" /\ pc' = "idle" /\ op' = NoOp /\ txn' = NoTxn
      /\ refs' = txn.refs /\ blobs' = txn.blobs /\ files' = files /\ got' = got
      /\ tmp' = FALSE /\ litter' = litter /\ unread' = unread \cup Pending
      /\ faults' = faults /\ unlinkFaults' = unlinkFaults
  BY DEF Commit, Return, NoFault
<1>2. /\ TypeOK /\ txn \in Views /\ Exact(txn.refs, txn.blobs, unread \cup Pending)
      /\ txn.refs \in Refs /\ txn.blobs \in Blobs
  BY <1>1 DEF IInv, TxnOK, Good, Views
<1>3. RefCountExact'
  BY <1>1, <1>2 DEF RefCountExact, Exact, Count, Holders
<1>4. NoPartialBlob'
  BY <1>1 DEF IInv, FilesOK, NoPartialBlob
<1>5. unlinkFaults' = 0 =>
        \A h \in Hashes : blobs'[h] # NoBlob => files[h] = "whole"
  BY <1>1 DEF IInv, Intact
<1>6. /\ tmp' \in BOOLEAN /\ litter' \in Nat
      /\ faults' \in Nat /\ unlinkFaults' \in Nat
  BY <1>1, <1>2 DEF TypeOK
<1>7. unread' \subseteq (Nat \X Hashes) /\ UnreadOK'
  <2>1. \/ Pending = {}
        \/ Pending = {<<faults, txn.unread>>} /\ txn.unread \in Hashes
    <3>1. txn.unread \in Hashes \cup {NoRef}
      BY <1>2 DEF Views, Slots
    <3>2. QED
      BY <3>1 DEF Pending
  <2>2. IsFiniteSet(unread')
    <3>1. IsFiniteSet(unread) /\ (Pending = {} => unread' = unread)
      BY <1>1 DEF IInv, UnreadOK
    <3>2. IsFiniteSet(unread \cup {<<faults, txn.unread>>})
      BY <3>1, FS_AddElement
    <3>3. QED
      BY <1>1, <2>1, <3>1, <3>2
  <2>3. QED
    BY <1>1, <1>2, <2>1, <2>2 DEF IInv, UnreadOK, TypeOK
<1>8. QED
  BY <1>1, <1>2, <1>3, <1>4, <1>5, <1>6, <1>7, Released

\* The invariant is preserved by every step.
LEMMA NextIInv == IInv /\ [Next]_vars => IInv'
<1> SUFFICES ASSUME IInv, [Next]_vars PROVE IInv'
  OBVIOUS
<1>1. CASE \E k \in Keys, h \in Hashes : StoreUpload(k, h)
  BY <1>1, UploadStep
<1>2. CASE StoreHit
  BY <1>2, HitStep
<1>3. CASE StorePlace \/ StoreCopied
  BY <1>3, PlaceStep
<1>4. CASE StoreCopy
  BY <1>4, CopyStep
<1>5. CASE \E k \in Keys : Delete(k)
  BY <1>5, BeginStep
<1>6. CASE \E s, d \in Keys : Move(s, d)
  BY <1>6, BeginStep
<1>7. CASE \E k \in Keys : Get(k)
  BY <1>7, GetStep
<1>8. CASE TxnRun \/ TxnMisreads
  BY <1>8, RunStep
<1>9. CASE Commit
  BY <1>9, CommitStep
<1>10. CASE StoreFails \/ TxnRejected \/ TxnFails \/ CommitFails
  <2>1. tmp' \in BOOLEAN /\ litter' \in Nat
    BY <1>10 DEF IInv, TypeOK, StoreFails, TxnRejected, TxnFails,
                 CommitFails, Return
  <2>2. QED
    BY <1>10, <2>1, AbortedKeepsIInv DEF StoreFails, TxnRejected,
       TxnFails, CommitFails, Return
<1>11. CASE Crash
  <2>1. tmp' \in BOOLEAN /\ litter' \in Nat
    <3> DEFINE j == IF tmp THEN 1 ELSE 0
    <3>1. litter \in Nat /\ j \in {0, 1}
      BY DEF IInv, TypeOK
    <3>2. tmp' = FALSE /\ litter' = litter + j
      BY <1>11 DEF Crash
    <3> HIDE DEF j
    <3>3. litter' \in Nat
      BY <3>1, <3>2
    <3>4. QED
      BY <3>2, <3>3
  <2>2. QED
    BY <1>11, <2>1, AbortedKeepsIInv DEF Crash
<1>12. CASE UNCHANGED vars
  <2> USE <1>12 DEF vars
  <2>1. TypeOK' /\ OpOK'
    BY DEF IInv, TypeOK, OpOK
  <2>2. (RefCountExact /\ UnreadOK)'
    BY DEF IInv, RefCountExact, Exact, Count, Holders, UnreadOK
  <2>3. TxnOK'
    BY DEF IInv, TxnOK, Good, Exact, Count, Holders, NumRefs, Snapshot, After, Fresh, Pending
  <2>4. (FilesOK /\ Intact)'
    BY DEF IInv, FilesOK, NoPartialBlob, Intact
  <2>5. QED
    BY <2>1, <2>2, <2>3, <2>4 DEF IInv
<1>13. QED
  BY <1>1, <1>2, <1>3, <1>4, <1>5, <1>6, <1>7, <1>8, <1>9, <1>10, <1>11, <1>12
     DEF Next

-----------------------------------------------------------------------------
(* The theorems                                                            *)

\* The inductive invariant holds in every reachable state.
THEOREM Inductive == Spec => []IInv
<1>1. QED
  BY InitIInv, NextIInv, PTL DEF Spec

\* The records, files and the operation in progress keep their types.
THEOREM TypeCorrect == Spec => []TypeOK
<1>1. IInv => TypeOK
  BY DEF IInv
<1>2. QED
  BY <1>1, Inductive, PTL

\* The reference counts that decrementRefCount, Store and Move maintain are the
\* numbers of references, and of those replaced without having been read,
\* whatever faults happen.
THEOREM RefCountsExact == Spec => []RefCountExact
<1>1. IInv => RefCountExact
  BY DEF IInv
<1>2. QED
  BY <1>1, Inductive, PTL

\* No recorded blob has a file that a copy left unfinished.
THEOREM BlobsNeverPartial == Spec => []NoPartialBlob
<1>1. IInv => NoPartialBlob
  BY DEF IInv, FilesOK
<1>2. QED
  BY <1>1, Inductive, PTL

\* Unless a fault strikes between an unlink and its commit, every object can
\* be read back between operations.
THEOREM NoLossOutsideUnlinkWindow == Spec => [](unlinkFaults = 0 => Readable)
<1>1. ASSUME IInv PROVE unlinkFaults = 0 => Readable
  <2>1. SUFFICES ASSUME unlinkFaults = 0, pc = "idle", NEW k \in Keys,
                        refs[k] # NoRef
                 PROVE  files[refs[k]] = "whole"
    BY DEF Readable
  <2>2. refs[k] \in Hashes /\ blobs[refs[k]] # NoBlob
    BY <1>1, <2>1, Recorded DEF IInv, TypeOK, RefCountExact, UnreadOK
  <2>3. QED
    BY <1>1, <2>1, <2>2 DEF IInv, Intact
<1>2. QED
  BY <1>1, Inductive, PTL

\* A blob file is unlinked only by the operation that drops the last
\* reference to its content.
THEOREM UnlinksOnlyLast == Spec => UnlinkOnlyLast
<1> DEFINE A == \A h \in Hashes : files[h] = "whole" /\ files'[h] = "absent"
                                    => Holders(refs, h) = {op.dst}
<1>1. ASSUME IInv, [Next]_vars PROVE [A]_vars
  <2>1. SUFFICES ASSUME NEW h \in Hashes, files[h] = "whole",
                        files'[h] = "absent"
                 PROVE  Holders(refs, h) = {op.dst}
    OBVIOUS
  <2>2. files \in [Hashes -> {"absent", "partial", "whole"}]
    BY <1>1 DEF IInv, TypeOK
  <2>3. TxnRun
    BY <1>1, <2>1, <2>2
       DEF Next, vars, StoreUpload, StoreHit, StorePlace, StoreCopy,
           StoreCopied, StoreFails, Delete, Move, TxnMisreads, TxnRejected, TxnFails,
           Commit, CommitFails, Crash, Get
  <2>4. /\ Good(Snapshot, txn', After(op), op.dst, Fresh(op), unread, NoRef)
        /\ op.dst \in Keys
    BY <1>1, <2>3, RunGood, RunArguments DEF TxnRun
  <2>5. txn'.victim = h /\ h # NoRef
    BY <2>1, <2>2, <2>3, <2>4, NoRefAssumption
       DEF TxnRun, Good, Views, Slots
  <2>6. refs[op.dst] = h /\ Cardinality(Holders(refs, h)) = 1
    BY <2>4, <2>5 DEF Good, Snapshot, NumRefs
  <2>7. op.dst \in Holders(refs, h)
    BY <2>4, <2>6 DEF Holders
  <2>8. QED
    BY <2>6, <2>7, NumRefsType, FS_Singleton
<1>2. QED
  BY <1>1, Inductive, PTL DEF Spec, UnlinkOnlyLast

\* The store implements the atomic map ObjectMap as long as no fault strikes
\* between an unlink and its commit.
THEOREM StoreImplementsMap == Spec => ImplementsMap
<1> DEFINE A == unlinkFaults' = 0 => [OM!Next]_(OM!vars)
<1>1. Init => OM!Init
  BY DEF Init, OM!Init
<1>2. ASSUME IInv, [Next]_vars PROVE [A]_vars
  <2>1. SUFFICES ASSUME unlinkFaults' = 0 PROVE [OM!Next]_(OM!vars)
    OBVIOUS
  <2>2. CASE Commit
    <3>1. /\ pc = "commit" /\ refs' = txn.refs /\ got' = got
      BY <2>2 DEF Commit
    <3>2. /\ txn.refs = After(op) /\ op \in Ops /\ op # NoOp
          /\ op.kind = "move" => refs[op.src] # NoRef
          /\ op.kind = "store" => op.hash \in Hashes
      BY <1>2, <3>1 DEF IInv, TxnOK, Good, TypeOK, OpOK
    <3>3. op.dst \in Keys /\ op.src \in Keys
          /\ op.kind \in {"store", "delete", "move"}
      BY <3>2 DEF Ops
    <3>4. CASE op.kind = "store"
      <4>1. OM!Put(op.dst, op.hash)
        BY <3>1, <3>2, <3>4 DEF After, OM!Put
      <4>2. QED
        BY <3>2, <3>3, <3>4, <4>1 DEF OM!Next
    <3>5. CASE op.kind = "delete"
      <4>1. OM!Remove(op.dst)
        BY <3>1, <3>2, <3>5 DEF After, OM!Remove
      <4>2. QED
        BY <3>3, <4>1 DEF OM!Next
    <3>6. CASE op.kind = "move"
      <4>1. OM!Move(op.src, op.dst)
        BY <3>1, <3>2, <3>6 DEF After, OM!Move
      <4>2. QED
        BY <3>3, <4>1 DEF OM!Next
    <3>7. QED
      BY <3>3, <3>4, <3>5, <3>6
  <2>3. CASE \E k \in Keys : Get(k)
    <3>1. PICK k \in Keys : Get(k)
      BY <2>3
    <3>2. pc = "idle" /\ unlinkFaults = 0 /\ refs' = refs
      BY <2>1, <3>1 DEF Get, NoFault, db
    <3>3. refs[k] # NoRef => refs[k] \in Hashes /\ blobs[refs[k]] # NoBlob
      BY <1>2, Recorded DEF IInv, TypeOK, RefCountExact, UnreadOK
    <3>4. refs[k] # NoRef => files[refs[k]] = "whole"
      BY <1>2, <3>2, <3>3 DEF IInv, Intact
    <3>5. got' = [key |-> k, res |-> refs[k]]
      BY <3>1, <3>4 DEF Get
    <3>6. OM!Get(k)
      BY <3>2, <3>5 DEF OM!Get
    <3>7. QED
      BY <3>6 DEF OM!Next
  <2>4. CASE ~Commit /\ ~(\E k \in Keys : Get(k))
    <3>1. refs' = refs /\ got' = got
      BY <1>2, <2>4
         DEF Next, vars, db, StoreUpload, StoreHit, StorePlace, StoreCopy,
             StoreCopied, StoreFails, Delete, Move, TxnRun, TxnMisreads, TxnRejected,
             TxnFails, CommitFails, Crash
    <3>2. QED
      BY <3>1 DEF OM!vars
  <2>5. QED
    BY <2>2, <2>3, <2>4
<1>3. QED
  BY <1>1, <1>2, Inductive, PTL DEF Spec, ImplementsMap

-----------------------------------------------------------------------------
(* Lost blobs                                                              *)

\* Recorded blobs whose file is missing or cut short, the one whose record
\* the pending transaction deletes aside.
Missing == {h \in Hashes : /\ blobs[h] # NoBlob /\ files[h] # "whole"
                           /\ ~(pc = "commit" /\ txn.victim = h)}

\* A transaction records no blob without a whole file, unless it was recorded
\* before.
LossInv ==
  /\ Cardinality(Missing) <= unlinkFaults
  /\ pc = "txn" /\ op.kind = "store" =>
       blobs[op.hash] # NoBlob \/ files[op.hash] = "whole"
  /\ pc = "commit" =>
       \A h \in Hashes : txn.blobs[h] # NoBlob => blobs[h] # NoBlob \/ files[h] = "whole"

LEMMA MissingType == IsFiniteSet(Missing) /\ Cardinality(Missing) \in Nat
<1>1. Missing \subseteq Hashes
  BY DEF Missing
<1>2. QED
  BY <1>1, HashesAssumption, FS_Subset, FS_CardinalityType

\* A step that loses nothing.
LEMMA NothingLost ==
  ASSUME IInv, LossInv, Missing' \subseteq Missing, unlinkFaults' = unlinkFaults
  PROVE  Cardinality(Missing)' <= unlinkFaults'
<1>1. Cardinality(Missing') <= Cardinality(Missing) /\ Cardinality(Missing') \in Nat
  BY MissingType, FS_Subset, FS_CardinalityType
<1>2. unlinkFaults \in Nat /\ Cardinality(Missing) <= unlinkFaults
  BY DEF IInv, TypeOK, LossInv
<1>3. QED
  BY <1>1, <1>2, MissingType

\* An operation fails or is interrupted: if its transaction had unlinked a
\* file, that one is lost.
LEMMA AbortedLoss ==
  ASSUME IInv, LossInv, pc' = "idle", UNCHANGED <<db, files>>,
         \/ Fault
         \/ NoFault /\ pc # "commit"
  PROVE  LossInv'
<1>1. unlinkFaults \in Nat /\ Cardinality(Missing) <= unlinkFaults /\ txn.victim \in Slots
  BY DEF IInv, TypeOK, LossInv
<1>2. CASE pc = "commit" /\ txn.victim # NoRef
  <2>1. Missing' \subseteq Missing \cup {txn.victim}
    BY <1>2 DEF Missing, db
  <2>2. /\ IsFiniteSet(Missing \cup {txn.victim})
        /\ Cardinality(Missing \cup {txn.victim}) <= Cardinality(Missing) + 1
        /\ Cardinality(Missing \cup {txn.victim}) \in Nat
    <3>1. /\ IsFiniteSet(Missing \cup {txn.victim})
          /\ Cardinality(Missing \cup {txn.victim}) =
               IF txn.victim \in Missing THEN Cardinality(Missing) ELSE Cardinality(Missing) + 1
      BY MissingType, FS_AddElement
    <3>2. QED
      BY <3>1, MissingType
  <2>3. /\ Cardinality(Missing') <= Cardinality(Missing \cup {txn.victim})
        /\ Cardinality(Missing') \in Nat
    BY <2>1, <2>2, FS_Subset, FS_CardinalityType
  <2>4. unlinkFaults' = unlinkFaults + 1
    BY <1>2 DEF Fault
  <2>5. Cardinality(Missing)' <= unlinkFaults'
    BY <1>1, <2>2, <2>3, <2>4, MissingType
  <2>6. QED
    BY <2>5 DEF LossInv
<1>3. CASE ~(pc = "commit" /\ txn.victim # NoRef)
  <2>1. unlinkFaults' = unlinkFaults
    BY <1>3 DEF Fault, NoFault
  <2>2. Missing' \subseteq Missing
    BY <1>3, NoRefAssumption DEF Missing, db
  <2>3. Cardinality(Missing)' <= unlinkFaults'
    BY <2>1, <2>2, NothingLost
  <2>4. QED
    BY <2>3 DEF LossInv
<1>4. QED
  BY <1>2, <1>3

\* The steps of Store before its transaction: only the file of a hash that
\* is not recorded changes.
LEMMA StoreLoss ==
  ASSUME IInv, LossInv, StoreHit \/ StorePlace \/ StoreCopied \/ StoreCopy
  PROVE  LossInv'
<1>1. /\ op \in Ops /\ op.kind = "store" /\ op.hash \in Hashes /\ pc # "commit"
      /\ files \in [Hashes -> {"absent", "partial", "whole"}]
      /\ pc = "copy" => blobs[op.hash] = NoBlob
  BY DEF IInv, TypeOK, OpOK, StoreHit, StorePlace, StoreCopied, StoreCopy
<1>2. PICK x \in Hashes : x = op.hash
  BY <1>1
<1>3. /\ UNCHANGED db /\ unlinkFaults' = unlinkFaults /\ pc' \in {"copy", "txn"}
      /\ \A h \in Hashes : files'[h] = files[h] \/ (h = x /\ blobs[x] = NoBlob)
  BY <1>1, <1>2 DEF StoreHit, StorePlace, StoreCopied, StoreCopy, NoFault, Fault
<1>4. Missing' \subseteq Missing
  BY <1>1, <1>3 DEF Missing, db
<1>5. Cardinality(Missing)' <= unlinkFaults'
  BY <1>3, <1>4, NothingLost
<1>6. pc' = "txn" => blobs[x] # NoBlob \/ files'[x] = "whole"
  BY <1>1, <1>2 DEF StoreHit, StorePlace, StoreCopied, StoreCopy
<1>7. op'.hash = x
  BY <1>1, <1>2 DEF StoreHit, StorePlace, StoreCopied, StoreCopy, Ops, NoOp
<1>8. QED
  BY <1>3, <1>5, <1>6, <1>7 DEF LossInv, db

\* The transaction's function unlinks the file of the record it deletes.
LEMMA RunLoss == ASSUME IInv, LossInv, TxnRun \/ TxnMisreads PROVE LossInv'
<1>1. /\ pc = "txn" /\ pc' = "commit" /\ op' = op /\ refs' = refs /\ blobs' = blobs
      /\ unlinkFaults' = unlinkFaults
      /\ \A h \in Hashes : files'[h] = IF h = txn'.victim THEN "absent" ELSE files[h]
  BY RunOutcome
<1>2. /\ Good(Snapshot, txn', After(op), op.dst, Fresh(op), (unread \cup Pending)',
              txn'.unread)
      /\ Snapshot.blobs = blobs
  BY RunOutcome DEF Snapshot
<1>3. \A h \in Hashes : txn'.blobs[h] # NoBlob =>
        h # txn'.victim /\ (h = Fresh(op) \/ blobs[h] # NoBlob)
  BY <1>2, NoRefAssumption DEF Good
<1>4. Missing' \subseteq Missing
  BY <1>1 DEF Missing
<1>5. Cardinality(Missing)' <= unlinkFaults'
  BY <1>1, <1>4, NothingLost
<1>6. ASSUME NEW h \in Hashes, txn'.blobs[h] # NoBlob
      PROVE  blobs[h] # NoBlob \/ files'[h] = "whole"
  BY <1>1, <1>3, <1>6, NoRefAssumption DEF LossInv, Fresh
<1>7. QED
  BY <1>1, <1>5, <1>6 DEF LossInv

\* What is recorded now was recorded before or has its file.
LEMMA CommitLoss == ASSUME IInv, LossInv, Commit PROVE LossInv'
<1>1. /\ pc = "commit" /\ pc' = "idle" /\ blobs' = txn.blobs /\ files' = files
      /\ unlinkFaults' = unlinkFaults
  BY DEF Commit, Return, NoFault
<1>2. \A h \in Hashes : txn.blobs[h] # NoBlob => h # txn.victim
  BY <1>1, NoRefAssumption DEF IInv, TxnOK, Good
<1>3. Missing' \subseteq Missing
  BY <1>1, <1>2 DEF Missing, LossInv
<1>4. Cardinality(Missing)' <= unlinkFaults'
  BY <1>1, <1>3, NothingLost
<1>5. QED
  BY <1>1, <1>4 DEF LossInv

LEMMA NextLoss == IInv /\ LossInv /\ [Next]_vars => LossInv'
<1> SUFFICES ASSUME IInv, LossInv, [Next]_vars PROVE LossInv'
  OBVIOUS
<1>1. ASSUME UNCHANGED <<db, files, unlinkFaults>>,
             \/ pc # "commit" /\ pc' \notin {"commit", "txn"}
             \/ pc' = "txn" /\ op'.kind # "store" /\ pc # "commit"
             \/ UNCHANGED <<pc, op, txn>>
      PROVE  LossInv'
  <2>1. Missing' \subseteq Missing
    BY <1>1 DEF Missing, db
  <2>2. Cardinality(Missing)' <= unlinkFaults'
    BY <1>1, <2>1, NothingLost
  <2>3. QED
    BY <1>1, <2>2 DEF LossInv, db
<1>2. CASE \E k \in Keys, h \in Hashes : StoreUpload(k, h)
  BY <1>1, <1>2 DEF StoreUpload, NoFault
<1>3. CASE StoreHit \/ StorePlace \/ StoreCopied \/ StoreCopy
  BY <1>3, StoreLoss
<1>4. CASE (\E k \in Keys : Delete(k)) \/ (\E s, d \in Keys : Move(s, d))
  BY <1>1, <1>4 DEF Delete, Move, NoFault
<1>5. CASE \E k \in Keys : Get(k)
  BY <1>1, <1>5 DEF Get, NoFault
<1>6. CASE TxnRun \/ TxnMisreads
  BY <1>6, RunLoss
<1>7. CASE Commit
  BY <1>7, CommitLoss
<1>8. CASE StoreFails \/ TxnRejected \/ TxnFails \/ CommitFails \/ Crash
  BY <1>8, AbortedLoss DEF StoreFails, TxnRejected, TxnFails, CommitFails, Crash, Return
<1>9. CASE UNCHANGED vars
  BY <1>1, <1>9 DEF vars, db
<1>10. QED
  BY <1>2, <1>3, <1>4, <1>5, <1>6, <1>7, <1>8, <1>9 DEF Next

\* Between operations at most one blob per fault that struck between an unlink
\* and its commit is referenced and has no whole file.
THEOREM LossesBounded == Spec => []LossBounded
<1>1. Init => LossInv
  <2> SUFFICES ASSUME Init PROVE LossInv
    OBVIOUS
  <2>1. Missing = {}
    BY DEF Init, Missing
  <2>2. QED
    BY <2>1, FS_EmptySet DEF Init, LossInv
<1>2. IInv /\ LossInv => LossBounded
  <2> SUFFICES ASSUME IInv, LossInv, pc = "idle"
               PROVE  Cardinality(Lost) <= unlinkFaults
    BY DEF LossBounded
  <2>1. ASSUME NEW h \in Hashes, Holders(refs, h) # {}
        PROVE  blobs[h] # NoBlob
    <3>1. PICK k \in Keys : refs[k] = h
      BY <2>1 DEF Holders
    <3>2. QED
      BY <3>1, NoRefAssumption, Recorded DEF IInv, TypeOK, RefCountExact, UnreadOK
  <2>2. Lost \subseteq Missing
    BY <2>1 DEF Lost, Missing
  <2>3. Cardinality(Lost) <= Cardinality(Missing) /\ Cardinality(Lost) \in Nat
    BY <2>2, MissingType, FS_Subset, FS_CardinalityType
  <2>4. QED
    BY <2>3, MissingType DEF LossInv, IInv, TypeOK
<1>3. QED
  BY <1>1, <1>2, NextLoss, Inductive, PTL DEF Spec

-----------------------------------------------------------------------------
(* Leaked files                                                            *)

\* The hash whose file the running Store may put in place before its record exists.
Placing == IF pc \in {"copy", "txn", "commit"} /\ op.kind = "store" THEN {op.hash} ELSE {}

\* Files without a record, the one of the running Store aside.
Stray == {h \in Hashes : blobs[h] = NoBlob /\ files[h] # "absent" /\ h \notin Placing}

\* The references replaced unread, the one of the pending transaction included.
Unread == unread \cup Pending

\* Committing leaves no file behind: the record it deletes has lost its file, and the
\* one of the running Store gets its record.
LeakInv ==
  /\ Cardinality(Stray) + Cardinality(Unread) <= faults /\ litter <= faults
  /\ pc = "commit" =>
       \A h \in Hashes : txn.blobs[h] = NoBlob =>
         h \notin Placing /\ (blobs[h] = NoBlob \/ files[h] = "absent")

LEMMA StrayType == IsFiniteSet(Stray) /\ Cardinality(Stray) \in Nat
<1>1. Stray \subseteq Hashes
  BY DEF Stray
<1>2. QED
  BY <1>1, HashesAssumption, FS_Subset, FS_CardinalityType

LEMMA UnreadType ==
  ASSUME IInv
  PROVE  IsFiniteSet(Unread) /\ Cardinality(Unread) \in Nat
<1>1. IsFiniteSet(unread) /\ IsFiniteSet(unread \cup {<<faults, txn.unread>>})
  BY FS_AddElement DEF IInv, UnreadOK
<1>2. IsFiniteSet(Unread)
  BY <1>1 DEF Unread, Pending
<1>3. QED
  BY <1>2, FS_CardinalityType

\* A step that leaves no file and no count behind.
LEMMA NothingLeaked ==
  ASSUME IInv, LeakInv, Stray' \subseteq Stray, Unread' \subseteq Unread, litter' = litter,
         faults' \in Nat, faults <= faults'
  PROVE  (Cardinality(Stray) + Cardinality(Unread) <= faults /\ litter <= faults)'
<1>1. Cardinality(Stray') <= Cardinality(Stray) /\ Cardinality(Stray') \in Nat
  BY StrayType, FS_Subset, FS_CardinalityType
<1>2. Cardinality(Unread') <= Cardinality(Unread) /\ Cardinality(Unread') \in Nat
  BY UnreadType, FS_Subset, FS_CardinalityType
<1>3. /\ faults \in Nat /\ litter \in Nat /\ litter <= faults
      /\ Cardinality(Stray) + Cardinality(Unread) <= faults
  BY DEF IInv, TypeOK, LeakInv
<1>4. QED
  BY <1>1, <1>2, <1>3, StrayType, UnreadType

\* Nothing is pending where a step ends that leaves the transaction alone or drops it.
LEMMA NothingPending ==
  ASSUME IInv, unread' = unread, txn' = NoTxn \/ (txn' = txn /\ pc # "commit")
  PROVE  Unread' = unread /\ Unread' \subseteq Unread
BY DEF Unread, Pending, NoTxn, IInv, TxnOK

\* Store's transaction is never rejected: the count it decrements is recorded.
LEMMA StoreNotRejected ==
  ASSUME IInv, pc = "txn", Rejected(op)
  PROVE  op.kind # "store"
<1> SUFFICES ASSUME op.kind = "store" PROVE FALSE
  OBVIOUS
<1>1. op.dst \in Keys /\ refs[op.dst] # NoRef /\ blobs[refs[op.dst]] = NoBlob
  BY RunArguments DEF Rejected
<1>2. QED
  BY <1>1, Recorded DEF IInv, TypeOK, RefCountExact, UnreadOK

\* An operation fails or is interrupted: the file that Store had put in place, and a
\* temporary file if the process died, are left behind, which the fault pays for.
LEMMA AbortedLeak ==
  ASSUME IInv, LeakInv, pc' = "idle", txn' = NoTxn, UNCHANGED <<db, files, unread>>,
         \/ Fault /\ litter' \in {litter, litter + 1}
         \/ NoFault /\ litter' = litter /\ pc = "txn" /\ Rejected(op)
  PROVE  LeakInv'
<1>1. /\ faults \in Nat /\ litter \in Nat /\ litter <= faults
      /\ Cardinality(Stray) + Cardinality(Unread) <= faults
  BY DEF IInv, TypeOK, LeakInv
<1>2. pc' # "commit" /\ Placing' = {} /\ Unread' \subseteq Unread
  BY NothingPending DEF Placing
<1>3. CASE Fault /\ litter' \in {litter, litter + 1}
  <2>1. Stray' \subseteq Stray \cup {op.hash}
    BY <1>2 DEF Stray, Placing, db
  <2>2. /\ IsFiniteSet(Stray \cup {op.hash})
        /\ Cardinality(Stray \cup {op.hash}) =
             IF op.hash \in Stray THEN Cardinality(Stray) ELSE Cardinality(Stray) + 1
    BY StrayType, FS_AddElement
  <2>3. /\ Cardinality(Stray') <= Cardinality(Stray \cup {op.hash})
        /\ Cardinality(Stray') \in Nat
    BY <2>1, <2>2, FS_Subset, FS_CardinalityType
  <2>4. faults' = faults + 1
    BY <1>3 DEF Fault
  <2>5. (Cardinality(Stray) + Cardinality(Unread) <= faults)'
    <3>1. Cardinality(Unread') <= Cardinality(Unread) /\ Cardinality(Unread') \in Nat
      BY <1>2, UnreadType, FS_Subset, FS_CardinalityType
    <3>2. QED
      BY <1>1, <2>2, <2>3, <2>4, <3>1, StrayType, UnreadType
  <2>6. (litter <= faults)'
    BY <1>1, <1>3, <2>4
  <2>7. QED
    BY <1>2, <2>5, <2>6 DEF LeakInv
<1>4. CASE NoFault /\ litter' = litter /\ pc = "txn" /\ Rejected(op)
  <2>1. Placing = {}
    BY <1>4, StoreNotRejected DEF Placing
  <2>2. Stray' \subseteq Stray
    BY <1>2, <2>1 DEF Stray, db
  <2>3. faults' = faults
    BY <1>4 DEF NoFault
  <2>4. (Cardinality(Stray) + Cardinality(Unread) <= faults /\ litter <= faults)'
    BY <1>1, <1>2, <1>4, <2>2, <2>3, NothingLeaked
  <2>5. QED
    BY <1>2, <2>4 DEF LeakInv
<1>5. QED
  BY <1>3, <1>4

\* Until its transaction, Store touches only the file it is putting in place.
LEMMA StoreLeak ==
  ASSUME IInv, LeakInv, StoreHit \/ StorePlace \/ StoreCopied \/ StoreCopy
  PROVE  LeakInv'
<1>1. /\ op \in Ops /\ op.kind = "store" /\ op.hash \in Hashes /\ pc # "commit"
      /\ files \in [Hashes -> {"absent", "partial", "whole"}] /\ faults \in Nat
      /\ StoreHit => blobs[op.hash] # NoBlob
  BY DEF IInv, TypeOK, OpOK, StoreHit, StorePlace, StoreCopied, StoreCopy
<1>2. PICK x \in Hashes : x = op.hash
  BY <1>1
<1>3. /\ UNCHANGED <<db, litter>> /\ pc' \in {"copy", "txn"}
      /\ faults' \in Nat /\ faults <= faults'
      /\ \A h \in Hashes \ {x} : files'[h] = files[h]
  BY <1>1, <1>2 DEF StoreHit, StorePlace, StoreCopied, StoreCopy, NoFault, Fault
<1>4. op'.kind = "store" /\ op'.hash = x
  BY <1>1, <1>2 DEF StoreHit, StorePlace, StoreCopied, StoreCopy, Ops, NoOp
<1>5. Placing' = {x} /\ Placing \subseteq {x}
  BY <1>1, <1>2, <1>3, <1>4 DEF Placing
<1>6. Stray' \subseteq Stray /\ Unread' \subseteq Unread
  <2>1. unread' = unread /\ txn' = txn /\ pc # "commit"
    BY <1>1 DEF StoreHit, StorePlace, StoreCopied, StoreCopy
  <2>2. QED
    BY <1>3, <1>5, <2>1, NothingPending DEF Stray, db
<1>7. (Cardinality(Stray) + Cardinality(Unread) <= faults /\ litter <= faults)'
  BY <1>3, <1>6, NothingLeaked
<1>8. QED
  BY <1>3, <1>7 DEF LeakInv

\* A record that decrementRefCount drops is that of the file it unlinks.
LEMMA DecrementDrops ==
  ASSUME NEW v \in Views, NEW h \in Hashes, v.blobs[h] # NoBlob, NEW g \in Hashes,
         decrementRefCount(v, h).blobs[g] = NoBlob
  PROVE  v.blobs[g] = NoBlob \/ decrementRefCount(v, h).victim = g
<1> DEFINE w == decrementRefCount(v, h)
<1>1. /\ w.blobs = [v.blobs EXCEPT ![h] = IF v.blobs[h] <= 1 THEN NoBlob ELSE v.blobs[h] - 1]
      /\ w.victim = IF v.blobs[h] <= 1 THEN h ELSE v.victim
  <2> HIDE DEF w
  <2> QED BY DecrementResult DEF w
<1>2. v.blobs \in Blobs /\ v.blobs[h] \in Nat
  BY DEF Views, Blobs
<1>3. CASE g = h
  <2>1. w.blobs[h] = IF v.blobs[h] <= 1 THEN NoBlob ELSE v.blobs[h] - 1
    BY <1>1, <1>2 DEF Blobs
  <2>2. v.blobs[h] <= 1
    BY <1>2, <1>3, <2>1, NoBlobAssumption
  <2>3. QED
    BY <1>1, <1>3, <2>2
<1>4. CASE g # h
  BY <1>1, <1>2, <1>4 DEF Blobs
<1>5. QED
  BY <1>3, <1>4

\* So are the records that a transaction drops, and Store records its content.
LEMMA RunDrops ==
  ASSUME IInv, pc = "txn", ~Rejected(op), NEW h \in Hashes,
         Run(op, refs[op.dst]).blobs[h] = NoBlob
  PROVE  h \notin Placing /\ (blobs[h] = NoBlob \/ Run(op, refs[op.dst]).victim = h)
<1> DEFINE v == Snapshot
           old == refs[op.dst]
           run == Run(op, refs[op.dst])
<1>1. /\ op \in Ops /\ op # NoOp /\ op.dst \in Keys /\ op.src \in Keys
      /\ op.kind \in {"store", "delete", "move"} /\ op.info \in Nat
      /\ refs \in Refs /\ blobs \in Blobs
  BY DEF IInv, TypeOK, OpOK, Ops
<1>2. v \in Views /\ v.refs = refs /\ v.blobs = blobs /\ old \in Slots
  BY <1>1 DEF IInv, TypeOK, Views, Snapshot, Slots, Refs
<1>3. old \notin (IF op.kind = "store" THEN {NoRef, op.hash} ELSE {NoRef}) => blobs[old] # NoBlob
  BY DEF Rejected
<1> HIDE DEF v
<1>4. CASE op.kind = "store"
  <2> DEFINE w == IF old \notin {NoRef, op.hash} THEN decrementRefCount(v, old) ELSE v
             new == IF old = op.hash THEN op.info - 1 ELSE op.info
  <2>1. run = [w EXCEPT !.blobs[op.hash] = new, !.refs[op.dst] = op.hash]
    BY <1>2, <1>4 DEF Run, StoreTxn, v
  <2>2. /\ w \in Views /\ op.hash \in Hashes
        /\ \A g \in Hashes : w.blobs[g] = NoBlob => v.blobs[g] = NoBlob \/ w.victim = g
    <3>1. op.hash \in Hashes
      BY <1>1, <1>4 DEF IInv, OpOK
    <3>2. CASE old \in {NoRef, op.hash}
      BY <1>2, <3>1, <3>2
    <3>3. CASE old \notin {NoRef, op.hash}
      <4>1. old \in Hashes /\ v.blobs[old] # NoBlob /\ w = decrementRefCount(v, old)
        BY <1>2, <1>3, <1>4, <3>3 DEF Slots
      <4> HIDE DEF w, old
      <4>2. w \in Views
        BY <1>2, <4>1, DecrementResult
      <4>3. QED
        BY <1>2, <3>1, <4>1, <4>2, DecrementDrops
    <3>4. QED
      BY <3>2, <3>3
  <2>3. new # NoBlob
    BY <1>1, NoBlobAssumption
  <2> HIDE DEF w, new
  <2>4. /\ run.victim = w.victim
        /\ run.blobs = [w.blobs EXCEPT ![op.hash] = new]
    BY <2>1, <2>2 DEF Views
  <2>5. h # op.hash /\ w.blobs[h] = NoBlob
    BY <2>2, <2>3, <2>4 DEF Views, Blobs
  <2>6. QED
    BY <1>2, <2>2, <2>4, <2>5 DEF Placing
<1>5. CASE op.kind = "delete"
  <2>1. op.src = op.dst
    BY <1>1, <1>5 DEF IInv, OpOK
  <2>2. CASE old = NoRef
    BY <1>2, <1>5, <2>1, <2>2 DEF Run, DeleteTxn, Placing, v
  <2>3. CASE old # NoRef
    <3> DEFINE u == [v EXCEPT !.refs[op.src] = NoRef]
    <3>1. run = decrementRefCount(u, old)
      BY <1>2, <1>5, <2>1, <2>3 DEF Run, DeleteTxn, v
    <3>2. u \in Views /\ u.blobs = blobs /\ old \in Hashes /\ blobs[old] # NoBlob
      BY <1>1, <1>2, <1>3, <1>5, <2>3 DEF Views, Refs, Slots
    <3> HIDE DEF u
    <3>3. QED
      BY <1>5, <3>1, <3>2, DecrementDrops DEF Placing
  <2>4. QED
    BY <2>2, <2>3
<1>6. CASE op.kind = "move"
  <2> DEFINE w == IF old = NoRef THEN v ELSE decrementRefCount(v, old)
  <2>1. run = [w EXCEPT !.refs[op.dst] = refs[op.src], !.refs[op.src] = NoRef]
    BY <1>2, <1>6 DEF Run, MoveTxn, v
  <2>2. /\ w \in Views
        /\ \A g \in Hashes : w.blobs[g] = NoBlob => v.blobs[g] = NoBlob \/ w.victim = g
    <3>1. CASE old = NoRef
      BY <1>2, <3>1
    <3>2. CASE old # NoRef
      <4>1. old \in Hashes /\ v.blobs[old] # NoBlob /\ w = decrementRefCount(v, old)
        BY <1>2, <1>3, <1>6, <3>2 DEF Slots
      <4> HIDE DEF w, old
      <4>2. w \in Views
        BY <1>2, <4>1, DecrementResult
      <4>3. QED
        BY <1>2, <4>1, <4>2, DecrementDrops
    <3>3. QED
      BY <3>1, <3>2
  <2> HIDE DEF w
  <2>3. run.victim = w.victim /\ run.blobs = w.blobs
    BY <2>1, <2>2 DEF Views
  <2>4. QED
    BY <1>2, <1>6, <2>2, <2>3 DEF Placing
<1>7. QED
  BY <1>1, <1>4, <1>5, <1>6

\* A transaction that could not read the reference it replaces drops no record.
LEMMA MisreadDrops ==
  ASSUME IInv, TxnMisreads, NEW h \in Hashes, txn'.blobs[h] = NoBlob
  PROVE  h \notin Placing /\ blobs[h] = NoBlob
<1>1. /\ pc = "txn" /\ op.kind \in {"store", "move"}
      /\ txn' = [Run(op, NoRef) EXCEPT !.unread = refs[op.dst]]
  BY DEF TxnMisreads
<1>2. /\ blobs \in Blobs /\ Snapshot.blobs = blobs /\ op.info \in Nat
      /\ op.kind = "store" => op.hash \in Hashes
  BY <1>1, RunArguments DEF IInv, TypeOK
<1>3. CASE op.kind = "store"
  <2>1. txn'.blobs = [blobs EXCEPT ![op.hash] = op.info]
    BY <1>1, <1>2, <1>3, NoRefAssumption DEF Run, StoreTxn, Snapshot
  <2>2. h # op.hash /\ blobs[h] = NoBlob
    BY <1>2, <1>3, <2>1, NoBlobAssumption DEF Blobs
  <2>3. QED
    BY <2>2 DEF Placing
<1>4. CASE op.kind = "move"
  <2>1. txn'.blobs = blobs
    BY <1>1, <1>4 DEF Run, MoveTxn, Snapshot
  <2>2. QED
    BY <1>4, <2>1 DEF Placing
<1>5. QED
  BY <1>1, <1>3, <1>4

\* The transaction's function unlinks the file of the record it drops, and a
\* reference it could not read is a fault.
LEMMA RunLeak == ASSUME IInv, LeakInv, TxnRun \/ TxnMisreads PROVE LeakInv'
<1>1. /\ pc = "txn" /\ pc' = "commit" /\ op' = op /\ refs' = refs /\ blobs' = blobs
      /\ litter' = litter /\ unread' = unread /\ faults' \in Nat /\ faults <= faults'
      /\ \A h \in Hashes : files'[h] = IF h = txn'.victim THEN "absent" ELSE files[h]
      /\ faults \in Nat
  BY RunOutcome DEF IInv, TypeOK
<1>2. Placing' = Placing /\ Unread = unread
  BY <1>1 DEF Placing, Unread, Pending, IInv, TxnOK
<1>3. Stray' \subseteq Stray
  BY <1>1, <1>2 DEF Stray
<1>4. CASE TxnRun
  <2>1. txn' = Run(op, refs[op.dst]) /\ ~Rejected(op)
    BY <1>4 DEF TxnRun
  <2>2. txn'.unread = NoRef
    BY <1>1, <2>1, RunGood DEF Good
  <2>3. Unread' = Unread
    BY <1>1, <1>2, <2>2 DEF Unread, Pending
  <2>4. (Cardinality(Stray) + Cardinality(Unread) <= faults /\ litter <= faults)'
    BY <1>1, <1>3, <2>3, NothingLeaked
  <2>5. ASSUME NEW h \in Hashes, txn'.blobs[h] = NoBlob
        PROVE  h \notin Placing' /\ (blobs'[h] = NoBlob \/ files'[h] = "absent")
    BY <1>1, <1>2, <2>1, <2>5, RunDrops
  <2>6. QED
    BY <2>4, <2>5 DEF LeakInv
<1>5. CASE TxnMisreads
  <2> DEFINE x == <<faults', txn'.unread>>
  <2>1. faults' = faults + 1
    BY <1>5 DEF TxnMisreads, Fault
  <2>2. Unread' \subseteq Unread \cup {x}
    BY <1>1, <1>2 DEF Unread, Pending
  <2> HIDE DEF x
  <2>3. /\ IsFiniteSet(Unread \cup {x})
        /\ Cardinality(Unread \cup {x}) = IF x \in Unread THEN Cardinality(Unread)
                                         ELSE Cardinality(Unread) + 1
    BY UnreadType, FS_AddElement
  <2>4. /\ Cardinality(Unread') <= Cardinality(Unread \cup {x})
        /\ Cardinality(Unread') \in Nat
    BY <2>2, <2>3, FS_Subset, FS_CardinalityType
  <2>5. Cardinality(Stray') <= Cardinality(Stray) /\ Cardinality(Stray') \in Nat
    BY <1>3, StrayType, FS_Subset, FS_CardinalityType
  <2>6. Cardinality(Stray) + Cardinality(Unread) <= faults /\ litter <= faults /\ litter \in Nat
    BY DEF LeakInv, IInv, TypeOK
  <2>7. (Cardinality(Stray) + Cardinality(Unread) <= faults /\ litter <= faults)'
    BY <1>1, <2>1, <2>3, <2>4, <2>5, <2>6, StrayType, UnreadType
  <2>8. ASSUME NEW h \in Hashes, txn'.blobs[h] = NoBlob
        PROVE  h \notin Placing' /\ (blobs'[h] = NoBlob \/ files'[h] = "absent")
    BY <1>1, <1>2, <1>5, <2>8, MisreadDrops
  <2>9. QED
    BY <2>7, <2>8 DEF LeakInv
<1>6. QED
  BY <1>4, <1>5

\* What has no record now had none before, or its file is gone.
LEMMA CommitLeak == ASSUME IInv, LeakInv, Commit PROVE LeakInv'
<1>1. /\ pc = "commit" /\ pc' = "idle" /\ blobs' = txn.blobs /\ files' = files
      /\ litter' = litter /\ faults' = faults /\ faults \in Nat
      /\ unread' = unread \cup Pending /\ txn' = NoTxn
  BY DEF Commit, Return, NoFault, IInv, TypeOK
<1>2. Stray' \subseteq Stray /\ Unread' = Unread
  BY <1>1 DEF Stray, LeakInv, Unread, Pending, NoTxn
<1>3. (Cardinality(Stray) + Cardinality(Unread) <= faults /\ litter <= faults)'
  BY <1>1, <1>2, NothingLeaked
<1>4. QED
  BY <1>1, <1>3 DEF LeakInv

LEMMA NextLeak == IInv /\ LeakInv /\ [Next]_vars => LeakInv'
<1> SUFFICES ASSUME IInv, LeakInv, [Next]_vars PROVE LeakInv'
  OBVIOUS
<1>1. ASSUME UNCHANGED <<db, files, litter, faults, unread, txn>>,
             \/ pc = "idle" /\ pc' \notin {"commit"}
             \/ UNCHANGED <<pc, op>>
      PROVE  LeakInv'
  <2>1. Stray' \subseteq Stray /\ Unread' = Unread
    BY <1>1 DEF Stray, Placing, db, Unread, Pending
  <2>2. (Cardinality(Stray) + Cardinality(Unread) <= faults /\ litter <= faults)'
    BY <1>1, <2>1, NothingLeaked DEF IInv, TypeOK
  <2>3. QED
    BY <1>1, <2>2 DEF LeakInv, Placing, db
<1>2. CASE \E k \in Keys, h \in Hashes : StoreUpload(k, h)
  BY <1>1, <1>2 DEF StoreUpload, NoFault
<1>3. CASE StoreHit \/ StorePlace \/ StoreCopied \/ StoreCopy
  BY <1>3, StoreLeak
<1>4. CASE (\E k \in Keys : Delete(k)) \/ (\E s, d \in Keys : Move(s, d))
  BY <1>1, <1>4 DEF Delete, Move, NoFault
<1>5. CASE \E k \in Keys : Get(k)
  BY <1>1, <1>5 DEF Get, NoFault
<1>6. CASE TxnRun \/ TxnMisreads
  BY <1>6, RunLeak
<1>7. CASE Commit
  BY <1>7, CommitLeak
<1>8. CASE StoreFails \/ TxnRejected \/ TxnFails \/ CommitFails
  BY <1>8, AbortedLeak DEF StoreFails, TxnRejected, TxnFails, CommitFails, Return
<1>9. CASE Crash
  <2>1. litter' \in {litter, litter + 1}
    BY <1>9 DEF Crash, IInv, TypeOK
  <2>2. QED
    BY <1>9, <2>1, AbortedLeak DEF Crash
<1>10. CASE UNCHANGED vars
  BY <1>1, <1>10 DEF vars, db
<1>11. QED
  BY <1>2, <1>3, <1>4, <1>5, <1>6, <1>7, <1>8, <1>9, <1>10 DEF Next

-----------------------------------------------------------------------------
(* The statistics                                                          *)

Numbered(c, R) == UNION {{h} \X (1 .. c[h]) : h \in R}
OwnersOf(o, S, h) == {s \in S : o[s] = h}
CountsOwners(c, o, S, R) ==
  \A h \in R : c[h] = Cardinality(OwnersOf(o, S, h)) /\ OwnersOf(o, S, h) # {}

\* If every hash of R counts its owners in S, the counts of R add up to the size of
\* S: number the owners of each hash, and pair the hash with the number.
LEMMA CountByOwner ==
  ASSUME NEW S, IsFiniteSet(S), NEW R, NEW o \in [S -> R], NEW c,
         CountsOwners(c, o, S, R)
  PROVE  /\ Cardinality(Numbered(c, R)) = Cardinality(S)
         /\ Cardinality(R) <= Cardinality(S)
<1> DEFINE L == Numbered(c, R)
           Held(h) == OwnersOf(o, S, h)
           Num(h) == CHOOSE f : f \in Bijection(1 .. c[h], Held(h))
           F == [p \in L |-> Num(p[1])[p[2]]]
           G == [h \in R |-> CHOOSE s \in Held(h) : TRUE]
<1>1. ASSUME NEW h \in R
      PROVE  /\ Num(h) \in Bijection(1 .. c[h], Held(h))
             /\ Held(h) # {} /\ \A s \in Held(h) : s \in S /\ o[s] = h
  <2>1. IsFiniteSet(Held(h)) /\ c[h] = Cardinality(Held(h)) /\ Held(h) # {}
    BY FS_Subset DEF OwnersOf, CountsOwners
  <2>2. \E f : f \in Bijection(1 .. c[h], Held(h))
    BY <2>1, FS_CardinalityType DEF ExistsBijection
  <2>3. QED
    BY <2>1, <2>2 DEF OwnersOf
<1>2. ASSUME NEW s \in S PROVE o[s] \in R /\ s \in Held(o[s])
  BY DEF OwnersOf
<1>3. ASSUME NEW p \in L
      PROVE  p[1] \in R /\ p[2] \in 1 .. c[p[1]] /\ p = <<p[1], p[2]>>
  BY DEF Numbered
<1>4. ASSUME NEW h \in R, NEW i \in 1 .. c[h] PROVE <<h, i>> \in L
  BY DEF Numbered
<1> HIDE DEF L, Held, Num
<1>5. F \in [L -> S] /\ \A p \in L : F[p] \in Held(p[1])
  <2>1. ASSUME NEW p \in L PROVE Num(p[1])[p[2]] \in Held(p[1])
    <3>1. p[1] \in R /\ p[2] \in 1 .. c[p[1]]
      BY <1>3
    <3>2. Num(p[1]) \in [1 .. c[p[1]] -> Held(p[1])]
      BY <1>1, <3>1 DEF Bijection, Injection
    <3>3. QED
      BY <3>1, <3>2
  <2>2. QED
    BY <1>1, <1>3, <2>1
<1>6. ASSUME NEW p \in L, NEW q \in L, F[p] = F[q]
      PROVE  p = q
  <2>1. p[1] = q[1]
    BY <1>1, <1>3, <1>5, <1>6
  <2>2. Num(p[1])[p[2]] = Num(p[1])[q[2]]
    BY <1>6, <2>1
  <2>3. p[2] = q[2]
    <3>1. p[1] \in R /\ p[2] \in 1 .. c[p[1]] /\ q[2] \in 1 .. c[p[1]]
      BY <1>3, <2>1
    <3>2. /\ Num(p[1]) \in [1 .. c[p[1]] -> Held(p[1])]
          /\ IsInjective(Num(p[1]))
      BY <1>1, <3>1 DEF Bijection, Injection
    <3>3. PICK g : g = Num(p[1])
      OBVIOUS
    <3>4. DOMAIN g = 1 .. c[p[1]] /\ IsInjective(g) /\ g[p[2]] = g[q[2]]
      BY <2>2, <3>2, <3>3
    <3>5. QED
      BY <3>1, <3>4 DEF IsInjective
  <2>4. QED
    BY <1>3, <2>1, <2>3
<1>7. ASSUME NEW s \in S PROVE \E p \in L : F[p] = s
  <2>1. PICK i \in 1 .. c[o[s]] : Num(o[s])[i] = s
    BY <1>1, <1>2 DEF Bijection, Surjection
  <2>2. <<o[s], i>> \in L
    BY <1>2, <1>4
  <2>3. QED
    BY <2>1, <2>2
<1>8. Cardinality(L) = Cardinality(S)
  <2>1. F \in Injection(L, S) /\ F \in Surjection(L, S)
    BY <1>5, <1>6, <1>7 DEF Injection, Surjection, IsInjective
  <2> HIDE DEF F
  <2>2. QED
    BY <2>1, FS_Injection
<1>9. Cardinality(R) <= Cardinality(S)
  <2>1. \A h \in R : G[h] \in Held(h)
    BY <1>1
  <2>2. G \in [R -> S]
    BY <1>1, <2>1
  <2>3. \A g, h \in R : G[g] = G[h] => g = h
    BY <1>1, <2>1
  <2>4. G \in Injection(R, S)
    BY <2>2, <2>3 DEF Injection, IsInjective
  <2> HIDE DEF G
  <2>5. QED
    BY <2>4, FS_Injection
<1>10. QED
  BY <1>8, <1>9 DEF L

\* What a blob record counts: a key that refers to it, or a reference replaced unread.
Owners == ({1} \X {k \in Keys : refs[k] # NoRef}) \cup ({2} \X unread)
Owned == [s \in Owners |-> IF s[1] = 1 THEN refs[s[2]] ELSE s[2][2]]

\* Tagging the elements of a set does not change their number.
LEMMA Tagged ==
  ASSUME NEW T, IsFiniteSet(T), NEW i
  PROVE  IsFiniteSet({i} \X T) /\ Cardinality({i} \X T) = Cardinality(T)
<1> DEFINE f == [x \in T |-> <<i, x>>]
<1>1. f \in Bijection(T, {i} \X T)
  BY DEF Bijection, Injection, Surjection, IsInjective
<1> HIDE DEF f
<1>2. QED
  BY <1>1, FS_Bijection DEF ExistsBijection

LEMMA OwnersCount ==
  ASSUME TypeOK, UnreadOK
  PROVE  /\ IsFiniteSet(Owners)
         /\ Cardinality(Owners) = Cardinality({k \in Keys : refs[k] # NoRef}) + Cardinality(unread)
         /\ \A h \in Hashes : Cardinality(OwnersOf(Owned, Owners, h)) = Count(refs, unread, h)
<1> DEFINE T == {k \in Keys : refs[k] # NoRef}
<1>1. ASSUME NEW A \in SUBSET T, NEW B \in SUBSET unread
      PROVE  /\ IsFiniteSet(({1} \X A) \cup ({2} \X B))
             /\ Cardinality(({1} \X A) \cup ({2} \X B)) = Cardinality(A) + Cardinality(B)
  <2>1. IsFiniteSet(A) /\ IsFiniteSet(B)
    BY KeysAssumption, FS_Subset DEF UnreadOK
  <2>2. /\ IsFiniteSet({1} \X A) /\ Cardinality({1} \X A) = Cardinality(A)
        /\ IsFiniteSet({2} \X B) /\ Cardinality({2} \X B) = Cardinality(B)
    BY <2>1, Tagged
  <2>3. ({1} \X A) \cap ({2} \X B) = {}
    OBVIOUS
  <2>4. Cardinality(A) \in Nat /\ Cardinality(B) \in Nat
    BY <2>1, FS_CardinalityType
  <2>5. /\ IsFiniteSet(({1} \X A) \cup ({2} \X B))
        /\ Cardinality(({1} \X A) \cup ({2} \X B)) =
             Cardinality({1} \X A) + Cardinality({2} \X B)
               - Cardinality(({1} \X A) \cap ({2} \X B))
    BY <2>2, FS_Union
  <2>6. QED
    <3>1. Cardinality(({1} \X A) \cap ({2} \X B)) = 0
      BY <2>3, FS_EmptySet
    <3> HIDE DEF T
    <3>2. QED
      BY <2>2, <2>4, <2>5, <3>1
<1>2. IsFiniteSet(Owners) /\ Cardinality(Owners) = Cardinality(T) + Cardinality(unread)
  BY <1>1 DEF Owners
<1>3. ASSUME NEW h \in Hashes
      PROVE  Cardinality(OwnersOf(Owned, Owners, h)) = Count(refs, unread, h)
  <2> DEFINE A == Holders(refs, h)
             B == {x \in unread : x[2] = h}
  <2>1. A \in SUBSET T /\ B \in SUBSET unread
    BY NoRefAssumption DEF Holders
  <2>2. OwnersOf(Owned, Owners, h) = ({1} \X A) \cup ({2} \X B)
    BY <2>1 DEF Owners, Owned, Holders, OwnersOf
  <2> HIDE DEF A, B, T
  <2>3. Cardinality(OwnersOf(Owned, Owners, h)) = Cardinality(A) + Cardinality(B)
    BY <1>1, <2>1, <2>2
  <2>4. QED
    BY <2>3 DEF A, B, Count
<1>4. QED
  BY <1>2, <1>3

\* If the counts are exact, they add up to the references and those replaced unread,
\* and no more records exist than that.
LEMMA StatsAgree ==
  ASSUME TypeOK, RefCountExact, UnreadOK
  PROVE  /\ GetStats.LogicalBlobs = GetStats.TotalReferences + Cardinality(unread)
         /\ GetStats.TotalBlobs <= GetStats.LogicalBlobs
<1> DEFINE R == {h \in Hashes : blobs[h] # NoBlob}
           T == {k \in Keys : refs[k] # NoRef}
           L == Numbered(blobs, R)
<1>1. ASSUME NEW h \in Hashes
      PROVE  /\ Count(refs, unread, h) \in Nat
             /\ blobs[h] = IF Count(refs, unread, h) = 0 THEN NoBlob
                           ELSE Count(refs, unread, h)
             /\ Count(refs, unread, h) = Cardinality(OwnersOf(Owned, Owners, h))
  BY CountType, OwnersCount DEF RefCountExact, Exact, UnreadOK
<1>2. ASSUME NEW h \in R
      PROVE  /\ blobs[h] = Cardinality(OwnersOf(Owned, Owners, h))
             /\ OwnersOf(Owned, Owners, h) # {}
  BY <1>1, FS_EmptySet
<1>3. Owned \in [Owners -> R]
  <2>1. ASSUME NEW s \in Owners PROVE Owned[s] \in R
    <3>1. Owned[s] \in Hashes
      BY NoRefAssumption DEF Owners, Owned, TypeOK, Refs
    <3>2. /\ OwnersOf(Owned, Owners, Owned[s]) # {}
          /\ IsFiniteSet(OwnersOf(Owned, Owners, Owned[s]))
      BY OwnersCount, FS_Subset DEF OwnersOf
    <3>3. Cardinality(OwnersOf(Owned, Owners, Owned[s])) # 0
      BY <3>2, FS_EmptySet
    <3>4. Count(refs, unread, Owned[s]) # 0
      BY <1>1, <3>1, <3>3
    <3>5. blobs[Owned[s]] # NoBlob
      <4>1. PICK h \in Hashes : h = Owned[s]
        BY <3>1
      <4>2. blobs[h] = Count(refs, unread, h) /\ Count(refs, unread, h) \in Nat
        BY <1>1, <3>4, <4>1
      <4>3. QED
        BY <4>1, <4>2, NoBlobAssumption
    <3>6. QED
      BY <3>1, <3>5
  <2>2. QED
    BY <2>1 DEF Owned
<1>4. GetStats = [TotalBlobs |-> Cardinality(R), TotalReferences |-> Cardinality(T),
                  LogicalBlobs |-> Cardinality(L)]
  BY DEF GetStats, Numbered
<1> HIDE DEF R, T
<1>5. Cardinality(L) = Cardinality(Owners) /\ Cardinality(R) <= Cardinality(Owners)
  <2>1. \A h \in R : /\ blobs[h] = Cardinality(OwnersOf(Owned, Owners, h))
                      /\ OwnersOf(Owned, Owners, h) # {}
    BY <1>2
  <2>2. IsFiniteSet(Owners)
    BY OwnersCount
  <2>3. CountsOwners(blobs, Owned, Owners, R)
    BY <2>1 DEF CountsOwners
  <2>4. QED
    BY <1>3, <2>2, <2>3, CountByOwner
<1>6. QED
  <2>1. Cardinality(Owners) = Cardinality(T) + Cardinality(unread)
    BY OwnersCount DEF T
  <2> HIDE DEF L
  <2>2. QED
    BY <1>4, <1>5, <2>1

\* A file without references has no record, or its record counts a reference that was
\* replaced unread.
LEMMA OrphansBounded ==
  ASSUME IInv, pc = "idle"
  PROVE  Cardinality(Orphan) <= Cardinality(Stray) + Cardinality(unread)
<1> DEFINE f == [x \in unread |-> x[2]]
           I == {f[x] : x \in unread}
<1>1. IsFiniteSet(unread) /\ IsFiniteSet(Stray) /\ Cardinality(unread) \in Nat
      /\ Cardinality(Stray) \in Nat
  BY StrayType, FS_CardinalityType DEF IInv, UnreadOK
<1>2. f \in Surjection(unread, I)
  BY DEF Surjection
<1>3. IsFiniteSet(I) /\ Cardinality(I) <= Cardinality(unread) /\ Cardinality(I) \in Nat
  <2> HIDE DEF f, I
  <2> QED BY <1>1, <1>2, FS_Surjection, FS_CardinalityType
<1>4. ASSUME NEW h \in Orphan, h \notin Stray PROVE h \in I
  <2>1. h \in Hashes /\ Holders(refs, h) = {} /\ blobs[h] # NoBlob
    BY <1>4 DEF Orphan, Stray, Placing
  <2>2. Count(refs, unread, h) # 0
    BY <2>1 DEF IInv, RefCountExact, Exact
  <2>3. {x \in unread : x[2] = h} # {}
    BY <2>1, <2>2, FS_EmptySet DEF Count
  <2>4. QED
    BY <2>3
<1>5. Orphan \subseteq Stray \cup I
  BY <1>4
<1> HIDE DEF I
<1>6. /\ IsFiniteSet(Stray \cup I)
      /\ Cardinality(Stray \cup I) =
           Cardinality(Stray) + Cardinality(I) - Cardinality(Stray \cap I)
  BY <1>1, <1>3, FS_Union
<1>7. Cardinality(Stray \cap I) \in Nat
  BY <1>1, FS_Subset, FS_CardinalityType
<1>8. Cardinality(Orphan) <= Cardinality(Stray \cup I) /\ Cardinality(Orphan) \in Nat
  BY <1>5, <1>6, FS_Subset, FS_CardinalityType
<1>9. QED
  BY <1>1, <1>3, <1>6, <1>7, <1>8

\* Each fault leaks at most one blob file and one temporary file, nothing else leaks,
\* and the statistics differ by the references replaced unread, one a fault at most.
THEOREM SpaceIsAccounted == Spec => []SpaceAccounted
<1>1. Init => LeakInv
  <2> SUFFICES ASSUME Init PROVE LeakInv
    OBVIOUS
  <2>1. Stray = {} /\ Unread = {}
    BY DEF Init, Stray, Unread, Pending, NoTxn
  <2>2. QED
    BY <2>1, FS_EmptySet DEF Init, LeakInv
<1>2. IInv /\ LeakInv => SpaceAccounted
  <2> SUFFICES ASSUME IInv, LeakInv, pc = "idle"
               PROVE  /\ Cardinality(Orphan) <= faults /\ litter <= faults
                      /\ GetStats.LogicalBlobs = GetStats.TotalReferences + Cardinality(unread)
                      /\ GetStats.TotalBlobs <= GetStats.LogicalBlobs
                      /\ Cardinality(unread) <= faults
    BY DEF SpaceAccounted
  <2>1. Unread = unread
    BY DEF Unread, Pending, IInv, TxnOK
  <2>2. /\ Cardinality(Stray) + Cardinality(unread) <= faults /\ litter <= faults
        /\ Cardinality(Stray) \in Nat /\ Cardinality(unread) \in Nat /\ faults \in Nat
    BY <2>1, StrayType, FS_CardinalityType DEF LeakInv, IInv, UnreadOK, TypeOK
  <2>3. Orphan \subseteq Hashes
    BY DEF Orphan
  <2>4. Cardinality(Orphan) \in Nat
    BY <2>3, HashesAssumption, FS_Subset, FS_CardinalityType
  <2>5. Cardinality(Orphan) <= faults /\ Cardinality(unread) <= faults
    BY <2>2, <2>4, OrphansBounded
  <2>6. QED
    BY <2>2, <2>5, StatsAgree DEF IInv
<1>3. QED
  BY <1>1, <1>2, NextLeak, Inductive, PTL DEF Spec
=============================================================================
