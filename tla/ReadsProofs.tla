----------------------------- MODULE ReadsProofs -----------------------------
(***************************************************************************)
(* Listing, downloads and signed URLs, for any keys, sizes, page sizes,    *)
(* headers and lifetimes, and any writers.                                 *)
(***************************************************************************)
EXTENDS Reads, FiniteSetTheorems, WellFoundedInduction, TLAPS

-----------------------------------------------------------------------------
(* Ranges                                                                  *)

\* A header is served as RFC 7233 asks, for files of every size, but for the last bytes of
\* an empty file, for which parseRange gives the range 0 to -1.
THEOREM RangesExact ==
  ASSUME NEW size \in Nat, NEW h \in Headers, Fits(h)
  PROVE  ParsesExactly(h, size)
<1>1. CASE h = Malformed
  BY <1>1 DEF ParsesExactly, parseRange, Slice, Selected
<1>2. CASE h # Malformed
  <2>1. PICK f \in Numbers, l \in Numbers : h = [first |-> f, last |-> l]
    BY <1>2 DEF Headers
  <2>2. h.first = f /\ h.last = l
    BY <2>1
  <2>3. (f # Absent => f \in Nat /\ f <= MaxInt) /\ (l # Absent => l \in Nat /\ l <= MaxInt)
    BY <1>2, <2>2 DEF Fits, Numbers
  <2>4. CASE f = Absent
    <3>1. parseRange(h, size) = SuffixRange(l, size)
      BY <1>2, <2>2, <2>4 DEF parseRange
    <3>2. Selected(h, size) = {b \in Bytes(size) : l # Absent /\ b >= size - l}
      BY <1>2, <2>2, <2>4 DEF Selected
    <3>3. CASE l = Absent \/ l = 0
      <4>1. SuffixRange(l, size) = Refused
        BY <2>3, <3>3 DEF SuffixRange, Parses
      <4>2. Selected(h, size) = {}
        BY <3>2, <3>3 DEF Bytes
      <4> QED  BY <3>1, <4>1, <4>2 DEF ParsesExactly, Slice
    <3>4. CASE l # Absent /\ l # 0
      <4> DEFINE s == IF size < l THEN 0 ELSE size - l
      <4>1. SuffixRange(l, size) = [start |-> s, end |-> size - 1]
        BY <2>3, <3>4 DEF SuffixRange, Parses
      <4>2. s \in Int /\ 0 <= s /\ (s <= size - 1 \/ size = 0)
        BY <2>3, <3>4
      <4>5. EmptySuffix(h, size) \/ size # 0
        BY <1>2, <2>2, <2>4 DEF EmptySuffix
      <4>3. s .. size - 1 = Selected(h, size)
        BY <2>3, <3>2, <3>4 DEF Bytes
      <4>4. [start |-> s, end |-> size - 1] # Refused
        BY <4>2, RefusedAssumption
      <4> HIDE DEF s
      <4> QED  BY <3>1, <4>1, <4>2, <4>3, <4>4, <4>5 DEF ParsesExactly, Slice
    <3> QED  BY <3>3, <3>4
  <2>5. CASE f # Absent
    <3>1. parseRange(h, size) = FromRange(f, l, size)
      BY <1>2, <2>2, <2>5 DEF parseRange
    <3>2. Selected(h, size) = {b \in Bytes(size) : b >= f /\ (l # Absent => b <= l)}
      BY <1>2, <2>2, <2>5 DEF Selected
    <3>3. CASE f >= size \/ (l # Absent /\ l < f)
      <4>1. FromRange(f, l, size) = Refused
        BY <2>3, <2>5, <3>3 DEF FromRange, Parses
      <4>2. Selected(h, size) = {}
        BY <2>3, <2>5, <3>2, <3>3 DEF Bytes
      <4> QED  BY <3>1, <4>1, <4>2 DEF ParsesExactly, Slice
    <3>4. CASE f < size /\ (l # Absent => l >= f)
      <4> DEFINE e == IF l = Absent \/ l >= size THEN size - 1 ELSE l
      <4>1. FromRange(f, l, size) = [start |-> f, end |-> e]
        BY <2>3, <2>5, <3>4 DEF FromRange, Parses
      <4>2. e \in Int /\ f \in Int /\ 0 <= f /\ f <= e /\ e < size
        BY <2>3, <2>5, <3>4
      <4>3. f .. e = Selected(h, size)
        BY <2>3, <2>5, <3>2, <3>4 DEF Bytes
      <4>4. [start |-> f, end |-> e] # Refused
        BY <4>2, RefusedAssumption
      <4> HIDE DEF e
      <4> QED  BY <3>1, <4>1, <4>2, <4>3, <4>4 DEF ParsesExactly, Slice
    <3> QED  BY <2>3, <2>5, <3>3, <3>4
  <2> QED  BY <2>4, <2>5
<1> QED  BY <1>1, <1>2

\* A number that does not fit into 64 bits is refused, wherever it stands.
LEMMA UnfitRefused ==
  ASSUME NEW size \in Nat, NEW h \in Headers, ~Fits(h)
  PROVE  parseRange(h, size) = Refused
<1>1. h # Malformed
  BY DEF Fits
<1>2. PICK f \in Numbers, l \in Numbers : h.first = f /\ h.last = l
  BY <1>1 DEF Headers
<1>3. (f # Absent /\ ~Parses(f)) \/ (l # Absent /\ ~Parses(l))
  BY <1>1, <1>2, MaxIntAssumption DEF Fits, Parses, Numbers
<1>4. CASE f = Absent
  BY <1>1, <1>2, <1>3, <1>4 DEF parseRange, SuffixRange
<1>5. CASE f # Absent
  BY <1>1, <1>2, <1>3, <1>5 DEF parseRange, FromRange
<1> QED  BY <1>4, <1>5

-----------------------------------------------------------------------------
(* One page of a listing                                                   *)

\* A set of natural numbers has a least one.
LEMMA Least ==
  ASSUME NEW S \in SUBSET Nat, S # {}
  PROVE  \E k \in S : \A j \in S : k <= j
<1>1. PICK k \in S : \A j \in S : <<j, k>> \notin OpToRel(<, Nat)
  BY WFMin, NatLessThanWellFounded, Zenon
<1>2. \A j \in S : ~(j < k)
  <2>1. \A j \in S : <<j, k>> \in Nat \X Nat /\ <<j, k>>[1] = j /\ <<j, k>>[2] = k
    OBVIOUS
  <2> QED  BY <1>1, <2>1, Zenon DEF OpToRel
<1>3. \A j \in S : k <= j
  BY <1>2
<1> QED  BY <1>3

UpTo(S, k) == {j \in S : j <= k}

\* The keys up to a greater one are more.
LEMMA UpToGrows ==
  ASSUME NEW S \in SUBSET Keys, NEW j \in S, NEW k \in S
  PROVE  /\ Cardinality(UpTo(S, j)) \in Nat /\ Cardinality(UpTo(S, k)) \in Nat
         /\ Cardinality(UpTo(S, j)) <= Cardinality(S)
         /\ j <= k => Cardinality(UpTo(S, j)) <= Cardinality(UpTo(S, k))
         /\ j < k => Cardinality(UpTo(S, j)) < Cardinality(UpTo(S, k))
<1>1. S \subseteq Nat /\ IsFiniteSet(S)
  BY KeysAssumption, FS_Subset
<1>2. IsFiniteSet(UpTo(S, j)) /\ IsFiniteSet(UpTo(S, k)) /\ Cardinality(UpTo(S, j)) <= Cardinality(S)
  BY <1>1, FS_Subset DEF UpTo
<1>3. Cardinality(UpTo(S, j)) \in Nat /\ Cardinality(UpTo(S, k)) \in Nat
  BY <1>2, FS_CardinalityType
<1>4. ASSUME j <= k  PROVE UpTo(S, j) \in SUBSET UpTo(S, k)
  <2> SUFFICES ASSUME NEW x \in S, x <= j  PROVE x <= k
    BY DEF UpTo
  <2>1. x \in Nat /\ j \in Nat /\ k \in Nat
    BY <1>1
  <2> QED  BY <1>4, <2>1
<1>5. j <= k => Cardinality(UpTo(S, j)) <= Cardinality(UpTo(S, k))
  BY <1>2, <1>4, FS_Subset
<1>6. ASSUME j < k  PROVE Cardinality(UpTo(S, j)) < Cardinality(UpTo(S, k))
  <2>1. j <= k /\ k \in UpTo(S, k) /\ k \notin UpTo(S, j)
    BY <1>1, <1>6 DEF UpTo
  <2>2. UpTo(S, j) # UpTo(S, k)
    BY <2>1
  <2>3. Cardinality(UpTo(S, j)) # Cardinality(UpTo(S, k))
    BY <1>2, <1>4, <2>1, <2>2, FS_Subset
  <2> QED  BY <1>3, <1>5, <2>1, <2>3
<1> QED  BY <1>2, <1>3, <1>5, <1>6

\* A finite set of keys has a greatest.
LEMMA GreatestIs ==
  ASSUME NEW S \in SUBSET Keys, S # {}
  PROVE  Greatest(S) \in S /\ \A j \in S : j <= Greatest(S)
<1> DEFINE above(k) == Cardinality(S) - Cardinality(UpTo(S, k))
           D == {above(k) : k \in S}
<1>1. Cardinality(S) \in Nat /\ S \subseteq Nat
  BY KeysAssumption, FS_Subset, FS_CardinalityType
<1>2. \A k \in S : above(k) \in Nat
  BY <1>1, UpToGrows
<1>3. PICK k \in S : \A j \in S : above(k) <= above(j)
  <2>1. D \in SUBSET Nat /\ D # {}
    BY <1>2
  <2>2. PICK d \in D : \A e \in D : d <= e
    <3> HIDE DEF D
    <3> QED  BY <2>1, Least
  <2> QED  BY <2>2
<1>4. ASSUME NEW j \in S  PROVE j <= k
  <2>1. above(k) <= above(j)
    BY <1>3
  <2>2. /\ Cardinality(UpTo(S, j)) \in Nat /\ Cardinality(UpTo(S, k)) \in Nat
        /\ k < j => Cardinality(UpTo(S, k)) < Cardinality(UpTo(S, j))
    BY UpToGrows
  <2>3. ~(k < j)
    BY <1>1, <2>1, <2>2
  <2> QED  BY <1>1, <2>3
<1>5. \E x \in S : \A j \in S : j <= x
  BY <1>4
<1> QED  BY <1>5 DEF Greatest

\* The first n keys, if they are not all, end somewhere and leave out none before that.
LEMMA FirstOfFacts ==
  ASSUME NEW S \in SUBSET Keys, NEW n \in Nat \ {0}, FirstOf(S, n) # S
  PROVE  /\ Greatest(FirstOf(S, n)) \in FirstOf(S, n)
         /\ \A k \in FirstOf(S, n) : k <= Greatest(FirstOf(S, n))
         /\ \A k \in S : k <= Greatest(FirstOf(S, n)) => k \in FirstOf(S, n)
<1> DEFINE F == FirstOf(S, n)
<1>1. F \subseteq S /\ S # {} /\ S \subseteq Nat
  BY KeysAssumption DEF FirstOf
<1>2. F = {k \in S : Cardinality(UpTo(S, k)) <= n}
  BY DEF FirstOf, UpTo
<1> HIDE DEF F
<1>3. F # {}
  <2>1. PICK k \in S : \A j \in S : k <= j
    BY <1>1, Least
  <2>2. UpTo(S, k) = {k}
    <3>1. k <= k /\ \A j \in S : j <= k => j = k
      BY <1>1, <2>1
    <3> QED  BY <3>1 DEF UpTo
  <2>3. Cardinality(UpTo(S, k)) = 1
    BY <2>2, FS_Singleton
  <2>4. k \in F
    BY <1>2, <2>3
  <2> QED  BY <2>4
<1>4. F \in SUBSET Keys
  BY <1>1
<1>5. Greatest(F) \in F /\ \A k \in F : k <= Greatest(F)
  BY <1>3, <1>4, GreatestIs
<1>6. ASSUME NEW k \in S, k <= Greatest(F)  PROVE k \in F
  <2>1. PICK g \in S : g = Greatest(F) /\ g \in F
    BY <1>1, <1>5
  <2>2. /\ Cardinality(UpTo(S, k)) \in Nat /\ Cardinality(UpTo(S, g)) \in Nat
        /\ k <= g => Cardinality(UpTo(S, k)) <= Cardinality(UpTo(S, g))
    BY UpToGrows
  <2>3. Cardinality(UpTo(S, g)) <= n
    BY <1>2, <2>1
  <2>4. Cardinality(UpTo(S, k)) <= n
    BY <1>6, <2>1, <2>2, <2>3
  <2> QED  BY <1>2, <2>4
<1> QED  BY <1>5, <1>6 DEF F

\* The keys and prefixes of a page come after the marker, and it has everything
\* up to the next marker, or to the end.
GoodPage(p, S, m, delimiter) ==
  /\ \A k \in p.keys : k \in S /\ m < k /\ (delimiter => Dir[k] = None)
  /\ \A d \in p.prefixes : d # None /\ \E k \in S : Dir[k] = d
  /\ p.next = 0 \/ (p.next \in Keys /\ m < p.next /\ \A k \in p.keys : k <= p.next)
  /\ \A k \in S : m < k /\ (p.next = 0 \/ k <= p.next) =>
       IF delimiter /\ Dir[k] # None THEN Dir[k] \in p.prefixes ELSE k \in p.keys

LEMMA PageFacts ==
  ASSUME NEW S \in SUBSET Keys, NEW m \in Nat, NEW n \in Nat \ {0}, NEW delimiter \in BOOLEAN
  PROVE  GoodPage(Page(S, m, n, delimiter), S, m, delimiter)
<1> DEFINE p == Page(S, m, n, delimiter)
           rest == After(S, m)
           own == IF delimiter THEN {k \in rest : Dir[k] = None} ELSE rest
           keys == FirstOf(own, n)
<1>1. /\ p.keys = keys
      /\ p.prefixes = IF delimiter THEN {Dir[k] : k \in rest} \ {None} ELSE {}
      /\ p.next = IF keys = own THEN 0 ELSE Greatest(keys)
  BY DEF Page
<1> HIDE DEF p
<1>2. rest = {k \in S : k > m}
  BY DEF After
<1>3. \A k : k \in own <=> k \in rest /\ (delimiter => Dir[k] = None)
  OBVIOUS
<1>4. keys \subseteq own
  BY DEF FirstOf
<1>5. S \subseteq Nat \ {0} /\ own \in SUBSET Keys
  BY <1>2, KeysAssumption
<1> HIDE DEF rest, own
<1>6. keys # own => /\ Greatest(keys) \in keys
                    /\ \A k \in keys : k <= Greatest(keys)
                    /\ \A k \in own : k <= Greatest(keys) => k \in keys
  BY <1>5, FirstOfFacts
<1> HIDE DEF keys
<1>7. \A k \in S : k > m <=> m < k
  BY <1>5
<1>8. \A k \in p.keys : k \in S /\ m < k /\ (delimiter => Dir[k] = None)
  BY <1>1, <1>2, <1>3, <1>4, <1>7
<1>9. \A d \in p.prefixes : d # None /\ \E k \in S : Dir[k] = d
  BY <1>1, <1>2
<1>10. p.next = 0 \/ (p.next \in Keys /\ m < p.next /\ \A k \in p.keys : k <= p.next)
  BY <1>1, <1>5, <1>6, <1>8
<1>11. ASSUME NEW k \in S, m < k, p.next = 0 \/ k <= p.next
       PROVE  IF delimiter /\ Dir[k] # None THEN Dir[k] \in p.prefixes ELSE k \in p.keys
  <2>1. k \in rest
    BY <1>2, <1>7, <1>11
  <2>2. CASE delimiter /\ Dir[k] # None
    BY <1>1, <2>1, <2>2
  <2>3. CASE ~(delimiter /\ Dir[k] # None)
    <3>1. k \in own
      BY <1>3, <2>1, <2>3
    <3>2. CASE keys = own
      BY <1>1, <2>3, <3>1, <3>2
    <3>3. CASE keys # own
      <4>1. Greatest(keys) # 0 /\ p.next = Greatest(keys)
        <5>1. Greatest(keys) \in S
          BY <1>2, <1>3, <1>4, <1>6, <3>3
        <5>2. Greatest(keys) # 0
          BY <1>5, <5>1
        <5> QED  BY <1>1, <3>3, <5>2
      <4>2. k \in keys
        BY <1>6, <1>11, <3>1, <3>3, <4>1
      <4> QED  BY <1>1, <2>3, <4>2
    <3> QED  BY <3>2, <3>3
  <2> QED  BY <2>2, <2>3
<1> QED  BY <1>8, <1>9, <1>10, <1>11 DEF GoodPage, p

-----------------------------------------------------------------------------
(* The inductive invariant                                                 *)

ListSessions ==
  [kind : {"list"}, pc : {"ask", "walk", "done"}, max : 1..MostKeys, delimiter : BOOLEAN,
   marker : Keys \cup {0}, keys : SUBSET Keys, prefixes : SUBSET ({Dir[k] : k \in Keys} \ {None}),
   again : {FALSE}, steady : SUBSET Keys, ever : SUBSET Keys, whole : SUBSET Keys,
   some : SUBSET Keys, torn : BOOLEAN]

\* Where a range was asked for, the answer tells which and of what.
Answers ==
  [status : {0, 200, 304, 404}]
    \cup [status : {416}, range : RangeHeaders, body : Files]
    \cup [status : {206}, range : RangeHeaders, body : Files, start : Int, end : Int]

GetSessions ==
  [kind : {"get"}, pc : {"ask", "open", "head"}, key : Keys, fd : Files \cup {None},
   range : RangeHeaders \cup {None}, match : Tags \cup {None},
   known : SUBSET [tag : Tags, body : Files], answer : Answers, gets : Nat]

Statuses == {0, 200, 404, 410}

UrlSessions ==
  [kind : {"url"}, pc : {"ask", "open"}, key : Keys, asked : Lifetimes, made : Nat, exp : Nat,
   at : Nat, status : Statuses]

Types ==
  /\ now \in 1..In.time /\ ops \in 0..In.ops
  /\ file \in [Keys -> Files \cup {None}]
  /\ ses \in {Idle(kind) : kind \in Kinds} \cup ListSessions \cup GetSessions \cup UrlSessions

\* The listing has key k, or the prefix it is rolled up into.
Has(k) == IF ses.delimiter /\ Dir[k] # None THEN Dir[k] \in ses.prefixes ELSE k \in ses.keys

\* What the listing has so far is up to the marker, and up to there it has
\* everything; the walk finds what is there all the time and nothing that
\* never is.
ListOK ==
  /\ ses.steady \subseteq Present /\ Present \subseteq ses.ever
  /\ ses.pc = "walk" => /\ ses.steady \subseteq ses.whole /\ ses.whole \subseteq ses.some
                        /\ ses.some \subseteq ses.ever
  /\ ses.delimiter => \A k \in ses.keys : Dir[k] = None
  /\ ses.keys \subseteq ses.ever
  /\ \A d \in ses.prefixes : \E k \in ses.ever : Dir[k] = d
  /\ ses.pc # "done" => \A k \in ses.keys : k <= ses.marker
  /\ \A k \in ses.steady : ses.pc = "done" \/ k <= ses.marker => Has(k)

\* A tag belongs to the version it came with; a request in progress has its file.
GetOK ==
  /\ ses.pc = "open" => ses.fd \in Files
  /\ \A p \in ses.known : p.tag = Tag(p.body)
  /\ RangesServed

\* The expiry is what was computed; a URL is served until then and not after.
UrlOK ==
  /\ ses.exp = ExpiryOf(ses.made + Lifetime(ses.asked))
  /\ ses.status \in {200, 404} \/ ses.pc = "open" => ses.at <= ses.exp * TicksPerSecond
  /\ ses.pc = "open" => ses.status = 0
  /\ ses.status = 410 => ses.at > ses.exp * TicksPerSecond

IInv == /\ Types
        /\ Begun("list") => ListOK
        /\ Begun("get") => GetOK
        /\ Begun("url") => UrlOK


\* What kind of session it is, and its bounds.
LEMMA Facts ==
  ASSUME Types
  PROVE  /\ ses.kind \in Kinds
         /\ In.keys \subseteq Keys /\ In.sizes \subseteq Nat
         /\ In.time \in Nat \ {0} /\ In.ops \in Nat
         /\ Begun("list") => ses \in ListSessions
         /\ Begun("get") => ses \in GetSessions
         /\ Begun("url") => ses \in UrlSessions
<1>1. ses.kind \in Kinds
  <2>1. ses \in ListSessions \cup GetSessions \cup UrlSessions => ses.kind \in Kinds
    BY DEF Kinds, ListSessions, GetSessions, UrlSessions
  <2>2. \A kind \in Kinds : Idle(kind).kind \in Kinds
    BY DEF Idle
  <2> QED  BY <2>1, <2>2 DEF Types
<1>2. In \in [keys : SUBSET Keys, sizes : SUBSET Nat, time : Nat \ {0}, ops : Nat]
  BY <1>1, ScopeAssumption DEF In
<1>3. ASSUME ses.pc # "idle"
      PROVE  ses \in ListSessions \cup GetSessions \cup UrlSessions
  BY <1>3 DEF Types, Idle
<1>4. /\ ses \in ListSessions => ses.kind = "list"
      /\ ses \in GetSessions => ses.kind = "get"
      /\ ses \in UrlSessions => ses.kind = "url"
  BY DEF ListSessions, GetSessions, UrlSessions
<1> QED  BY <1>1, <1>2, <1>3, <1>4 DEF Begun

\* The kind decides the types.
LEMMA KindStays ==
  ASSUME ses'.kind = ses.kind
  PROVE  In' = In /\ Files' = Files /\ Tags' = Tags /\ GetSessions' = GetSessions
<1>1. In' = In
  BY DEF In
<1>2. Files' = Files /\ Tags' = Tags
  BY <1>1 DEF Files, Tags
<1>3. Answers' = Answers
  BY <1>2 DEF Answers
<1> QED  BY <1>1, <1>2, <1>3 DEF GetSessions

\* There is a session that has not begun.
LEMMA InitGood == Init => IInv
<1> SUFFICES ASSUME Init  PROVE IInv
  OBVIOUS
<1> USE DEF Init
<1>1. PICK kind \in Kinds : ses = Idle(kind)
  OBVIOUS
<1>2. ses.kind \in Kinds /\ ses.pc = "idle"
  BY <1>1 DEF Idle
<1>3. In \in [keys : SUBSET Keys, sizes : SUBSET Nat, time : Nat \ {0}, ops : Nat]
  BY <1>2, ScopeAssumption DEF In
<1>4. now \in 1..In.time /\ ops \in 0..In.ops
  BY <1>3
<1>5. PICK S \in SUBSET In.keys, s \in In.sizes :
        file = [k \in Keys |-> IF k \in S THEN [upload |-> 0, size |-> s, mtime |-> 0] ELSE None]
  OBVIOUS
<1>6. [upload |-> 0, size |-> s, mtime |-> 0] \in Files
  BY <1>3 DEF Files
<1>7. file \in [Keys -> Files \cup {None}]
  BY <1>5, <1>6
<1> QED  BY <1>1, <1>2, <1>4, <1>7 DEF IInv, Types, Begun

-----------------------------------------------------------------------------
(* The steps of the writers                                                *)

\* A change of the files is watched by a listing and leaves the other sessions alone.
LEMMA ChangeGood ==
  ASSUME IInv, NEW f \in [Keys -> Files \cup {None}], Change(f)
  PROVE  IInv'
<1> USE DEF IInv
<1>1. /\ ops < In.ops /\ ops' = ops + 1 /\ file' = f /\ ses' = Watched(f) /\ now' = now
  BY DEF Change
<1>2. ops \in 0..In.ops /\ now \in 1..In.time /\ In.ops \in Nat
  BY Facts DEF Types
<1>3. CASE ~Begun("list")
  <2>1. ses' = ses
    BY <1>1, <1>3 DEF Watched
  <2>2. In' = In /\ Files' = Files /\ Tags' = Tags /\ GetSessions' = GetSessions
    BY <2>1, KindStays
  <2>3. Types'
    BY <1>1, <1>2, <2>1, <2>2 DEF Types
  <2>4. GetOK => GetOK'
    BY <2>1, <2>2 DEF GetOK, RangesServed, Begun, Tag
  <2>5. UrlOK => UrlOK'
    BY <2>1 DEF UrlOK
  <2>6. \A kind : Begun(kind)' <=> Begun(kind)
    BY <2>1 DEF Begun
  <2> QED  BY <1>3, <2>3, <2>4, <2>5, <2>6
<1>4. CASE Begun("list")
  <2> DEFINE P == PresentIn(f)
  <2>1. ses \in ListSessions /\ ListOK
    BY <1>4, Facts
  <2>2. ses' = [ses EXCEPT !.steady = @ \cap P, !.ever = @ \cup P, !.whole = @ \cap P,
                           !.some = @ \cup P, !.torn = @ \/ Present \ P # {}]
    BY <1>1, <1>4 DEF Watched
  <2>3. P \in SUBSET Keys /\ P = Present'
    BY <1>1 DEF PresentIn, Present
  <2> HIDE DEF P
  <2>4. /\ ses'.kind = ses.kind /\ ses'.pc = ses.pc /\ ses'.delimiter = ses.delimiter
        /\ ses'.marker = ses.marker /\ ses'.keys = ses.keys /\ ses'.prefixes = ses.prefixes
        /\ ses'.steady = ses.steady \cap P /\ ses'.ever = ses.ever \cup P
        /\ ses'.whole = ses.whole \cap P /\ ses'.some = ses.some \cup P
    BY <2>1, <2>2 DEF ListSessions
  <2>5. ses' \in ListSessions
    BY <2>1, <2>2, <2>3 DEF ListSessions
  <2>6. In' = In /\ Files' = Files /\ GetSessions' = GetSessions
    BY <2>4, KindStays
  <2>7. Types'
    BY <1>1, <1>2, <2>5, <2>6 DEF Types
  <2>8. ListOK'
    <3>1. \A k : Has(k)' <=> Has(k)
      BY <2>4 DEF Has
    <3>2. ses'.steady \subseteq P /\ P \subseteq ses'.ever
      BY <2>4
    <3>3. ses'.pc = "walk" => /\ ses'.steady \subseteq ses'.whole /\ ses'.whole \subseteq ses'.some
                              /\ ses'.some \subseteq ses'.ever
      BY <2>1, <2>4 DEF ListOK
    <3>4. /\ ses'.delimiter => \A k \in ses'.keys : Dir[k] = None
          /\ ses'.keys \subseteq ses'.ever
          /\ \A d \in ses'.prefixes : \E k \in ses'.ever : Dir[k] = d
          /\ ses'.pc # "done" => \A k \in ses'.keys : k <= ses'.marker
      BY <2>1, <2>4 DEF ListOK
    <3>5. \A k \in ses'.steady : ses'.pc = "done" \/ k <= ses'.marker => Has(k)
      BY <2>1, <2>4 DEF ListOK
    <3> QED  BY <2>3, <3>1, <3>2, <3>3, <3>4, <3>5 DEF ListOK
  <2>9. ~Begun("get")' /\ ~Begun("url")'
    BY <1>4, <2>4 DEF Begun
  <2> QED  BY <2>7, <2>8, <2>9
<1> QED  BY <1>3, <1>4

LEMMA WritersGood ==
  ASSUME IInv, Writers
  PROVE  IInv'
<1>1. /\ now \in 1..In.time /\ ops \in 0..In.ops /\ file \in [Keys -> Files \cup {None}]
      /\ In.keys \subseteq Keys /\ In.time \in Nat /\ In.ops \in Nat
  BY Facts DEF IInv, Types
<1>2. ASSUME NEW k \in In.keys, NEW s \in In.sizes, NEW t \in {now - 1, now}, Upload(k, s, t)
      PROVE  IInv'
  <2> DEFINE n == [upload |-> ops + 1, size |-> s, mtime |-> t]
             f == [file EXCEPT ![k] = n]
  <2>1. Change(f)
    BY <1>2 DEF Upload
  <2>2. ops < In.ops
    BY <2>1 DEF Change
  <2>3. ops + 1 \in 0..In.ops /\ t \in 0..In.time
    BY <1>1, <2>2
  <2>4. n \in Files
    BY <2>3 DEF Files
  <2> HIDE DEF n
  <2>5. f \in [Keys -> Files \cup {None}]
    BY <1>1, <2>4
  <2> HIDE DEF f
  <2> QED  BY <2>1, <2>5, ChangeGood
<1>3. ASSUME NEW k \in In.keys, Delete(k)
      PROVE  IInv'
  <2>1. [file EXCEPT ![k] = None] \in [Keys -> Files \cup {None}]
    BY <1>1
  <2> QED  BY <1>3, <2>1, ChangeGood DEF Delete
<1>4. ASSUME NEW j \in In.keys, NEW k \in In.keys, Move(j, k)
      PROVE  IInv'
  <2>1. file[j] \in Files \cup {None}
    BY <1>1
  <2>2. [file EXCEPT ![j] = None, ![k] = file[j]] \in [Keys -> Files \cup {None}]
    BY <1>1, <2>1
  <2> QED  BY <1>4, <2>2, ChangeGood DEF Move
<1> QED  BY <1>2, <1>3, <1>4 DEF Writers

\* Time passes, or nothing does.
LEMMA TickGood ==
  ASSUME IInv, Tick \/ UNCHANGED vars
  PROVE  IInv'
<1> USE DEF IInv
<1>1. ses' = ses /\ file' = file /\ ops' = ops
  BY DEF Tick, vars
<1>2. In' = In /\ Files' = Files /\ Tags' = Tags /\ GetSessions' = GetSessions
  BY <1>1, KindStays
<1>3. now' \in 1..In.time
  BY Facts DEF Types, Tick, vars
<1>4. Types'
  BY <1>1, <1>2, <1>3 DEF Types
<1>5. ListOK => ListOK'
  BY <1>1 DEF ListOK, Has, Present, PresentIn
<1>6. GetOK => GetOK'
  BY <1>1, <1>2 DEF GetOK, RangesServed, Begun, Tag
<1>7. UrlOK => UrlOK'
  BY <1>1 DEF UrlOK
<1>8. \A kind : Begun(kind)' <=> Begun(kind)
  BY <1>1 DEF Begun
<1> QED  BY <1>4, <1>5, <1>6, <1>7, <1>8


-----------------------------------------------------------------------------
(* The steps of a listing                                                  *)

\* A step of a session leaves the files, and the other kinds of sessions, alone.
LEMMA SessionStep ==
  ASSUME Types, UNCHANGED <<now, file, ops>>, ses'.kind = ses.kind,
         ses' \in ListSessions \cup GetSessions \cup UrlSessions
  PROVE  Types'
<1>1. In' = In /\ Files' = Files /\ Tags' = Tags /\ GetSessions' = GetSessions
  BY KindStays
<1> QED  BY <1>1 DEF Types

LEMMA ListBeginGood ==
  ASSUME IInv, NEW n \in PageSizes, NEW delimiter \in BOOLEAN, ListBegin(n, delimiter)
  PROVE  IInv'
<1> USE DEF IInv
<1>1. /\ ses = Idle("list") /\ UNCHANGED <<now, file, ops>>
      /\ ses' = [kind |-> "list", pc |-> "ask", max |-> Clamp(n), delimiter |-> delimiter,
                 marker |-> 0, keys |-> {}, prefixes |-> {}, again |-> FALSE,
                 steady |-> Present, ever |-> Present,
                 whole |-> {}, some |-> {}, torn |-> FALSE]
  BY DEF ListBegin
<1>2. Clamp(n) \in 1..MostKeys
  <2>1. n \in Int /\ DefaultKeys \in 1..MostKeys /\ MostKeys \in Nat \ {0}
    BY InputsAssumption, LimitsAssumption
  <2> QED  BY <2>1 DEF Clamp
<1>3. Present \in SUBSET Keys /\ Present' = Present
  BY <1>1 DEF Present, PresentIn
<1>4. ses' \in ListSessions /\ ses'.kind = "list" /\ ses'.pc = "ask" /\ ses'.keys = {} /\ ses'.prefixes = {}
      /\ ses'.marker = 0 /\ ses'.steady = Present /\ ses'.ever = Present
  BY <1>1, <1>2, <1>3 DEF ListSessions
<1>5. Types'
  BY <1>1, <1>4, SessionStep DEF Idle
<1>6. \A k \in Keys : ~(k <= 0)
  BY KeysAssumption
<1>7. ListOK'
  BY <1>3, <1>4, <1>6 DEF ListOK
<1> QED  BY <1>4, <1>5, <1>7 DEF Begun

LEMMA WalkBeginGood ==
  ASSUME IInv, WalkBegin
  PROVE  IInv'
<1> USE DEF IInv
<1>1. /\ ses.kind = "list" /\ ses.pc = "ask" /\ UNCHANGED <<now, file, ops>>
      /\ ses' = [ses EXCEPT !.pc = "walk", !.whole = Present, !.some = Present, !.torn = FALSE]
  BY DEF WalkBegin, Is
<1>2. ses \in ListSessions /\ ListOK
  BY <1>1, Facts DEF Begun
<1>3. Present \in SUBSET Keys /\ Present' = Present
  BY <1>1 DEF Present, PresentIn
<1>4. /\ ses' \in ListSessions
      /\ ses'.kind = ses.kind /\ ses'.pc = "walk" /\ ses'.delimiter = ses.delimiter
      /\ ses'.marker = ses.marker /\ ses'.keys = ses.keys /\ ses'.prefixes = ses.prefixes
      /\ ses'.steady = ses.steady /\ ses'.ever = ses.ever
      /\ ses'.whole = Present /\ ses'.some = Present
  BY <1>1, <1>2, <1>3 DEF ListSessions
<1>5. Types'
  BY <1>1, <1>4, SessionStep
<1>6. \A k : Has(k)' <=> Has(k)
  BY <1>4 DEF Has
<1>7. ListOK'
  BY <1>1, <1>2, <1>3, <1>4, <1>6 DEF ListOK
<1> QED  BY <1>1, <1>4, <1>5, <1>7 DEF Begun

LEMMA WalkFailsGood ==
  ASSUME IInv, WalkFails
  PROVE  IInv'
<1> USE DEF IInv
<1>1. /\ ses.kind = "list" /\ ses.pc = "walk" /\ UNCHANGED <<now, file, ops>>
      /\ ses' = [ses EXCEPT !.pc = "ask"]
  BY DEF WalkFails, Is
<1>2. ses \in ListSessions /\ ListOK
  BY <1>1, Facts DEF Begun
<1>3. Present' = Present
  BY <1>1 DEF Present, PresentIn
<1>4. /\ ses' \in ListSessions
      /\ ses'.kind = ses.kind /\ ses'.pc = "ask" /\ ses'.delimiter = ses.delimiter
      /\ ses'.marker = ses.marker /\ ses'.keys = ses.keys /\ ses'.prefixes = ses.prefixes
      /\ ses'.steady = ses.steady /\ ses'.ever = ses.ever
  BY <1>1, <1>2 DEF ListSessions
<1>5. Types'
  BY <1>1, <1>4, SessionStep
<1>6. \A k : Has(k)' <=> Has(k)
  BY <1>4 DEF Has
<1>7. ListOK'
  BY <1>1, <1>2, <1>3, <1>4, <1>6 DEF ListOK
<1> QED  BY <1>1, <1>4, <1>5, <1>7 DEF Begun

\* The page goes on where the one before ended and leaves nothing out that is there.
LEMMA WalkEndGood ==
  ASSUME IInv, WalkEnd
  PROVE  IInv'
<1> USE DEF IInv
<1>1. ses.kind = "list" /\ ses.pc = "walk" /\ UNCHANGED <<now, file, ops>>
  BY DEF WalkEnd, Is
<1>2. ses \in ListSessions /\ ListOK
  BY <1>1, Facts DEF Begun
<1>3. PICK S \in SUBSET ses.some :
        /\ ses.whole \subseteq S
        /\ LET p == Page(S, ses.marker, ses.max, ses.delimiter)
           IN  ses' = [ses EXCEPT !.pc = IF p.next = 0 THEN "done" ELSE "ask",
                                  !.marker = p.next,
                                  !.keys = @ \cup p.keys,
                                  !.prefixes = @ \cup p.prefixes,
                                  !.again = @ \/ ses.keys \cap p.keys # {}]
  BY DEF WalkEnd
<1>4. PICK p : p = Page(S, ses.marker, ses.max, ses.delimiter)
  OBVIOUS
<1>5. /\ ses.marker \in Nat /\ ses.max \in Nat \ {0} /\ ses.delimiter \in BOOLEAN
      /\ S \in SUBSET Keys /\ ses.keys \subseteq Keys /\ Keys \subseteq Nat
      /\ ses.steady \subseteq S /\ S \subseteq ses.ever /\ ses.steady \subseteq Keys
  <2>1. ses.max \in 1..MostKeys /\ MostKeys \in Nat
    BY <1>2, LimitsAssumption DEF ListSessions
  <2>2. ses.max \in Nat \ {0}
    BY <2>1
  <2>3. /\ ses.steady \subseteq ses.whole /\ ses.whole \subseteq S /\ S \subseteq ses.some
        /\ ses.some \subseteq ses.ever
    BY <1>1, <1>2, <1>3 DEF ListOK
  <2>4. /\ ses.marker \in Keys \cup {0} /\ ses.delimiter \in BOOLEAN /\ ses.keys \subseteq Keys
        /\ ses.some \subseteq Keys /\ ses.steady \subseteq Keys
    BY <1>2 DEF ListSessions
  <2>5. Keys \subseteq Nat /\ 0 \in Nat
    BY KeysAssumption
  <2>6. ses.marker \in Nat
    BY <2>4, <2>5
  <2> QED  BY <2>2, <2>3, <2>4, <2>5, <2>6
<1>6. /\ \A k \in p.keys : k \in S /\ ses.marker < k /\ (ses.delimiter => Dir[k] = None)
      /\ \A d \in p.prefixes : d # None /\ \E k \in S : Dir[k] = d
      /\ p.next = 0 \/ (p.next \in Keys /\ ses.marker < p.next /\ \A k \in p.keys : k <= p.next)
      /\ \A k \in S : ses.marker < k /\ (p.next = 0 \/ k <= p.next) =>
           IF ses.delimiter /\ Dir[k] # None THEN Dir[k] \in p.prefixes ELSE k \in p.keys
  <2>1. PICK m \in Nat, n \in Nat \ {0}, d \in BOOLEAN :
          m = ses.marker /\ n = ses.max /\ d = ses.delimiter
    BY <1>5
  <2>2. p = Page(S, m, n, d)
    BY <1>4, <2>1
  <2>3. S \in SUBSET Keys
    BY <1>5
  <2>4. GoodPage(p, S, m, d)
    BY <2>2, <2>3, PageFacts
  <2> QED  BY <2>1, <2>4 DEF GoodPage
<1>7. ses.keys \cap p.keys = {}
  <2>1. \A k \in ses.keys : k <= ses.marker
    BY <1>1, <1>2 DEF ListOK
  <2>2. \A k \in ses.keys : ~(ses.marker < k)
    <3> SUFFICES ASSUME NEW k \in ses.keys  PROVE ~(ses.marker < k)
      OBVIOUS
    <3>1. k \in Nat /\ ses.marker \in Nat /\ k <= ses.marker
      BY <1>5, <2>1
    <3> QED  BY <3>1
  <2> QED  BY <1>6, <2>2
<1>8. /\ ses'.kind = ses.kind /\ ses'.pc = (IF p.next = 0 THEN "done" ELSE "ask")
      /\ ses'.delimiter = ses.delimiter /\ ses'.marker = p.next
      /\ ses'.keys = ses.keys \cup p.keys /\ ses'.prefixes = ses.prefixes \cup p.prefixes
      /\ ses'.steady = ses.steady /\ ses'.ever = ses.ever
  BY <1>2, <1>3, <1>4 DEF ListSessions
<1>9. ses' \in ListSessions
  <2>1. p.next \in Keys \cup {0} /\ p.keys \subseteq Keys
    BY <1>5, <1>6
  <2>2. p.prefixes \subseteq {Dir[k] : k \in Keys} \ {None}
    BY <1>5, <1>6
  <2>3. ses' = [ses EXCEPT !.pc = IF p.next = 0 THEN "done" ELSE "ask",
                           !.marker = p.next,
                           !.keys = @ \cup p.keys,
                           !.prefixes = @ \cup p.prefixes,
                           !.again = FALSE]
    <3>1. ses.again = FALSE
      BY <1>2 DEF ListSessions
    <3>2. (ses.again \/ ses.keys \cap p.keys # {}) = FALSE
      BY <1>7, <3>1
    <3> QED  BY <1>3, <1>4, <3>2
  <2> QED  BY <1>2, <2>1, <2>2, <2>3 DEF ListSessions
<1>10. Types'
  BY <1>1, <1>8, <1>9, SessionStep
<1>11. ListOK'
  <2>1. ses'.steady \subseteq Present' /\ Present' \subseteq ses'.ever
    BY <1>1, <1>2, <1>8 DEF ListOK, Present, PresentIn
  <2>2. ses'.pc # "walk"
    BY <1>8
  <2>3. ses'.delimiter => \A k \in ses'.keys : Dir[k] = None
    BY <1>2, <1>6, <1>8 DEF ListOK
  <2>4. ses'.keys \subseteq ses'.ever
    BY <1>2, <1>5, <1>6, <1>8 DEF ListOK
  <2>5. \A d \in ses'.prefixes : \E k \in ses'.ever : Dir[k] = d
    BY <1>2, <1>5, <1>6, <1>8 DEF ListOK
  <2>6. ASSUME ses'.pc # "done", NEW k \in ses'.keys  PROVE k <= ses'.marker
    <3>1. p.next # 0 /\ p.next \in Nat /\ ses.marker < p.next /\ ses'.marker = p.next
      BY <1>5, <1>6, <1>8, <2>6
    <3>2. CASE k \in ses.keys
      <4>1. k <= ses.marker /\ k \in Nat
        BY <1>1, <1>2, <1>5, <3>2 DEF ListOK
      <4> QED  BY <1>5, <3>1, <4>1
    <3>3. CASE k \in p.keys
      BY <1>6, <3>1, <3>3
    <3> QED  BY <1>8, <3>2, <3>3
  <2>7. ASSUME NEW k \in ses'.steady, ses'.pc = "done" \/ k <= ses'.marker  PROVE Has(k)'
    <3>1. k \in ses.steady /\ k \in S /\ k \in Nat /\ (p.next = 0 \/ k <= p.next)
      BY <1>5, <1>8, <2>7
    <3>2. CASE k <= ses.marker
      <4>1. Has(k)
        BY <1>2, <3>1, <3>2 DEF ListOK
      <4> QED  BY <1>8, <4>1 DEF Has
    <3>3. CASE ses.marker < k
      BY <1>6, <1>8, <3>1, <3>3 DEF Has
    <3> QED  BY <1>5, <3>1, <3>2, <3>3
  <2> QED  BY <2>1, <2>2, <2>3, <2>4, <2>5, <2>6, <2>7 DEF ListOK
<1> QED  BY <1>1, <1>8, <1>10, <1>11 DEF Begun


-----------------------------------------------------------------------------
(* The steps of a download                                                 *)

\* RangesServed for one answer.
Served(a) ==
  /\ a.status = 206 =>
       /\ a.start..a.end = Selected(a.range, a.body.size)
       /\ a.start <= a.end \/ (EmptySuffix(a.range, a.body.size) /\ a.end = -1)
  /\ a.status = 416 => ~Fits(a.range) \/ Selected(a.range, a.body.size) = {}

\* What is opened is what is answered, by its own size.
LEMMA RespondGood ==
  ASSUME Types, Is("get", "open"), ses.fd \in Files
  PROVE  Respond(ses.fd) \in Answers /\ Served(Respond(ses.fd))
<1>1. ses \in GetSessions /\ In.sizes \subseteq Nat
  BY Facts DEF Is, Begun
<1>2. PICK f \in Files, size \in Nat : f = ses.fd /\ size = f.size
  BY <1>1 DEF Files
<1>3. PICK h \in RangeHeaders \cup {None} : h = ses.range
  BY <1>1 DEF GetSessions
<1> DEFINE r == parseRange(h, size)
<1>4. Respond(f) = IF ses.match = Tag(f) THEN [status |-> 304]
                   ELSE IF h = None THEN [status |-> 200]
                   ELSE IF r = Refused THEN [status |-> 416, range |-> h, body |-> f]
                   ELSE [status |-> 206, range |-> h, body |-> f, start |-> r.start, end |-> r.end]
  BY <1>2, <1>3 DEF Respond
<1> HIDE DEF r
<1>5. CASE ses.match = Tag(f) \/ h = None
  <2>1. Respond(f) = [status |-> 304] \/ Respond(f) = [status |-> 200]
    BY <1>4, <1>5
  <2> QED  BY <1>2, <2>1 DEF Answers, Served
<1>6. CASE ~(ses.match = Tag(f) \/ h = None)
  <2>1. h \in RangeHeaders /\ h \in Headers
    BY <1>6, HeadersAssumption
  <2>2. Fits(h) => ParsesExactly(h, size)
    BY <2>1, RangesExact
  <2>3. ~Fits(h) => r = Refused
    BY <2>1, UnfitRefused DEF r
  <2>4. CASE r = Refused
    <3>1. Respond(f) = [status |-> 416, range |-> h, body |-> f]
      BY <1>4, <1>6, <2>4
    <3>2. Fits(h) => Selected(h, size) = {}
      BY <2>2, <2>4 DEF ParsesExactly, Slice, r
    <3>3. Respond(f) \in Answers
      BY <2>1, <3>1 DEF Answers
    <3> QED  BY <1>2, <3>1, <3>2, <3>3 DEF Served
  <2>5. CASE r # Refused
    <3>1. Respond(f) = [status |-> 206, range |-> h, body |-> f, start |-> r.start, end |-> r.end]
      BY <1>4, <1>6, <2>5
    <3>2. /\ r.start .. r.end = Selected(h, size) /\ 0 <= r.start
          /\ r.start <= r.end \/ (EmptySuffix(h, size) /\ r.end = -1)
      BY <2>2, <2>3, <2>5 DEF ParsesExactly, Slice, r
    <3>3. r.start \in Int /\ r.end \in Int
      <4>1. r.start \in Int /\ r.end \in Int
        <5>1. size \in Int /\ \A n \in Numbers : Parses(n) => n \in Int
          BY DEF Numbers, Parses
        <5>2. h # Malformed
          BY <2>5 DEF r, parseRange
        <5>3. h.first \in Numbers /\ h.last \in Numbers
          BY <2>1, <5>2 DEF Headers
        <5>4. CASE h.first = Absent
          <6>1. r = SuffixRange(h.last, size)
            BY <5>2, <5>4 DEF r, parseRange
          <6> QED  BY <2>5, <5>1, <5>3, <6>1 DEF SuffixRange
        <5>5. CASE h.first # Absent
          <6>1. r = FromRange(h.first, h.last, size)
            BY <5>2, <5>5 DEF r, parseRange
          <6> QED  BY <2>5, <5>1, <5>3, <6>1 DEF FromRange
        <5> QED  BY <5>4, <5>5
      <4> QED  BY <3>2, <4>1
    <3>4. Respond(f) \in Answers
      BY <2>1, <3>1, <3>3 DEF Answers
    <3> QED  BY <1>2, <3>1, <3>2, <3>4 DEF Served
  <2> QED  BY <2>4, <2>5
<1> QED  BY <1>2, <1>5, <1>6

\* A step of a download, from what it makes of the session.
LEMMA GetStep ==
  ASSUME Types, UNCHANGED <<now, file, ops>>, ses.kind = "get",
         NEW s \in GetSessions, ses' = s,
         s.pc = "open" => s.fd \in Files,
         \A p \in s.known : p.tag = Tag(p.body),
         Served(s.answer)
  PROVE  IInv'
<1>1. s.kind = "get"
  BY DEF GetSessions
<1>2. Types'
  BY <1>1, SessionStep
<1>3. Files' = Files
  BY <1>1, KindStays
<1>4. RangesServed'
  BY DEF RangesServed, Served
<1>5. GetOK'
  BY <1>3, <1>4 DEF GetOK, Tag
<1> QED  BY <1>1, <1>2, <1>5 DEF IInv, Begun

LEMMA GetBeginGood ==
  ASSUME IInv, NEW k \in In.keys, GetBegin(k)
  PROVE  IInv'
<1> DEFINE s == [kind |-> "get", pc |-> "ask", key |-> k, fd |-> None, range |-> None,
                 match |-> None, known |-> {}, answer |-> NoAnswer, gets |-> 0]
<1>1. Types /\ ses.kind = "get" /\ UNCHANGED <<now, file, ops>> /\ ses' = s
  BY DEF IInv, GetBegin, Idle
<1>2. k \in Keys
  BY <1>1, Facts
<1>3. NoAnswer \in Answers /\ Served(NoAnswer)
  BY DEF NoAnswer, Answers, Served
<1>4. s \in GetSessions
  BY <1>2, <1>3 DEF GetSessions
<1>5. s.pc = "ask" /\ s.known = {} /\ s.answer = NoAnswer
  OBVIOUS
<1> HIDE DEF s
<1> QED  BY <1>1, <1>3, <1>4, <1>5, GetStep

\* GET and HEAD, up to and with the answer.
LEMMA GetGood ==
  ASSUME IInv, Begun("get"), Get
  PROVE  IInv'
<1>1. /\ Types /\ GetOK /\ ses.kind = "get" /\ ses \in GetSessions
      /\ \A p \in ses.known : p.tag = Tag(p.body)
      /\ file[ses.key] \in Files \cup {None}
  <2>1. Types /\ GetOK /\ ses.kind = "get" /\ ses \in GetSessions
    BY Facts DEF IInv, Begun
  <2> QED  BY <2>1 DEF GetOK, Types, GetSessions
<1>2. Files \subseteq [upload : Nat, size : In.sizes, mtime : 0..In.time] /\ \A f \in Files : Tag(f) \in Tags
  <2>1. In.ops \in Nat
    BY <1>1, Facts
  <2> QED  BY <2>1 DEF Files, Tag, Tags
<1>3. /\ NoAnswer \in Answers /\ Served(NoAnswer)
      /\ [status |-> 404] \in Answers /\ Served([status |-> 404])
      /\ [status |-> 200] \in Answers /\ Served([status |-> 200])
  BY DEF NoAnswer, Answers, Served
<1> DEFINE none == [status |-> 404]
<1>4. PICK a404 \in Answers, a0 \in Answers : a404 = none /\ a0 = NoAnswer /\ Served(a404) /\ Served(a0)
  BY <1>3
<1>5. ses.gets + 1 \in Nat
  BY <1>1 DEF GetSessions
<1>6. ASSUME NEW h \in RangeHeaders \cup {None}, NEW m \in Tags \cup {None}, GetOpen(h, m)
      PROVE  IInv'
  <2>1. UNCHANGED <<now, file, ops>> /\ ses.pc = "ask"
    BY <1>6 DEF GetOpen, Is
  <2>2. CASE file[ses.key] = None
    <3> DEFINE s == [ses EXCEPT !.gets = @ + 1, !.answer = a404]
    <3>1. ses' = s
      BY <1>6, <1>4, <2>2 DEF GetOpen
    <3>2. s \in GetSessions /\ s.pc = "ask" /\ s.known = ses.known /\ s.answer = a404
      BY <1>1, <1>5, <2>1 DEF GetSessions
    <3> HIDE DEF s
    <3> QED  BY <1>1, <1>4, <2>1, <3>1, <3>2, GetStep
  <2>3. CASE file[ses.key] # None
    <3> DEFINE s == [ses EXCEPT !.gets = @ + 1, !.answer = a0, !.pc = "open",
                                !.fd = file[ses.key], !.range = h, !.match = m]
    <3>1. ses' = s
      BY <1>6, <1>4, <2>3 DEF GetOpen
    <3>2. file[ses.key] \in Files
      BY <1>1, <2>3
    <3>3. s \in GetSessions /\ s.fd \in Files /\ s.known = ses.known /\ s.answer = a0
      BY <1>1, <1>5, <3>2 DEF GetSessions
    <3> HIDE DEF s
    <3> QED  BY <1>1, <1>4, <2>1, <3>1, <3>3, GetStep
  <2> QED  BY <2>2, <2>3
<1>7. CASE GetAnswer
  <2>1. UNCHANGED <<now, file, ops>> /\ Is("get", "open")
    BY <1>7 DEF GetAnswer, Answer
  <2>2. PICK f \in Files : f = ses.fd
    BY <1>1, <2>1 DEF GetOK, Is
  <2>3. PICK a \in Answers : a = Respond(ses.fd) /\ Served(a)
    BY <1>1, <2>1, <2>2, RespondGood
  <2> DEFINE n == [tag |-> Tag(f), body |-> f]
             s == [ses EXCEPT !.pc = "ask", !.fd = None, !.range = None, !.match = None,
                              !.answer = a, !.known = @ \cup {n}]
  <2>4. ses' = s
    BY <1>7, <2>2, <2>3 DEF GetAnswer, Answer
  <2>5. n \in [tag : Tags, body : Files] /\ n.tag = Tag(n.body)
    BY <1>2
  <2> HIDE DEF n
  <2>6. s \in GetSessions /\ s.pc = "ask" /\ s.known = ses.known \cup {n} /\ s.answer = a
    BY <1>1, <2>5 DEF GetSessions
  <2> HIDE DEF s
  <2> QED  BY <1>1, <2>1, <2>3, <2>4, <2>5, <2>6, GetStep
<1>8. CASE HeadExists
  <2> DEFINE a == IF file[ses.key] = None THEN a404 ELSE a0
             s == [ses EXCEPT !.gets = @ + 1,
                              !.pc = IF file[ses.key] = None THEN "ask" ELSE "head",
                              !.answer = a]
  <2>1. UNCHANGED <<now, file, ops>> /\ ses' = s
    BY <1>8, <1>4 DEF HeadExists
  <2>2. a \in Answers /\ Served(a)
    BY <1>4
  <2> HIDE DEF a
  <2>3. s \in GetSessions /\ s.pc # "open" /\ s.known = ses.known /\ s.answer = a
    BY <1>1, <1>5, <2>2 DEF GetSessions
  <2> HIDE DEF s
  <2> QED  BY <1>1, <2>1, <2>2, <2>3, GetStep
<1>9. CASE HeadAnswer
  <2>1. UNCHANGED <<now, file, ops>>
    BY <1>9 DEF HeadAnswer
  <2>2. CASE file[ses.key] = None
    <3> DEFINE s == [ses EXCEPT !.pc = "ask", !.answer = a404]
    <3>1. ses' = s
      BY <1>9, <1>4, <2>2 DEF HeadAnswer
    <3>2. s \in GetSessions /\ s.pc = "ask" /\ s.known = ses.known /\ s.answer = a404
      BY <1>1 DEF GetSessions
    <3> HIDE DEF s
    <3> QED  BY <1>1, <1>4, <2>1, <3>1, <3>2, GetStep
  <2>3. CASE file[ses.key] # None
    <3>1. PICK f \in Files : f = file[ses.key]
      BY <1>1, <2>3
    <3> DEFINE n == [tag |-> Tag(f), body |-> f]
               s == [ses EXCEPT !.pc = "ask", !.answer = [status |-> 200], !.known = @ \cup {n}]
    <3>2. ses' = s
      BY <1>9, <2>3, <3>1 DEF HeadAnswer
    <3>3. n \in [tag : Tags, body : Files] /\ n.tag = Tag(n.body)
      BY <1>2
    <3> HIDE DEF n
    <3>4. s \in GetSessions /\ s.pc = "ask" /\ s.known = ses.known \cup {n} /\ s.answer = [status |-> 200]
      BY <1>1, <1>3, <3>3 DEF GetSessions
    <3> HIDE DEF s
    <3> QED  BY <1>1, <1>3, <2>1, <3>2, <3>3, <3>4, GetStep
  <2> QED  BY <2>2, <2>3
<1>10. \A p \in ses.known : p.tag \in Tags
  BY <1>1 DEF GetSessions
<1> QED  BY <1>6, <1>7, <1>8, <1>9, <1>10 DEF Get


-----------------------------------------------------------------------------
(* Signed URLs                                                             *)

\* Times in whole seconds are in the order of the seconds.
LEMMA Scaled ==
  ASSUME NEW a \in Int, NEW b \in Int
  PROVE  a <= b <=> a * TicksPerSecond <= b * TicksPerSecond
<1>1. TicksPerSecond \in Nat \ {0}
  BY ClockAssumption
<1> QED  BY <1>1

\* Whole seconds are cut: less than one is lost.
LEMMA Cut ==
  ASSUME NEW t \in Nat
  PROVE  /\ ExpiryOf(t) \in Nat
         /\ ExpiryOf(t) * TicksPerSecond <= t
         /\ t < ExpiryOf(t) * TicksPerSecond + TicksPerSecond
<1>1. PICK s \in Nat \ {0} : s = TicksPerSecond
  BY ClockAssumption
<1>2. (t \div s) \in Nat /\ (t \div s) * s <= t /\ t < (t \div s) * s + s
  BY Z3
<1> QED  BY <1>1, <1>2 DEF ExpiryOf

\* A lifetime is at most seven days and the one wanted, unless the duration overflows.
LEMMA LifetimeFacts ==
  ASSUME NEW n \in Lifetimes
  PROVE  /\ Lifetime(n) \in Nat /\ Lifetime(n) <= MostLifetime * TicksPerSecond
         /\ Wrap(n * TicksPerSecond) = n * TicksPerSecond => Lifetime(n) = WantedLifetime(n)
<1>1. n \in Int
  BY InputsAssumption
<1>2. PICK t \in Nat \ {0}, w \in Nat \ {0}, def \in Nat \ {0}, most \in Nat \ {0} :
        t = TicksPerSecond /\ w = Word /\ def = DefaultLifetime /\ most = MostLifetime /\ def <= most
  BY ClockAssumption
<1>3. n * t \in Int /\ def * t \in Nat /\ most * t \in Nat
  BY <1>1
<1>4. \A i \in Int : Wrap(i) \in Int
  BY <1>2 DEF Wrap
<1>5. PICK d \in Int : d = Wrap(n * t)
  BY <1>3, <1>4
<1>6. Lifetime(n) = IF d <= 0 THEN def * t ELSE IF d > most * t THEN most * t ELSE d
  BY <1>2, <1>5 DEF Lifetime
<1>7. def * t <= most * t
  BY <1>2, Scaled
<1>8. Lifetime(n) \in Nat /\ Lifetime(n) <= most * t
  BY <1>3, <1>6, <1>7
<1>9. ASSUME d = n * t  PROVE Lifetime(n) = WantedLifetime(n)
  <2>1. /\ n <= 0 <=> n * t <= 0 * t
        /\ n <= most <=> n * t <= most * t
    BY <1>1, <1>2, Scaled
  <2>2. 0 * t = 0 /\ def * t = t * def /\ most * t = t * most /\ n * t = t * n
    BY <1>1
  <2>3. WantedLifetime(n) = t * (IF n <= 0 THEN def ELSE IF n > most THEN most ELSE n)
    BY <1>2 DEF WantedLifetime
  <2>4. CASE n <= 0
    BY <1>6, <1>9, <2>1, <2>2, <2>3, <2>4
  <2>5. CASE ~(n <= 0) /\ n > most
    <3>1. ~(d <= 0) /\ d > most * t
      BY <1>1, <1>3, <1>9, <2>1, <2>2, <2>5
    <3> QED  BY <1>6, <2>2, <2>3, <2>5, <3>1
  <2>6. CASE ~(n <= 0) /\ ~(n > most)
    <3>1. ~(d <= 0) /\ ~(d > most * t)
      BY <1>1, <1>3, <1>9, <2>1, <2>2, <2>6
    <3> QED  BY <1>6, <1>9, <2>2, <2>3, <2>6, <3>1
  <2> QED  BY <2>4, <2>5, <2>6
<1> QED  BY <1>2, <1>5, <1>8, <1>9

\* The expiry is fixed when the URL is made.
LEMMA SignGood ==
  ASSUME IInv, NEW k \in In.keys, NEW n \in Lifetimes, SignURL(k, n)
  PROVE  IInv'
<1> USE DEF IInv
<1>1. /\ ses.kind = "url" /\ UNCHANGED <<now, file, ops>>
      /\ ses' = [kind |-> "url", pc |-> "ask", key |-> k, asked |-> n, made |-> now,
                 exp |-> ExpiryOf(now + Lifetime(n)), at |-> now, status |-> 0]
  BY DEF SignURL, Idle
<1>2. now \in Nat /\ k \in Keys
  BY Facts DEF Types
<1>3. ExpiryOf(now + Lifetime(n)) \in Nat
  BY <1>2, LifetimeFacts, Cut
<1>4. ses' \in UrlSessions /\ ses'.kind = "url"
  BY <1>1, <1>2, <1>3 DEF UrlSessions, Statuses
<1>5. Types'
  BY <1>1, <1>4, SessionStep
<1>6. UrlOK'
  BY <1>1 DEF UrlOK
<1> QED  BY <1>4, <1>5, <1>6 DEF Begun

\* The URL is verified once, then opened.
LEMMA URLGood ==
  ASSUME IInv, VerifyURL \/ OpenURL
  PROVE  IInv'
<1> USE DEF IInv
<1>1. ses \in UrlSessions /\ UrlOK /\ ses.kind = "url" /\ UNCHANGED <<now, file, ops>>
  BY Facts DEF VerifyURL, OpenURL, Is, Begun
<1>2. now \in Nat /\ ses.exp \in Nat /\ TicksPerSecond \in Nat
  BY <1>1, Facts, ClockAssumption DEF Types, UrlSessions
<1>3. ses.exp * TicksPerSecond \in Nat
  BY <1>2
<1>4. CASE VerifyURL
  <2> DEFINE late == now > ses.exp * TicksPerSecond
  <2>1. /\ late => ses' = [ses EXCEPT !.at = now, !.status = 410]
        /\ ~late => ses' = [ses EXCEPT !.at = now, !.pc = "open", !.status = 0]
        /\ ses.pc = "ask"
    BY <1>4 DEF VerifyURL, Is
  <2>2. /\ ses' \in UrlSessions /\ ses'.kind = "url" /\ ses'.exp = ses.exp /\ ses'.made = ses.made
        /\ ses'.asked = ses.asked /\ ses'.at = now
        /\ late => ses'.status = 410 /\ ses'.pc = "ask"
        /\ ~late => ses'.status = 0 /\ ses'.pc = "open"
    <3> HIDE DEF late
    <3>1. CASE late
      <4>1. ses' = [ses EXCEPT !.at = now, !.status = 410]
        BY <2>1, <3>1
      <4>2. PICK n \in Statuses : n = 410
        BY DEF Statuses
      <4>3. ses' \in UrlSessions
        <5>1. ses' = [ses EXCEPT !.at = now, !.status = n]
          BY <4>1, <4>2
        <5> QED  BY <1>1, <1>2, <5>1 DEF UrlSessions
      <4>4. /\ ses'.kind = ses.kind /\ ses'.exp = ses.exp /\ ses'.made = ses.made
            /\ ses'.asked = ses.asked /\ ses'.pc = ses.pc
        BY <1>1, <4>1 DEF UrlSessions
      <4>5. ses'.at = now /\ ses'.status = 410
        BY <1>1, <4>1 DEF UrlSessions
      <4> QED  BY <1>1, <2>1, <3>1, <4>3, <4>4, <4>5
    <3>2. CASE ~late
      <4>1. ses' = [ses EXCEPT !.at = now, !.pc = "open", !.status = 0]
        BY <2>1, <3>2
      <4> QED  BY <1>1, <1>2, <2>1, <3>2, <4>1 DEF UrlSessions, Statuses
    <3> QED  BY <3>1, <3>2
  <2>3. Types'
    BY <1>1, <2>2, SessionStep
  <2>4. ~late => now <= ses.exp * TicksPerSecond
    BY <1>2, <1>3
  <2>5. UrlOK'
    BY <1>1, <2>2, <2>4 DEF UrlOK
  <2> QED  BY <2>2, <2>3, <2>5 DEF Begun
<1>5. CASE OpenURL
  <2>1. ses.pc = "open"
        /\ ses' = [ses EXCEPT !.pc = "ask", !.status = IF file[ses.key] = None THEN 404 ELSE 200]
    BY <1>5 DEF OpenURL, Is
  <2>2. /\ ses' \in UrlSessions /\ ses'.kind = "url" /\ ses'.exp = ses.exp /\ ses'.made = ses.made
        /\ ses'.asked = ses.asked /\ ses'.at = ses.at /\ ses'.pc = "ask" /\ ses'.status \in {200, 404}
    <3>1. PICK n \in {200, 404} : n = IF file[ses.key] = None THEN 404 ELSE 200
      OBVIOUS
    <3>2. ses' = [ses EXCEPT !.pc = "ask", !.status = n]
      BY <2>1, <3>1
    <3>3. n \in Statuses
      BY DEF Statuses
    <3>4. ses' \in UrlSessions
      BY <1>1, <3>2, <3>3 DEF UrlSessions
    <3>5. /\ ses'.kind = ses.kind /\ ses'.exp = ses.exp /\ ses'.made = ses.made
          /\ ses'.asked = ses.asked /\ ses'.at = ses.at
      BY <1>1, <3>2 DEF UrlSessions
    <3>6. ses'.pc = "ask" /\ ses'.status = n
      BY <1>1, <3>2 DEF UrlSessions
    <3> QED  BY <1>1, <3>4, <3>5, <3>6
  <2>3. Types'
    BY <1>1, <2>2, SessionStep
  <2>4. UrlOK'
    BY <1>1, <2>1, <2>2 DEF UrlOK
  <2> QED  BY <2>2, <2>3, <2>4 DEF Begun
<1> QED  BY <1>4, <1>5

-----------------------------------------------------------------------------
LEMMA StepGood == IInv /\ [Next]_vars => IInv'
<1> SUFFICES ASSUME IInv, [Next]_vars  PROVE IInv'
  OBVIOUS
<1>1. CASE Writers
  BY <1>1, WritersGood
<1>2. CASE Tick \/ UNCHANGED vars
  BY <1>2, TickGood
<1>3. ASSUME NEW n \in PageSizes, NEW delimiter \in BOOLEAN, ListBegin(n, delimiter)  PROVE IInv'
  BY <1>3, ListBeginGood
<1>4. CASE ListRequest
  BY <1>4, WalkBeginGood, WalkEndGood, WalkFailsGood DEF ListRequest
<1>5. ASSUME NEW k \in In.keys, GetBegin(k)  PROVE IInv'
  BY <1>5, GetBeginGood
<1>6. CASE Begun("get") /\ Get
  BY <1>6, GetGood
<1>7. ASSUME NEW k \in In.keys, NEW n \in Lifetimes, SignURL(k, n)  PROVE IInv'
  BY <1>7, SignGood
<1>8. CASE VerifyURL \/ OpenURL
  BY <1>8, URLGood
<1> QED  BY <1>1, <1>2, <1>3, <1>4, <1>5, <1>6, <1>7, <1>8 DEF Next

LEMMA Invariance == Spec => []IInv
  BY InitGood, StepGood, PTL DEF Spec

-----------------------------------------------------------------------------
(* The properties                                                          *)

\* The types of the parts of a session are those of the session.
LEMMA TypesOK ==
  ASSUME IInv
  PROVE  TypeOK /\ (Begun("list") => ~ses.again)
<1> USE DEF IInv
<1>1. /\ ses.kind \in Kinds
      /\ Begun("list") => ses \in ListSessions
      /\ Begun("get") => ses \in GetSessions
      /\ Begun("url") => ses \in UrlSessions
  BY Facts
<1>2. now \in 1..In.time /\ ops \in 0..In.ops /\ file \in [Keys -> Files \cup {None}]
  BY DEF Types
<1>3. Begun("list") =>
        /\ ses.pc \in {"ask", "walk", "done"}
        /\ ses.max \in 1..MostKeys
        /\ ses.marker \in Keys \cup {0}
        /\ ses.keys \subseteq Keys /\ ses.prefixes \subseteq {Dir[k] : k \in Keys} \ {None}
        /\ ~ses.again
  BY <1>1 DEF ListSessions
<1>4. \A a \in Answers : a.status \in {0, 200, 206, 304, 404, 416}
  BY DEF Answers
<1>5. Begun("get") =>
        /\ ses.pc \in {"ask", "open", "head"}
        /\ ses.fd \in Files \cup {None}
        /\ ses.known \subseteq [tag : Tags, body : Files]
        /\ ses.answer.status \in {0, 200, 206, 304, 404, 416}
  BY <1>1, <1>4 DEF GetSessions
<1>6. Begun("url") =>
        /\ ses.pc \in {"ask", "open"}
        /\ ses.status \in {0, 200, 404, 410}
        /\ {ses.exp, ses.made, ses.at} \subseteq Nat
  BY <1>1 DEF UrlSessions, Statuses
<1>7. Begun("list") => (ses.delimiter => \A k \in ses.keys : Dir[k] = None)
  BY DEF IInv, ListOK
<1>8. TypeOK
  BY <1>1, <1>2, <1>3, <1>5, <1>6, <1>7 DEF TypeOK
<1> QED  BY <1>3, <1>8

\* A client that follows next_marker through listObjects gets every key that
\* is there all the time, and none twice or that never was, whatever other
\* requests do.
THEOREM ListingsComplete == Spec => []ListedOnce
<1>1. IInv => ListedOnce
  <2> SUFFICES ASSUME IInv  PROVE ListedOnce
    OBVIOUS
  <2>1. TypeOK /\ (Begun("list") => ~ses.again)
    BY TypesOK
  <2>2. CASE Is("list", "done")
    <3>1. ListOK /\ ses.pc = "done"
      BY <2>2 DEF IInv, Is, Begun
    <3>2. \A k \in ses.steady : Has(k)
      BY <3>1 DEF ListOK
    <3>3. ses.keys \subseteq ses.ever /\ \A d \in ses.prefixes : \E k \in ses.ever : Dir[k] = d
      BY <3>1 DEF ListOK
    <3> QED  BY <2>1, <3>2, <3>3 DEF ListedOnce, Has
  <2> QED  BY <2>1, <2>2 DEF ListedOnce
<1> QED  BY <1>1, Invariance, PTL

\* Answers of serveFile with one ETag are of one upload, or of two of the same
\* size and modification time.
THEOREM TagsIdentify == Spec => []TagIdentifies
<1>1. IInv => TagIdentifies
  <2> SUFFICES ASSUME IInv, Begun("get"), NEW p \in ses.known, NEW q \in ses.known, p.tag = q.tag
               PROVE  p.body.mtime = q.body.mtime /\ p.body.size = q.body.size
    BY DEF TagIdentifies
  <2>1. p.tag = <<p.body.mtime, p.body.size>> /\ q.tag = <<q.body.mtime, q.body.size>>
    BY DEF IInv, GetOK, Tag
  <2>2. <<p.body.mtime, p.body.size>> = <<q.body.mtime, q.body.size>>
    BY <2>1
  <2>3. \A a, b, c, d : <<a, b>> = <<c, d>> => a = c /\ b = d
    OBVIOUS
  <2> QED  BY <2>2, <2>3
<1> QED  BY <1>1, Invariance, PTL

\* Partial answers of serveFile have the bytes asked for of the file they are
\* taken from, whatever is uploaded, moved or deleted meanwhile.
THEOREM RangesAsAsked == Spec => []RangesServed
<1>1. IInv => RangesServed
  BY DEF IInv, GetOK, RangesServed
<1> QED  BY <1>1, Invariance, PTL

\* A URL made by createSignedURL works for the time wanted, up to a second
\* less, and never for more than seven days.
THEOREM URLsExpire == Spec => []URLLifetime
<1>1. IInv => URLLifetime
  <2> SUFFICES ASSUME IInv, Begun("url")  PROVE URLLifetime
    BY DEF URLLifetime
  <2>1. ses \in UrlSessions /\ UrlOK /\ TicksPerSecond \in Nat
    BY Facts, ClockAssumption DEF IInv
  <2>2. PICK n \in Lifetimes, made \in Nat, at \in Nat, exp \in Nat :
          n = ses.asked /\ made = ses.made /\ at = ses.at /\ exp = ses.exp
    BY <2>1 DEF UrlSessions
  <2>3. /\ Lifetime(n) \in Nat /\ Lifetime(n) <= MostLifetime * TicksPerSecond
        /\ Wrap(n * TicksPerSecond) = n * TicksPerSecond => Lifetime(n) = WantedLifetime(n)
    BY LifetimeFacts
  <2>4. /\ exp * TicksPerSecond <= made + Lifetime(n)
        /\ made + Lifetime(n) < exp * TicksPerSecond + TicksPerSecond
    BY <2>1, <2>2, <2>3, Cut DEF UrlOK
  <2>5. PICK e \in Nat, most \in Nat : e = exp * TicksPerSecond /\ most = MostLifetime * TicksPerSecond
    BY <2>1, ClockAssumption
  <2>6. /\ ses.status \in {200, 404} => at <= e
        /\ ses.status = 410 => at > e
    BY <2>1, <2>2, <2>5 DEF UrlOK
  <2>7. /\ ses.status \in {200, 404} => at <= made + Lifetime(n)
        /\ ses.status = 410 => at > made + Lifetime(n) - TicksPerSecond
    BY <2>1, <2>3, <2>4, <2>5, <2>6
  <2>8. ses.status \in {200, 404} => at <= made + most
    BY <2>3, <2>5, <2>7
  <2> QED  BY <2>2, <2>3, <2>5, <2>7, <2>8 DEF URLLifetime
<1> QED  BY <1>1, Invariance, PTL
=============================================================================
