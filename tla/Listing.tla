------------------------------ MODULE Listing -------------------------------
(***************************************************************************)
(* One page of a listing (listObjects in internal/api/server.go), computed *)
(* from what store.List returned.                                          *)
(*                                                                         *)
(* Keys are numbers in the order of their names.  With a delimiter, a key  *)
(* in Dir[k] # None is rolled up into that common prefix.                  *)
(***************************************************************************)
EXTENDS Integers, FiniteSets

CONSTANTS Keys,
          Dir,          \* the common prefix of a key, or None
          DefaultKeys,  \* max_keys if absent, malformed or not positive (1000)
          MostKeys,     \* the largest max_keys (10000)
          None

ASSUME KeysAssumption == Keys \subseteq Nat \ {0} /\ IsFiniteSet(Keys)
ASSUME KeysNoneAssumption == None \notin Nat
ASSUME LimitsAssumption == {DefaultKeys, MostKeys} \subseteq Nat \ {0} /\ DefaultKeys <= MostKeys

\* Names with a common prefix are neighbours in the order.
ASSUME DirAssumption ==
  \A i, j, k \in Keys : i < j /\ j < k /\ Dir[i] = Dir[k] /\ Dir[i] # None => Dir[j] = Dir[i]

Clamp(n) == IF n <= 0 THEN DefaultKeys ELSE IF n > MostKeys THEN MostKeys ELSE n

After_Inclusive(S, marker) == {k \in S : k >= marker}

\* The marker of a first page is 0.
After(S, marker) == {k \in S : k > marker}

\* The n smallest.
FirstOf(S, n) == {k \in S : Cardinality({j \in S : j <= k}) <= n}

Greatest(S) == CHOOSE k \in S : \A j \in S : j <= k

Page_PrefixesCut(S, marker, n, delimiter) ==
  LET rest == After(S, marker)
      own == IF delimiter THEN {k \in rest : Dir[k] = None} ELSE rest
      keys == FirstOf(own, n)
  IN  [keys |-> keys,
       prefixes |-> IF delimiter THEN {Dir[k] : k \in FirstOf(rest, n)} \ {None} ELSE {},
       next |-> IF keys = own THEN 0 ELSE Greatest(keys)]

\* Prefixes do not count against max_keys; next is next_marker, 0 on the last page.
Page(S, marker, n, delimiter) ==
  LET rest == After(S, marker)
      own == IF delimiter THEN {k \in rest : Dir[k] = None} ELSE rest
      keys == FirstOf(own, n)
  IN  [keys |-> keys,
       prefixes |-> IF delimiter THEN {Dir[k] : k \in rest} \ {None} ELSE {},
       next |-> IF keys = own THEN 0 ELSE Greatest(keys)]
=============================================================================
