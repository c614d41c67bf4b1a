----------------------------- MODULE ObjectMap -----------------------------
(***************************************************************************)
(* What the content-addressed store promises its callers: a map from       *)
(* object keys to contents whose operations are atomic.  DedupStore is     *)
(* shown to implement it.  There is no notion here of blobs, reference     *)
(* counts, files or transactions.                                          *)
(***************************************************************************)
CONSTANTS Keys,      \* the (bucket, key) pairs objects are stored under
          Contents,  \* what may be stored
          Absent     \* the value of a key that holds no object

VARIABLES content,   \* content[k]: the object under k, or Absent
          got        \* the last answer of Get: the key and what it returned

vars == <<content, got>>

Init == /\ content = [k \in Keys |-> Absent]
        /\ got = [key |-> Absent, res |-> Absent]

Put(k, c) == /\ content' = [content EXCEPT ![k] = c]
             /\ UNCHANGED got

Remove(k) == /\ content' = [content EXCEPT ![k] = Absent]
             /\ UNCHANGED got

(* Move writes the destination and then removes the source, so that moving *)
(* a key onto itself removes the object.                                   *)
Move(s, d) == /\ content[s] # Absent
              /\ content' = [content EXCEPT ![d] = content[s], ![s] = Absent]
              /\ UNCHANGED got

Get(k) == /\ got' = [key |-> k, res |-> content[k]]
          /\ UNCHANGED content

Next == \/ \E k \in Keys, c \in Contents : Put(k, c)
        \/ \E k \in Keys : Remove(k) \/ Get(k)
        \/ \E s, d \in Keys : Move(s, d)

Spec == Init /\ [][Next]_vars
=============================================================================
