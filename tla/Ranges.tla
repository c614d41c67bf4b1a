------------------------------- MODULE Ranges -------------------------------
(***************************************************************************)
(* Range requests (parseRange in internal/api/server.go).                  *)
(*                                                                         *)
(* A header "bytes=<first>-<last>" is a record of two numbers, where       *)
(* Absent stands for an empty one.  The text of a number is abstracted to  *)
(* its value; a number beyond MaxInt is one that strconv.ParseInt refuses. *)
(* Other headers (another unit, no dash, several ranges, no number) are    *)
(* Malformed.                                                              *)
(***************************************************************************)
EXTENDS Integers

CONSTANTS MaxInt,     \* the largest int64
          Absent,     \* an empty number in the header
          Malformed,  \* a header that does not parse
          Refused     \* ok = false: the answer is 416

ASSUME MaxIntAssumption == MaxInt \in Nat
ASSUME AbsentAssumption == Absent \notin Int
ASSUME RefusedAssumption ==
  /\ Refused \notin [start : Int, end : Int]
  /\ Malformed \notin [first : Nat \cup {Absent}, last : Nat \cup {Absent}]

Numbers == Nat \cup {Absent}
Headers == [first : Numbers, last : Numbers] \cup {Malformed}

Parses(n) == n # Absent /\ n <= MaxInt

\* The last n bytes; all of them if there are fewer.
SuffixRange(n, size) ==
  IF Parses(n) /\ n > 0
  THEN [start |-> IF size < n THEN 0 ELSE size - n, end |-> size - 1]
  ELSE Refused

FromRange_LastByte(f, l, size) ==
  IF ~Parses(f) \/ f > size THEN Refused
  ELSE IF l = Absent THEN [start |-> f, end |-> size - 1]
  ELSE IF ~Parses(l) \/ l < f THEN Refused
  ELSE [start |-> f, end |-> IF l >= size THEN size - 1 ELSE l]

\* From byte f to byte l, or to the last one.
FromRange(f, l, size) ==
  IF ~Parses(f) \/ f >= size THEN Refused
  ELSE IF l = Absent THEN [start |-> f, end |-> size - 1]
  ELSE IF ~Parses(l) \/ l < f THEN Refused
  ELSE [start |-> f, end |-> IF l >= size THEN size - 1 ELSE l]

parseRange(h, size) ==
  IF h = Malformed THEN Refused
  ELSE IF h.first = Absent THEN SuffixRange(h.last, size)
  ELSE FromRange(h.first, h.last, size)

-----------------------------------------------------------------------------
(* What a header asks for, by RFC 7233: the reference.                     *)

Bytes(size) == 0 .. size - 1

\* The bytes of a representation of this size that the header selects.
Selected(h, size) ==
  IF h = Malformed THEN {}
  ELSE IF h.first = Absent
  THEN {b \in Bytes(size) : h.last # Absent /\ b >= size - h.last}
  ELSE {b \in Bytes(size) : b >= h.first /\ (h.last # Absent => b <= h.last)}

\* The numbers of the header fit into 64 bits.
Fits(h) == h # Malformed => \A n \in {h.first, h.last} : n # Absent => n <= MaxInt

Slice(r) == IF r = Refused THEN {} ELSE r.start .. r.end

\* "bytes=-5" of an empty file: parseRange accepts it, with the range 0 to -1.
EmptySuffix(h, size) == size = 0 /\ h # Malformed /\ h.first = Absent

(***************************************************************************)
(* For every size and every header whose numbers fit, parseRange returns   *)
(* the bytes selected, within the file, so that CopyN finds all it has     *)
(* promised; and it refuses exactly the headers that select nothing,       *)
(* except the last bytes of an empty file: these are served as the part    *)
(* "bytes 0--1/0", of length 0.                                            *)
(***************************************************************************)
ParsesExactly(h, size) ==
  LET r == parseRange(h, size)
  IN  /\ Slice(r) = Selected(h, size)
      /\ r # Refused => /\ 0 <= r.start /\ r.end < size
                        /\ r.start <= r.end \/ (EmptySuffix(h, size) /\ r.end = -1)
=============================================================================
