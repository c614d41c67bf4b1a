------------------------------- MODULE Reads --------------------------------
(***************************************************************************)
(* The reading side of the HTTP server (internal/api/server.go): listing   *)
(* by pages, downloads by ranges with ETags, and signed URLs               *)
(* (internal/signedurl/signedurl.go), while other requests change the file *)
(* store of one bucket (internal/storage/store.go).                        *)
(*                                                                         *)
(* What matters is one client's view over several requests, so there is    *)
(* one session, of one of the three kinds.  The writers are unrestricted.  *)
(* A file is the upload it came from, its size, and its modification time, *)
(* which the file system stores in ticks.                                  *)
(***************************************************************************)
EXTENDS Listing, Ranges

CONSTANTS Scope,           \* bounds of each kind of session, see below
          RangeHeaders,    \* the Range headers a client sends
          PageSizes,       \* values of max_keys
          Lifetimes,       \* values of expires_in
          DefaultLifetime, \* seconds (3600)
          MostLifetime,    \* seconds (7 days)
          TicksPerSecond,
          Word,            \* 2^63: durations are 64-bit numbers of ticks
          MaxGets          \* bound on the requests of a download

Kinds == {"list", "get", "url"}

\* The keys in use, the sizes of files (PUT refuses an empty body, but a pull or a push of
\* another node stores one), and the bounds on the clock and on the number of uploads,
\* deletes and moves.
ASSUME ScopeAssumption ==
  Scope \in [Kinds -> [keys : SUBSET Keys, sizes : SUBSET Nat, time : Nat \ {0}, ops : Nat]]
ASSUME HeadersAssumption == RangeHeaders \subseteq Headers
ASSUME InputsAssumption == PageSizes \subseteq Int /\ Lifetimes \subseteq Int
ASSUME ClockAssumption ==
  /\ {DefaultLifetime, MostLifetime, TicksPerSecond, Word} \subseteq Nat \ {0}
  /\ DefaultLifetime <= MostLifetime /\ MostLifetime * TicksPerSecond < Word
ASSUME MaxGetsAssumption == MaxGets \in Nat

VARIABLES
  now,   \* the clock, in ticks
  file,  \* file[k]: the file of key k, or None
  ops,   \* uploads, deletes and moves so far
  ses    \* the client's session

vars == <<now, file, ops, ses>>

In == Scope[ses.kind]
Files == [upload : 0..In.ops, size : In.sizes, mtime : 0..In.time]
PresentIn(f) == {k \in Keys : f[k] # None}
Present == PresentIn(file)

Idle(kind) == [kind |-> kind, pc |-> "idle"]
Begun(kind) == ses.kind = kind /\ ses.pc # "idle"
Is(kind, pc) == ses.kind = kind /\ ses.pc = pc

-----------------------------------------------------------------------------
(* Other requests.  Put renames a complete temporary file into place.      *)

\* What a listing in progress may see of a change.
Watched(f) ==
  IF ~Begun("list") THEN ses
  ELSE [ses EXCEPT !.steady = @ \cap PresentIn(f), !.ever = @ \cup PresentIn(f),
                   !.whole = @ \cap PresentIn(f), !.some = @ \cup PresentIn(f),
                   !.torn = @ \/ Present \ PresentIn(f) # {}]

Change(f) == /\ ops < In.ops
             /\ ops' = ops + 1
             /\ file' = f
             /\ ses' = Watched(f)
             /\ UNCHANGED now

\* The time is that of the last write to the temporary file. Listings ignore it.
Upload(k, s, t) ==
  /\ t = now \/ (t = now - 1 /\ ses.kind = "get")
  /\ Change([file EXCEPT ![k] = [upload |-> ops + 1, size |-> s, mtime |-> t]])

Delete(k) == file[k] # None /\ Change([file EXCEPT ![k] = None])

\* A rename keeps the modification time.
Move(j, k) == /\ file[j] # None /\ j # k
              /\ Change([file EXCEPT ![j] = None, ![k] = file[j]])

Tick == /\ now < In.time
        /\ now' = now + 1
        /\ UNCHANGED <<file, ops, ses>>

-----------------------------------------------------------------------------
(* Listing: the client follows next_marker until there is none.  steady    *)
(* and ever are the keys present throughout and at some time of the        *)
(* session; whole and some those of the directory walk in progress.        *)

ListBegin(n, delimiter) ==
  /\ ses = Idle("list")
  /\ ses' = [kind |-> "list", pc |-> "ask", max |-> Clamp(n), delimiter |-> delimiter,
             marker |-> 0, keys |-> {}, prefixes |-> {}, again |-> FALSE,
             steady |-> Present, ever |-> Present,
             whole |-> {}, some |-> {}, torn |-> FALSE]
  /\ UNCHANGED <<now, file, ops>>

WalkBegin ==
  /\ Is("list", "ask")
  /\ ses' = [ses EXCEPT !.pc = "walk", !.whole = Present, !.some = Present, !.torn = FALSE]
  /\ UNCHANGED <<now, file, ops>>

\* The walk reads one directory entry after the other: what changes during it
\* may be in the result or not.
WalkEnd ==
  /\ Is("list", "walk")
  /\ \E S \in SUBSET ses.some :
       /\ ses.whole \subseteq S
       /\ LET p == Page(S, ses.marker, ses.max, ses.delimiter)
          IN  ses' = [ses EXCEPT !.pc = IF p.next = 0 THEN "done" ELSE "ask",
                                 !.marker = p.next,
                                 !.keys = @ \cup p.keys,
                                 !.prefixes = @ \cup p.prefixes,
                                 !.again = @ \/ ses.keys \cap p.keys # {}]
  /\ UNCHANGED <<now, file, ops>>

\* A file that goes between ReadDir and Lstat fails the walk: 500.
WalkFails ==
  /\ Is("list", "walk") /\ ses.torn
  /\ ses' = [ses EXCEPT !.pc = "ask"]
  /\ UNCHANGED <<now, file, ops>>

-----------------------------------------------------------------------------
(* Downloads: requests for one key, with or without a Range, and with or   *)
(* without an ETag from an earlier answer.                                 *)

Tag(f) == <<f.mtime, f.size>>
NoAnswer == [status |-> 0]

GetBegin(k) ==
  /\ ses = Idle("get")
  /\ ses' = [kind |-> "get", pc |-> "ask", key |-> k, fd |-> None, range |-> None,
             match |-> None, known |-> {}, answer |-> NoAnswer, gets |-> 0]
  /\ UNCHANGED <<now, file, ops>>

\* os.Open: what is opened here is what is served. range and match may be None.
GetOpen(range, match) ==
  /\ Is("get", "ask") /\ ses.gets < MaxGets
  /\ match = None \/ \E p \in ses.known : match = p.tag
  /\ ses' = IF file[ses.key] = None
            THEN [ses EXCEPT !.gets = @ + 1, !.answer = [status |-> 404]]
            ELSE [ses EXCEPT !.gets = @ + 1, !.answer = NoAnswer, !.pc = "open",
                             !.fd = file[ses.key], !.range = range, !.match = match]
  /\ UNCHANGED <<now, file, ops>>

\* serveFile after os.Open, with what file.Stat returns.
Respond(stat) ==
  LET r == parseRange(ses.range, stat.size)
  IN  IF ses.match = Tag(stat) THEN [status |-> 304]
      ELSE IF ses.range = None THEN [status |-> 200]
      ELSE IF r = Refused THEN [status |-> 416, range |-> ses.range, body |-> ses.fd]
      ELSE [status |-> 206, range |-> ses.range, body |-> ses.fd,
            start |-> r.start, end |-> r.end]

\* The client takes what it gets (and on 304, what it has) for the version with that tag.
Answer(stat) ==
  /\ Is("get", "open")
  /\ ses' = [ses EXCEPT !.pc = "ask", !.fd = None, !.range = None, !.match = None,
               !.answer = Respond(stat),
               !.known = @ \cup {[tag |-> Tag(stat), body |-> ses.fd]}]
  /\ UNCHANGED <<now, file, ops>>

GetAnswer_StatPath ==
  /\ Is("get", "open")
  /\ Answer(IF file[ses.key] = None THEN ses.fd ELSE file[ses.key])

GetAnswer == Is("get", "open") /\ Answer(ses.fd)

\* HEAD looks for the file, then opens it.
HeadExists ==
  /\ Is("get", "ask") /\ ses.gets < MaxGets
  /\ ses' = [ses EXCEPT !.gets = @ + 1,
               !.pc = IF file[ses.key] = None THEN "ask" ELSE "head",
               !.answer = IF file[ses.key] = None THEN [status |-> 404] ELSE NoAnswer]
  /\ UNCHANGED <<now, file, ops>>

HeadAnswer ==
  LET f == file[ses.key]
  IN  /\ Is("get", "head")
      /\ ses' = IF f = None THEN [ses EXCEPT !.pc = "ask", !.answer = [status |-> 404]]
                ELSE [ses EXCEPT !.pc = "ask", !.answer = [status |-> 200],
                                 !.known = @ \cup {[tag |-> Tag(f), body |-> f]}]
      /\ UNCHANGED <<now, file, ops>>

-----------------------------------------------------------------------------
(* Signed URLs.                                                            *)

\* 64-bit arithmetic.
Wrap(n) == ((n + Word) % (2 * Word)) - Word

\* The duration of n seconds, limited.
Lifetime(n) ==
  LET d == Wrap(n * TicksPerSecond)
      most == MostLifetime * TicksPerSecond
  IN  IF d <= 0 THEN DefaultLifetime * TicksPerSecond
      ELSE IF d > most THEN most ELSE d

ExpiryOf_RoundedUp(t) == (t + TicksPerSecond - 1) \div TicksPerSecond

\* Unix(): whole seconds.
ExpiryOf(t) == t \div TicksPerSecond

\* createSignedURL: the object must exist; it is opened and closed.
SignURL(k, n) ==
  /\ ses = Idle("url")
  /\ file[k] # None
  /\ ses' = [kind |-> "url", pc |-> "ask", key |-> k, asked |-> n, made |-> now,
             exp |-> ExpiryOf(now + Lifetime(n)), at |-> now, status |-> 0]
  /\ UNCHANGED <<now, file, ops>>

\* Signer.Verify, for the URL as it was made.
VerifyURL ==
  /\ Is("url", "ask")
  /\ ses' = IF now > ses.exp * TicksPerSecond
            THEN [ses EXCEPT !.at = now, !.status = 410]
            ELSE [ses EXCEPT !.at = now, !.pc = "open", !.status = 0]
  /\ UNCHANGED <<now, file, ops>>

OpenURL ==
  /\ Is("url", "open")
  /\ ses' = [ses EXCEPT !.pc = "ask", !.status = IF file[ses.key] = None THEN 404 ELSE 200]
  /\ UNCHANGED <<now, file, ops>>

-----------------------------------------------------------------------------
Init == /\ now = 1 /\ ops = 0
        /\ \E kind \in Kinds : ses = Idle(kind)
        /\ \E S \in SUBSET In.keys, s \in In.sizes :
             file = [k \in Keys |-> IF k \in S THEN [upload |-> 0, size |-> s, mtime |-> 0]
                                    ELSE None]

Writers == \/ \E k \in In.keys, s \in In.sizes, t \in {now - 1, now} : Upload(k, s, t)
           \/ \E k \in In.keys : Delete(k)
           \/ \E j, k \in In.keys : Move(j, k)

ListRequest == WalkBegin \/ WalkEnd \/ WalkFails

Get == \/ \E h \in RangeHeaders \cup {None} :
            \/ GetOpen(h, None)
            \/ \E p \in ses.known : GetOpen(h, p.tag)
       \/ GetAnswer
       \/ HeadExists
       \/ HeadAnswer

Next == \/ Writers
        \/ Tick
        \/ \E n \in PageSizes, delimiter \in BOOLEAN : ListBegin(n, delimiter)
        \/ ListRequest
        \/ \E k \in In.keys : GetBegin(k)
        \/ Begun("get") /\ Get
        \/ \E k \in In.keys, n \in Lifetimes : SignURL(k, n)
        \/ VerifyURL
        \/ OpenURL

\* The client goes on asking for pages, and its requests are answered.
Spec == Init /\ [][Next]_vars /\ WF_vars(ListRequest)

-----------------------------------------------------------------------------
Tags == (0..In.time) \X In.sizes

\* Every variable holds a value of its type.
TypeOK ==
  /\ now \in 1..In.time /\ ops \in 0..In.ops
  /\ file \in [Keys -> Files \cup {None}]
  /\ ses.kind \in Kinds
  /\ Begun("list") =>
       /\ ses.pc \in {"ask", "walk", "done"}
       /\ ses.max \in 1..MostKeys
       /\ ses.marker \in Keys \cup {0}
       /\ ses.delimiter => \A k \in ses.keys : Dir[k] = None
       /\ ses.keys \subseteq Keys /\ ses.prefixes \subseteq {Dir[k] : k \in Keys} \ {None}
  /\ Begun("get") =>
       /\ ses.pc \in {"ask", "open", "head"}
       /\ ses.fd \in Files \cup {None}
       /\ ses.known \subseteq [tag : Tags, body : Files]
       /\ ses.answer.status \in {0, 200, 206, 304, 404, 416}
  /\ Begun("url") =>
       /\ ses.pc \in {"ask", "open"}
       /\ ses.status \in {0, 200, 404, 410}
       /\ {ses.exp, ses.made, ses.at} \subseteq Nat

\* Whatever is uploaded, deleted or moved between the requests of a listing and during
\* its walks, no key is returned twice; and when it has ended it has every key that was
\* there all the time, itself or rolled up into its prefix, and none that never was
\* (listObjects: pages cut by max_keys, next_marker, prefixes repeated on later pages).
\* Types are as declared.
ListedOnce ==
  /\ TypeOK
  /\ Begun("list") => ~ses.again
  /\ Is("list", "done") =>
       /\ \A k \in ses.steady : IF ses.delimiter /\ Dir[k] # None
                                THEN Dir[k] \in ses.prefixes ELSE k \in ses.keys
       /\ ses.keys \subseteq ses.ever
       /\ \A d \in ses.prefixes : \E k \in ses.ever : Dir[k] = d

\* A listing ends: every page moves the marker on, and a walk that fails is
\* repeated only as often as files go during it.
ListingEnds == Is("list", "ask") ~> Is("list", "done")

\* Two answers with one ETag are parts of one upload, unless two uploads of the same
\* size were written in the same tick; this includes 304 and moved files
\* (serveFile: mtime and size come from the descriptor that is served).
TagIdentifies ==
  Begun("get") =>
    \A p, q \in ses.known : p.tag = q.tag =>
      p.body = q.body \/ (p.body.mtime = q.body.mtime /\ p.body.size = q.body.size)

\* A partial answer has exactly the bytes asked for, of the file it is taken from, and at
\* least one, unless it is the last bytes of an empty file, which are served as 0 to -1;
\* and a range is refused only if it selects nothing or does not fit into 64 bits.
RangesServed ==
  Begun("get") =>
    LET a == ses.answer
    IN  /\ a.status = 206 =>
             /\ a.start..a.end = Selected(a.range, a.body.size)
             /\ a.start <= a.end \/ (EmptySuffix(a.range, a.body.size) /\ a.end = -1)
        /\ a.status = 416 => ~Fits(a.range) \/ Selected(a.range, a.body.size) = {}

\* What a client asks for in seconds.
WantedLifetime(n) ==
  TicksPerSecond * (IF n <= 0 THEN DefaultLifetime ELSE IF n > MostLifetime THEN MostLifetime ELSE n)

\* A URL opens for the time asked for, up to seven days, and at most a second less, if
\* the number of seconds fits into a duration; one that overflows never makes it longer
\* than seven days
\* (createSignedURL, Generate, Verify: the expiry is cut to whole seconds).
URLLifetime ==
  Begun("url") =>
    /\ ses.status \in {200, 404} => ses.at <= ses.made + MostLifetime * TicksPerSecond
    /\ Wrap(ses.asked * TicksPerSecond) = ses.asked * TicksPerSecond =>
         /\ ses.status \in {200, 404} => ses.at <= ses.made + WantedLifetime(ses.asked)
         /\ ses.status = 410 => ses.at > ses.made + WantedLifetime(ses.asked) - TicksPerSecond
=============================================================================
