\* Four keys, two of them with a common prefix. An empty file, and one with ranges on both sides of its end;
\* 9 is the largest int64. A second is two ticks; nine seconds, or minus nine, overflow a duration.
CONSTANTS
  dir = dir  None = None
  Absent = Absent  Malformed = Malformed  Refused = Refused
  Keys = {1, 2, 3, 4}
  Dir <- MCDir
  DefaultKeys = 2
  MostKeys = 3
  PageSizes = {0, 1, 7}
  MaxInt = 9
  RangeHeaders <- MCHeaders
  Lifetimes <- MCLifetimes
  DefaultLifetime = 1
  MostLifetime = 2
  TicksPerSecond = 2
  Word = 16
  MaxGets = 3
  Scope <- MCScope
SPECIFICATION Spec
INVARIANTS
  ListedOnce
  TagIdentifies
  RangesServed
  URLLifetime
PROPERTY
  ListingEnds
CHECK_DEADLOCK FALSE
