\* Two uploads or role requests with one cookie or two, one content or two,
\* over two windows and one lifetime of a challenge.
CONSTANTS
  Challenges = {c1, c2}
  Submissions = {s1, s2}
  Contents = {h1, h2}
  Upload = Upload
  NoOne = NoOne
  Ttl = 2
  Window = 1
  MaxClock = 2
SPECIFICATION FairSpec
INVARIANTS
  OneUse
  WindowHolds
PROPERTIES
  ActsAtomically
  EveryoneAnswered
CHECK_DEADLOCK FALSE
