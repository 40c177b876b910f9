SPECIFICATION FairSpec
CONSTANTS
  MaxRuns = 2
  MaxEvents = 3
  MaxReads = 3
  MaxTokens = 3
  MaxAsk = 3
  Queries = {q1, q2}
  Endpoints = {e1, e2}
  Dirs = {d1, d2}
  MaxCmds = 2
  Assets = {a1, a2}
  MaxPulls = 3
  MaxFrames = 2
  MaxResults = 1
  Cards = {c1, c2}
  MaxBlooms = 2
INVARIANTS
  ShownIsCurrent
  LoopsMatch
  FreshToken
  Modal
PROPERTIES
  SnapshotsForward
  OneEscape
  Resolves
CHECK_DEADLOCK FALSE
