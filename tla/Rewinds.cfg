\* A conversation of one turn, two sends with a token, a post and a queue request.
CONSTANTS
  h = h
  r1 = r1
  r2 = r2
  p = p
  q = q
  Rewinds = {r1, r2}
  Posts = {p}
  Queued = {q}
  Drain = Drain
  Foreign = Foreign
  History <- OneTurn
  None = None
  MaxTokens = 2
  MaxOdds = 2
SPECIFICATION Spec
INVARIANTS CutIsGone SingleUse CommitsWhatWasSeen CommittedIsQueued
SYMMETRY RewindSymmetry
CHECK_DEADLOCK FALSE
