\* Searches for separators of up to three bytes, in pieces of one, two and five bytes.
SPECIFICATION BoundsSpec
CONSTANTS
  r1 = r1
  r2 = r2
  r3 = r3
  r4 = r4
  Items = {1, 2, 3}
  Reqs = {r1, r2, r3, r4}
  Max <- MCMax
  Matches <- MCMatches
  Nobody = Nobody
  Uuids = {u1, u2, u3, u4}
  Registrars = {reg}
  Renewers = {ren}
  Droppers = {drop}
  Checkers = {chk}
  max = 2
  None = None
  MaxKeyCalls = 2
  Readers = {g1, g2}
  MaxSize = 3
  MaxBufOps = 4
  MaxPiece = 2
  Sizes = {0, 3, 7}
  Breaks = {2, 4, 5}
  CopyConfigs <- MCConfigs
  Chunk = 4
  BufLens = {0, 1, 3, 7}
  Texts <- MCTexts
  Seps <- MCSeps
  Pers = {1, 2, 5}
  Maxs = {2, 9}
  Bufs <- MCBufs
  MaxSearches = 2
INVARIANTS
  UntilStops
CHECK_DEADLOCK FALSE
