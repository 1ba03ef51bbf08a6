SPECIFICATION Spec
CONSTANTS
  a = a  b = b  c = c  d = d  noid = noid
  Songs <- MCSongs
  Numbered <- MCNumbered
  Charged <- MCCharged
  MaxFound = 2
  MaxTracks = 3
  MaxKeywords = 2
  Enough = 3
  Most = 4
SYMMETRY Symmetry
INVARIANTS TypeOK NoSongTwice TracksThenTopUps LinkedAllOrNone
