SPECIFICATION Spec
CONSTANTS
  t1 = t1  t2 = t2  s1 = s1  s2 = s2  s3 = s3
  Threads <- MCThreads
  Songs <- MCSongs
  Keys <- MCSongs
  Stoll <- MCStoll
  Values <- MCValues
  Capacity = 2
INVARIANT EveryTierYieldsTheLyric
