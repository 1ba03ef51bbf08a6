SPECIFICATION Spec
CONSTANTS
  t1 = t1  t2 = t2  n1 = n1  n2 = n2  mail = mail  p1 = p1  p2 = p2  c1 = c1
  None = None
  Threads <- MCThreads
  Names <- MCNames
  Targets <- MCTargets
  Passwords <- MCPasswords
  Codes <- MCCodes
  CodeTTL = 1
  TokenTTL = 0
  RefreshTTL = 1
  MaxTime = 2
  MaxCalls = 3
SYMMETRY Symmetry
PROPERTY ResetMeansChanged
