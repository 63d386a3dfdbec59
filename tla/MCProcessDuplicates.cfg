CONSTANTS
  None = None
  Bad = Bad
  a = a
  b = b
  c = c
  s0 = s0
  s1 = s1
  s2 = s2
  Address = {a, b, c}
  Setting = {s0, s1, s2}
  MaxV4 = 3
  MaxV6 = 5
  MaxCount6 = 4
  MaxDuid = 2
  Defaults <- MCDefaults
  Files <- MCFiles
SPECIFICATION Spec
CHECK_DEADLOCK FALSE
INVARIANTS LastDuplicateWins
