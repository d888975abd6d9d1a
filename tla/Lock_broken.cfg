CONSTANTS
  w1 = w1
  w2 = w2
  w3 = w3
  s1 = s1
  r1 = r1
  Prior = Prior
  Elsewhere = Elsewhere
  Nobody = Nobody
  Writers <- TwoWriters
  Strict <- None
  Recoverers <- None
SPECIFICATION Spec
CHECK_DEADLOCK FALSE
PROPERTIES
  LiveLockNeverBroken
