SPECIFICATION Spec
CONSTANTS
  Tasks = {a, b}
  x = x
  y = y
  s = s
  m = m
  Objects = {x, y, s, m}
  KindOf <- KindsOf
  Transfers <- Vectors
  MaxLinks = 3
  MaxCalls = 4
  MaxFaults = 1
SYMMETRY Same
INVARIANTS TypeOK Delivered LinksReturned NoDanglingLink 
CHECK_DEADLOCK FALSE
