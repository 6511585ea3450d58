SPECIFICATION Spec
CONSTANTS
  a = a
  b = b
  h = h
  v = v
  w = w
  sh = sh
  sa = sa
  sb = sb
  None = None
  Tasks = {a, b}
  Objects = {h, v, w}
  OwnerOf <- TheOwners
  NumOf <- TheNums
  GivenPins <- ThePins
  Slaves = {sh, sa, sb}
  SlaveOf <- TheSlaves
  Wires <- TheWires
  Freqs = {1, 2, 3}
  Default = 1
  DivOf <- TheDivs
  Sizes = {0, 65}
  Longest = 2
  MaxCalls = 5
INVARIANTS TypeOK WholeMessage  SelectedInMessage Released
CHECK_DEADLOCK FALSE
