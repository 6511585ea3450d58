SPECIFICATION FairSpec
CONSTANTS
  a = a
  b = b
  Tasks = {a, b}
  CoreOf <- TwoCores
  Pins <- TwoPins
  Edges = {"rising", "both", "other"}
  MaxCalls = 3
INVARIANTS NoLostEdge  EdgeInv
PROPERTIES EdgesHandled
CHECK_DEADLOCK FALSE
