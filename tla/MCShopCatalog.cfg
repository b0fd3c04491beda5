CONSTANTS
  None = None
  Emails = {e1}
  Collections = {1}
  Wanted = {1, 2}
  Pairs <- MCPairs
  Amounts <- MCAmounts
  Targets = {t1}
  Fixtures <- MCFixtures
  Samples <- MCSamples
  MaxInserts = 3
  MaxStock = 1
  MaxTime = 1
  MaxFaults = 1
SPECIFICATION Spec
CHECK_DEADLOCK FALSE
INVARIANTS
  LinksKeepTheirProduct
  
  StockIsSum
  
