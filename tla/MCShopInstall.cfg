CONSTANTS
  c1 = c1
  c2 = c2
  refreshed = refreshed
  given = given
  dev = dev
  other = other
  None = None
  Codes <- MCCodes
  Direct <- MCDirect
  Seeded <- MCSeeded
  Shops <- MCShops
  OAuthShop = dev
  Lifetime = 1
  MaxCharges = 2
  MaxTime = 3
  MaxFaults = 1
SPECIFICATION Spec
 
PROPERTY CodesAreSingleUse
PROPERTY ChargesAdvance
CHECK_DEADLOCK FALSE
