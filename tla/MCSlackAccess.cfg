CONSTANTS
  c1 = c1
  c2 = c2
  app = app
  stranger = stranger
  here = here
  elsewhere = elsewhere
  code = code
  token = token
  none = none
  None = none
  Codes <- MCCodes
  Grants <- MCGrants
  Seeded <- MCSeeded
  Clients <- MCClients
  Registered <- MCRegistered
  Uris <- MCUris
  Requests <- MCRequests
  Methods <- MCMethods
  ScopesOf <- MCScopesOf
  Limited <- MCLimited
  Limit <- MCLimit
  Stubs <- MCStubs
  LookFirst <- MCLookFirst
  Callers <- MCCallers
  Window = 2
  Persistent = FALSE
  MaxTime = 3
  MaxFaults = 1
SPECIFICATION Spec
INVARIANT ServedWithinScope
 
 
PROPERTY CodesAreSingleUse
CHECK_DEADLOCK FALSE
