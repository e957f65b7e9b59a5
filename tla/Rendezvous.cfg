\* Two clients, one of which would start an external and one an internal server,
\* and a server that starts itself; a client and the bootstrapping process may
\* crash, a server may die, and once a live one is not reached.  A call starts
\* at most one server: as many servers as processes are enough.
CONSTANTS
  c1 = c1
  c2 = c2
  Clients = {c1, c2}
  Bootstrappers = {b1}
  Server = {1, 2, 3}
  CtxPolicy <- MCPolicy
  CallPolicies = {"Robust"}
  MaxDeaths = 1
  MaxRefusals = 1
  Mortal = {c1, b1}
  None = None
SPECIFICATION Spec
INVARIANTS
  OrphansOnlyByFailure
  PublishedStays
  NobodyRejected
PROPERTIES
  CallReturns
  EventuallyServed
CHECK_DEADLOCK FALSE
