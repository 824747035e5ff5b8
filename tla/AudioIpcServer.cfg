SPECIFICATION FairSpec
CONSTANTS
  Endpoint = {e1, e2}
  Client = {c1, c2}
  Nobody = nobody
INVARIANTS ThreadsAreJoined RegisteredFdsAreOpen
PROPERTIES CreateHandleReturns ClientIsReleased
