\* The loop against one request or one panel restart.
CONSTANTS
  poll = poll
  h1 = h1
  Nobody = Nobody
  Poll = poll
  Workers = {}
  Handlers = {h1}
  MaxUsage = 1
  MaxEvents = 1
SPECIFICATION FairSpec

PROPERTIES OveruseStopped ServiceRestored
