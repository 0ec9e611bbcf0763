SPECIFICATION TransportSpec
CONSTANTS
  d1 = d1
  d2 = d2
  p0 = p0
  p1 = p1
  c1 = c1
  None = None
  Foreign = Foreign
  Dispatchers = {d1, d2}
  Paths = {p0, p1}
  Channels = {c1}
  Dest <- MCDest
  Channel <- MCChannel
  Retention = 1
  MaxDay = 4
  Pasts <- MCPasts
INVARIANTS
  PublishedIsOurs
PROPERTIES
  UnrepliedKept
CHECK_DEADLOCK FALSE
