SPECIFICATION Spec
CONSTANTS
  Node = {n1}
  Conn = {c1, c2}
  None = None
  Delivery = "buffer"
  MaxPush = 6
  MaxReply = 0
  MaxCount = 3
  BufferLimit = 2
  Allowed <- Drops
  FleetNode = {m1, m2}
INVARIANTS ReplayIsComplete ClientIsAttached
PROPERTIES NewestArrives FleetStreamsEnd
