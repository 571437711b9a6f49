\* The poll thread and the leaving application see calls fail, and the poll
\* thread may be killed wherever it is.  A SendPacket that fails at once could
\* be repeated for ever while the poll thread waits for the builder, so sending
\* does not fail here.
\* One address is enough for two collisions, as the collision list times out.
\* A session that was destroyed stops.
SPECIFICATION Spec
CONSTANTS
  Addr = {p1}
  Fails = {"poll", "leave"}
  CanKill = TRUE
  MaxSSRC = 3
  MaxRaw = 1
PROPERTIES LeaveReturns SourcesReleased
CHECK_DEADLOCK FALSE
