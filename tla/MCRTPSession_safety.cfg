\* Two collisions, failing calls and a poll thread that may be killed.  A
\* session that was destroyed stops.
SPECIFICATION Spec
CONSTANTS
  Addr = {p1, p2}
  Fails = {"poll", "send", "leave"}
  CanKill = TRUE
  MaxSSRC = 3
  MaxRaw = 2
INVARIANTS NoCircularWait SSRCsAgree NoDataAfterBye
INVARIANTS GoodbyePromised ByesScheduled
CHECK_DEADLOCK FALSE
