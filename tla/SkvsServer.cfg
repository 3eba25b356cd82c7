\* As many clients as workers; a reply is two pieces and fills the socket's
\* buffer.  Liveness, so no symmetry.
SPECIFICATION FairSpec
CONSTANTS
  Clients = {c1, c2}
  Workers = {w1, w2}
  MaxRequests <- MCMaxRequests
  ReplySegments = 2
  SendRoom = 2
  BUFFER_SIZE = 2
  CallsMayFail = TRUE
INVARIANTS
  OneOwner
  ExactlyOnce
  ReplyMatches
PROPERTIES
  ShutdownCompletes
  RequestsAnswered
\* The service ends: the table is destroyed, or the process died, and every
\* client is done.
CHECK_DEADLOCK FALSE
