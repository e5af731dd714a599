CONSTANTS
  Blob = Blob
  Empty = Empty
  None = None
  Err = Err

SPECIFICATION Spec

\* One datagram is sent and read; nothing follows it.
CHECK_DEADLOCK FALSE

INVARIANT
  RoundTrip
