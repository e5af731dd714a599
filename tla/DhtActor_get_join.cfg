\* One thread calls get_peers then find_node on one info hash.
CONSTANTS
  c1 = c1  c2 = c2  t1 = t1  t2 = t2  t3 = t3  p1 = p1  p2 = p2
  None = None
  Callers <- MCCallers
  Targets <- MCTargets
  Payloads <- MCPayloads
  InvalidPayloads <- MCInvalid
  ImmutableTarget <- MCImmutableTarget
  CallerMethods <- OneThreadMethods
  CallerTargets <- OneThreadTargets
  MaxCalls = 2
  CanDrop <- NoDrops
SPECIFICATION Spec
INVARIANT NoQueryDropped
