\* Two threads put the same immutable value at once (spec 4.6.2, 8.5).
CONSTANTS
  c1 = c1  c2 = c2  t1 = t1  t2 = t2  t3 = t3  p1 = p1  p2 = p2
  None = None
  Callers <- MCCallers
  Targets <- MCTargets
  Payloads <- MCPayloads
  InvalidPayloads <- MCInvalid
  ImmutableTarget <- MCImmutableTarget
  CallerMethods <- SamePutMethods
  CallerTargets <- SamePutTargets
  MaxCalls = 1
  CanDrop <- NoDrops
SPECIFICATION Spec
INVARIANT NoQueryDropped
