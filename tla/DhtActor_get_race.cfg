\* Two threads call get_immutable for the same target at once.
CONSTANTS
  c1 = c1  c2 = c2  t1 = t1  t2 = t2  t3 = t3  p1 = p1  p2 = p2
  None = None
  Callers <- MCCallers
  Targets <- MCTargets
  Payloads <- MCPayloads
  InvalidPayloads <- MCInvalid
  ImmutableTarget <- MCImmutableTarget
  CallerMethods <- SameGetMethods
  CallerTargets <- SamePutTargets
  MaxCalls = 1
  CanDrop <- NoDrops
SPECIFICATION Spec
PROPERTY SendersKeptWhileAwaited
