\* A thread asks for info, then every thread drops its handle without
\* calling shutdown().
CONSTANTS
  c1 = c1  c2 = c2  t1 = t1  t2 = t2  t3 = t3  p1 = p1  p2 = p2
  None = None
  Callers <- MCCallers
  Targets <- MCTargets
  Payloads <- MCPayloads
  InvalidPayloads <- MCInvalid
  ImmutableTarget <- MCImmutableTarget
  CallerMethods <- InfoOnlyMethods
  CallerTargets <- OneTargetEach
  MaxCalls = 1
  CanDrop <- AllDrop
SPECIFICATION FairSpec
PROPERTY StopsWhenUnreferenced
