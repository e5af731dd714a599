\* Two threads on their own targets, no shutdown: every call is answered.
CONSTANTS
  c1 = c1  c2 = c2  t1 = t1  t2 = t2  t3 = t3  p1 = p1  p2 = p2
  None = None
  Callers <- MCCallers
  Targets <- MCTargets
  Payloads <- MCPayloads
  InvalidPayloads <- MCInvalid
  ImmutableTarget <- MCImmutableTarget
  CallerMethods <- IndependentMethods
  CallerTargets <- IndependentTargets
  MaxCalls = 2
  CanDrop <- NoDrops
SPECIFICATION FairSpec
INVARIANT TypeOK
INVARIANT NoQueryDropped
INVARIANT NoOrphanSender
PROPERTY SendersKeptWhileAwaited
PROPERTY CallsReturn
PROPERTY ImplementsService
