\* Two threads reading on shared targets; one of them also puts and shuts
\* the node down.  Either thread may drop its handle.
CONSTANTS
  c1 = c1  c2 = c2  t1 = t1  t2 = t2  t3 = t3  p1 = p1  p2 = p2
  None = None
  Callers <- MCCallers
  Targets <- MCTargets
  Payloads <- MCPayloads
  InvalidPayloads <- MCInvalid
  ImmutableTarget <- MCImmutableTarget
  CallerMethods <- ServiceMethods
  CallerTargets <- SharedTargets
  MaxCalls = 2
  CanDrop <- AllDrop
SPECIFICATION Spec
INVARIANT NoOrphanSender
INVARIANT ShutdownIsFinal
PROPERTY ImplementsService
\* After shutdown and exit nothing is enabled.
CHECK_DEADLOCK FALSE
