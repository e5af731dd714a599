\* Two nodes on one explicit port (bind_twice): does each Dht::new return?
CONSTANTS
  n1 = n1  n2 = n2  n3 = n3  n4 = n4  n5 = n5
  Nodes = {n1, n2}
  SamePort = {n1, n2}
  SpawnMayFail = FALSE
  TestnetOrder <- NoTestnet
SPECIFICATION Spec
PROPERTY NewReturnsResult
CHECK_DEADLOCK FALSE
