\* Three nodes built at once, two of them on one explicit port (bind_twice),
\* thread spawn may fail, while Testnet::new builds two more nodes in turn.
\* Each builder stops once Dht::new returns.
CONSTANTS
  n1 = n1  n2 = n2  n3 = n3  n4 = n4  n5 = n5
  Nodes = {n1, n2, n3, n4, n5}
  SamePort = {n1, n2}
  SpawnMayFail = TRUE
  TestnetOrder <- TwoNodeTestnet
SPECIFICATION Spec
INVARIANT TypeOK
INVARIANT OkOnlyIfBound
CHECK_DEADLOCK FALSE
