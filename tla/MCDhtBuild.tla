----------------------------- MODULE MCDhtBuild -----------------------------
(***************************************************************************)
(* Instances of DhtBuild for TLC: nodes are model values; the Testnet      *)
(* build order is a sequence of them, which a configuration file cannot    *)
(* write.                                                                  *)
(***************************************************************************)
EXTENDS DhtBuild

CONSTANTS n1, n2, n3, n4, n5

\* Testnet::new(2) beside the bind_twice nodes.
TwoNodeTestnet == <<n4, n5>>

\* No Testnet running.
NoTestnet == <<>>
=============================================================================
