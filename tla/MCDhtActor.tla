----------------------------- MODULE MCDhtActor -----------------------------
(***************************************************************************)
(* Instances of DhtActor for TLC.  Callers, targets and payloads are model *)
(* values declared here; each configuration gives the methods and targets  *)
(* each caller thread uses.                                                *)
(***************************************************************************)
EXTENDS DhtActor, TLC

CONSTANTS c1, c2, t1, t2, t3, p1, p2

MCCallers  == {c1, c2}
MCTargets  == {t1, t2, t3}
MCPayloads == {p1, p2}

\* p2 is an oversized value: put_immutable/put_mutable reject it.  Both
\* values hash to t1, so t1 holds an immutable item and t2, t3 mutable ones.
MCInvalid == {p2}
MCImmutableTarget == (p1 :> t1) @@ (p2 :> t1)

\* Independent use, as in the tests: each thread has its own targets, and
\* calls on one target from one thread follow one another.
IndependentMethods ==
  (c1 :> {"info", "get_immutable", "put_immutable", "get_mutable", "put_mutable"})
  @@ (c2 :> {"find_node", "announce_peer"})
IndependentTargets == (c1 :> {t1, t3}) @@ (c2 :> {t2})

\* Every method, shared targets, shutdown included.
AllMethods == [c \in MCCallers |-> Methods]
SharedTargets == [c \in MCCallers |-> {t1, t2}]

\* Two threads putting the same immutable value (repeated_put_query run
\* concurrently).
SamePutMethods == [c \in MCCallers |-> {"put_immutable"}]
SamePutTargets == [c \in MCCallers |-> {t1}]

\* One thread: get_peers then find_node on the same info hash.
OneThreadMethods == (c1 :> {"get_peers", "find_node"}) @@ (c2 :> {})
OneThreadTargets == (c1 :> {t1}) @@ (c2 :> {})

\* Two threads fetch the same immutable value at once.
SameGetMethods == [c \in MCCallers |-> {"get_immutable"}]

\* One thread puts or gets while another shuts the node down.
PutVsShutdownMethods == (c1 :> {"put_immutable"}) @@ (c2 :> {"shutdown"})
GetVsShutdownMethods == (c1 :> {"get_immutable"}) @@ (c2 :> {"shutdown"})
OneTargetEach == [c \in MCCallers |-> {t1}]

\* Both threads read; one of them also puts and shuts the node down, so a
\* PUT is never in flight at shutdown nor joined by another thread, and
\* no thread calls find_node: every disconnection is an answer, not a panic.
ServiceMethods ==
  (c1 :> {"info", "shutdown", "get_immutable", "get_peers",
          "announce_peer", "put_immutable", "put_mutable"})
  @@ (c2 :> {"info", "get_mutable", "get_peers"})

\* Which threads may drop their Dht handle.
NoDrops == {}
AllDrop == MCCallers

\* One thread asks for info and then drops its handle, as does the other.
InfoOnlyMethods == (c1 :> {"info"}) @@ (c2 :> {})
=============================================================================
