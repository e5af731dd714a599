------------------------------ MODULE DhtBuild ------------------------------
(***************************************************************************)
(* Building Dht nodes: Dht::new and the start of run() (src/src/dht.rs).   *)
(*                                                                         *)
(* Dht::new spawns the actor thread, sends it a Check message carrying a   *)
(* bounded reply Sender and blocks on the reply.  The actor thread builds  *)
(* the Rpc, binding the UDP socket.  If that succeeds its loop answers     *)
(* Check with Ok(()); if it fails, run() takes one message with try_recv,  *)
(* answers it with the error if it is the Check, and returns, dropping its *)
(* Receiver.  Nothing orders the actor's try_recv after the builder's send.*)
(*                                                                         *)
(* Several nodes are built at once (Testnet::new, bind_twice); those       *)
(* configured with the same explicit port contend for it and Rpc::new      *)
(* fails for every one but the first to bind.  The other causes of a bind  *)
(* error behave the same way.                                              *)
(*                                                                         *)
(* Testnet::new runs beside them on its own thread (cargo runs tests in    *)
(* parallel): it builds the nodes of TestnetOrder one after another with   *)
(* no explicit port, asks the first for its address, and returns on the    *)
(* first build that fails.                                                 *)
(***************************************************************************)
EXTENDS Naturals, Sequences

CONSTANTS
  Nodes,         \* Dht::new calls, each with its own actor thread
  SamePort,      \* the nodes configured with one explicit port
  SpawnMayFail,  \* thread::Builder::spawn may fail
  TestnetOrder   \* the nodes Testnet::new builds, in order

ASSUME /\ SamePort \subseteq Nodes /\ SpawnMayFail \in BOOLEAN
       /\ TestnetOrder \in Seq(Nodes \ SamePort)
       /\ \A i, j \in 1..Len(TestnetOrder) : TestnetOrder[i] = TestnetOrder[j] => i = j

TestnetNodes == {TestnetOrder[i] : i \in 1..Len(TestnetOrder)}

VARIABLES
  builder,       \* Dht::new: "queued" (not yet called), "spawn", "send", "recv", or its end: "ok", "err", "panic"
  actor,         \* run(): "none", "new", "loop", "failed", "returning", "exited"
  queue,         \* each actor channel: the Check message, if queued
  receiverOpen,  \* the actor still holds its channel's Receiver
  reply,         \* what was sent on each bounded Check reply channel
  portHolder,    \* the set of nodes whose socket is bound to the shared port
  testnet,       \* Testnet::new: "building", or returned "ok" or "err"
  built          \* Testnet::new: the number of nodes pushed so far

vars == <<builder, actor, queue, receiverOpen, reply, portHolder, testnet, built>>
testnetVars == <<testnet, built>>

\* The reply Sender lives only inside the queued Check message; the builder
\* keeps the channel (and so its queue) alive while it waits.
ReplySenderHeld(n) == queue[n] # <<>>

-----------------------------------------------------------------------------
(* Dht::new                                                                *)

\* thread::Builder::new().spawn(..)?: on error the closure, and the
\* Receiver it owns, are dropped and the error returned.
Spawn(n) ==
  /\ builder[n] = "spawn"
  /\ \/ /\ builder' = [builder EXCEPT ![n] = "send"]
        /\ actor' = [actor EXCEPT ![n] = "new"]
        /\ UNCHANGED receiverOpen
     \/ /\ SpawnMayFail
        /\ builder' = [builder EXCEPT ![n] = "err"]
        /\ receiverOpen' = [receiverOpen EXCEPT ![n] = FALSE]
        /\ UNCHANGED actor
  /\ UNCHANGED <<queue, reply, portHolder>>
  /\ UNCHANGED testnetVars

\* sender.send(ActorMessage::Check(tx)).expect("actor thread unexpectedly shutdown")
SendCheck(n) ==
  /\ builder[n] = "send"
  /\ \/ /\ receiverOpen[n]
        /\ queue' = [queue EXCEPT ![n] = Append(@, "Check")]
        /\ builder' = [builder EXCEPT ![n] = "recv"]
     \/ /\ ~receiverOpen[n]
        /\ builder' = [builder EXCEPT ![n] = "panic"]
        /\ UNCHANGED queue
  /\ UNCHANGED <<actor, receiverOpen, reply, portHolder>>
  /\ UNCHANGED testnetVars

\* rx.recv().expect("infallible")?
RecvCheck(n) ==
  /\ builder[n] = "recv"
  /\ \/ /\ reply[n] # "none"
        /\ builder' = [builder EXCEPT ![n] = reply[n]]
     \/ /\ reply[n] = "none"
        /\ ~ReplySenderHeld(n)
        /\ builder' = [builder EXCEPT ![n] = "panic"]
  /\ UNCHANGED <<actor, queue, receiverOpen, reply, portHolder>>
  /\ UNCHANGED testnetVars

-----------------------------------------------------------------------------
(* run()                                                                   *)

\* Mutant: the bind ignores who holds the port (as with SO_REUSEPORT).
RpcNewReusePort(n) ==
  /\ actor[n] = "new"
  /\ actor' = [actor EXCEPT ![n] = "loop"]
  /\ portHolder' = IF n \in SamePort THEN portHolder \cup {n} ELSE portHolder
  /\ UNCHANGED <<builder, queue, receiverOpen, reply>>
  /\ UNCHANGED testnetVars

\* Rpc::new binds the socket: the shared port only if no one holds it.
RpcNew(n) ==
  /\ actor[n] = "new"
  /\ \/ /\ n \notin SamePort \/ portHolder = {}
        /\ actor' = [actor EXCEPT ![n] = "loop"]
        /\ portHolder' = IF n \in SamePort THEN {n} ELSE portHolder
     \/ /\ n \in SamePort /\ portHolder # {}
        /\ actor' = [actor EXCEPT ![n] = "failed"]
        /\ UNCHANGED portHolder
  /\ UNCHANGED <<builder, queue, receiverOpen, reply>>
  /\ UNCHANGED testnetVars

\* The loop's try_recv takes the Check and answers Ok(()).
LoopCheck(n) ==
  /\ actor[n] = "loop"
  /\ queue[n] # <<>>
  /\ queue' = [queue EXCEPT ![n] = Tail(@)]
  /\ reply' = [reply EXCEPT ![n] = "ok"]
  /\ UNCHANGED <<builder, actor, receiverOpen, portHolder>>
  /\ UNCHANGED testnetVars

\* Mutant: the failed branch answers the Check with Ok(()).
FailedTryRecvOk(n) ==
  /\ actor[n] = "failed"
  /\ \/ /\ queue[n] # <<>>
        /\ queue' = [queue EXCEPT ![n] = Tail(@)]
        /\ reply' = [reply EXCEPT ![n] = "ok"]
     \/ /\ queue[n] = <<>>
        /\ UNCHANGED <<queue, reply>>
  /\ actor' = [actor EXCEPT ![n] = "returning"]
  /\ UNCHANGED <<builder, receiverOpen, portHolder>>
  /\ UNCHANGED testnetVars

\* if let Ok(ActorMessage::Check(sender)) = receiver.try_recv() { send(Err(err)) }
FailedTryRecv(n) ==
  /\ actor[n] = "failed"
  /\ \/ /\ queue[n] # <<>>
        /\ queue' = [queue EXCEPT ![n] = Tail(@)]
        /\ reply' = [reply EXCEPT ![n] = "err"]
     \/ /\ queue[n] = <<>>
        /\ UNCHANGED <<queue, reply>>
  /\ actor' = [actor EXCEPT ![n] = "returning"]
  /\ UNCHANGED <<builder, receiverOpen, portHolder>>
  /\ UNCHANGED testnetVars

\* run() returns and drops its Receiver.
RunReturns(n) ==
  /\ actor[n] = "returning"
  /\ actor' = [actor EXCEPT ![n] = "exited"]
  /\ receiverOpen' = [receiverOpen EXCEPT ![n] = FALSE]
  /\ UNCHANGED <<builder, queue, reply, portHolder>>
  /\ UNCHANGED testnetVars

-----------------------------------------------------------------------------
(* Testnet::new                                                            *)

\* The node the loop is at: TestnetOrder[built + 1].
TestnetNext == TestnetOrder[built + 1]

\* Dht::builder().server().bootstrap(..).build() for the next node.
TestnetBuild ==
  /\ testnet = "building" /\ built < Len(TestnetOrder)
  /\ builder[TestnetNext] = "queued"
  /\ builder' = [builder EXCEPT ![TestnetNext] = "spawn"]
  /\ UNCHANGED <<actor, queue, receiverOpen, reply, portHolder, testnetVars>>

\* The build returned Ok: the first node is asked for its address
\* (info().expect(..).local_addr.expect(..), answered by its running loop),
\* the node is pushed, and Ok(Testnet) is returned after the last one.
TestnetPush ==
  /\ testnet = "building" /\ built < Len(TestnetOrder)
  /\ builder[TestnetNext] = "ok"
  /\ built = 0 => actor[TestnetNext] = "loop"
  /\ built' = built + 1
  /\ testnet' = IF built + 1 = Len(TestnetOrder) THEN "ok" ELSE "building"
  /\ UNCHANGED <<builder, actor, queue, receiverOpen, reply, portHolder>>

\* build()? returns the error; the nodes built so far are dropped without
\* shutdown(), so their actor threads keep running.
TestnetFail ==
  /\ testnet = "building" /\ built < Len(TestnetOrder)
  /\ builder[TestnetNext] = "err"
  /\ testnet' = "err"
  /\ UNCHANGED <<builder, actor, queue, receiverOpen, reply, portHolder, built>>

-----------------------------------------------------------------------------

Init ==
  /\ builder = [n \in Nodes |-> IF n \in TestnetNodes THEN "queued" ELSE "spawn"]
  /\ actor = [n \in Nodes |-> "none"]
  /\ queue = [n \in Nodes |-> <<>>]
  /\ receiverOpen = [n \in Nodes |-> TRUE]
  /\ reply = [n \in Nodes |-> "none"]
  /\ portHolder = {}
  /\ testnet = IF TestnetOrder = <<>> THEN "ok" ELSE "building"
  /\ built = 0

BuilderStep(n) == Spawn(n) \/ SendCheck(n) \/ RecvCheck(n)
ActorStep(n)   == RpcNew(n) \/ LoopCheck(n) \/ FailedTryRecv(n) \/ RunReturns(n)

TestnetStep == TestnetBuild \/ TestnetPush \/ TestnetFail

Next == (\E n \in Nodes : BuilderStep(n) \/ ActorStep(n)) \/ TestnetStep

\* Every thread runs unimpeded; a builder's recv wakes once a reply or a
\* disconnection is there.
Spec == Init /\ [][Next]_vars
          /\ \A n \in Nodes : WF_vars(BuilderStep(n)) /\ WF_vars(ActorStep(n))
          /\ WF_vars(TestnetStep)

-----------------------------------------------------------------------------

TypeOK ==
  /\ builder \in [Nodes -> {"queued", "spawn", "send", "recv", "ok", "err", "panic"}]
  /\ actor \in [Nodes -> {"none", "new", "loop", "failed", "returning", "exited"}]
  /\ \A n \in Nodes : queue[n] \in Seq({"Check"}) /\ Len(queue[n]) <= 1
  /\ receiverOpen \in [Nodes -> BOOLEAN]
  /\ reply \in [Nodes -> {"none", "ok", "err"}]
  /\ portHolder \in {{}} \cup {{n} : n \in SamePort}
  /\ testnet \in {"building", "ok", "err"}
  /\ built \in 0..Len(TestnetOrder)

\* Dht::new returns Ok only for a node whose Rpc was built and whose actor
\* loop runs: a node that lost the port (bind_twice) never yields a handle,
\* and of the nodes sharing the port at most one is returned.
OkOnlyIfBound ==
  \A n \in Nodes :
    builder[n] = "ok" => actor[n] = "loop" /\ (n \in SamePort => portHolder = {n})

\* Each Dht::new returns Ok or the bind error: it neither panics on one of
\* its expects nor blocks forever (spec 7, BindFailure; test bind_twice).
NewReturnsResult == \A n \in Nodes : <>(builder[n] \in {"ok", "err"})
=============================================================================
