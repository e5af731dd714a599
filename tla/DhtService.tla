----------------------------- MODULE DhtService -----------------------------
(***************************************************************************)
(* What the Dht handle promises its callers (spec sections 4.7, 7, 8.6),   *)
(* with no actor, queue or reply channels: a service that is running or    *)
(* stopped, and for each caller thread the call it is blocked in.          *)
(*                                                                         *)
(* A call is accepted while the service runs and refused with              *)
(* DhtWasShutdown once it has stopped.  Only a shutdown() call stops it,   *)
(* and shutdown() returns only once it has.  Each accepted call returns    *)
(* one answer of its method's type: info its snapshot, find_node the       *)
(* closest nodes, a GET a value of the kind it asked for or the end of an  *)
(* empty stream, a PUT Ok(target) or a PutError.  Once stopped, pending    *)
(* calls may fail with DhtWasShutdown.  No call ends in a panic.           *)
(***************************************************************************)
CONSTANTS Callers, Targets, None

VARIABLES
  running,   \* the service accepts calls
  pending,   \* the call each caller is blocked in: [method, target], or None
  result     \* what each caller's last call returned

vars == <<running, pending, result>>

Item(tag, id) == [tag |-> tag, id |-> id]

Shut == Item("DhtWasShutdown", None)

\* What a call of the method refused at its send returns.
RefusedAnswer(method) == IF method = "shutdown" THEN Item("unit", None) ELSE Shut

\* The answers a pending call may return, given whether the service runs.
Answers(call) ==
  LET m == call.method
      Own == CASE m = "info"          -> {Item("info", None)}
               [] m = "shutdown"      -> IF running THEN {} ELSE {Item("unit", None)}
               [] m = "find_node"     -> {Item("nodes", None)}
               [] m = "get_peers"     -> {Item("Peers", None), Item("none", None)}
               [] m = "get_immutable" -> {Item("Immutable", None), Item("none", None)}
               [] m = "get_mutable"   -> {Item("Mutable", None), Item("none", None)}
               [] OTHER               -> {Item("ok", call.target)} \cup
                                           {Item("err", e) : e \in {"Preflight", "Concurrency", "Query"}}
  IN Own \cup (IF running \/ m = "shutdown" THEN {} ELSE {Shut})

Call(c, m, t) ==
  /\ running /\ pending[c] = None
  /\ pending' = [pending EXCEPT ![c] = [method |-> m, target |-> t]]
  /\ UNCHANGED <<running, result>>

Refuse(c, m) ==
  /\ ~running /\ pending[c] = None
  /\ result' = [result EXCEPT ![c] = RefusedAnswer(m)]
  /\ UNCHANGED <<running, pending>>

\* The service stops while a shutdown() call is pending.
Stop(c) ==
  /\ running /\ pending[c] # None /\ pending[c].method = "shutdown"
  /\ running' = FALSE
  /\ UNCHANGED <<pending, result>>

Answer(c, out) ==
  /\ pending[c] # None /\ out \in Answers(pending[c])
  /\ pending' = [pending EXCEPT ![c] = None]
  /\ result' = [result EXCEPT ![c] = out]
  /\ UNCHANGED running

Init ==
  /\ running = TRUE
  /\ pending = [c \in Callers |-> None]
  /\ result = [c \in Callers |-> None]

Methods == {"info", "shutdown", "find_node", "get_peers", "announce_peer",
            "get_immutable", "put_immutable", "get_mutable", "put_mutable"}

Next ==
  \E c \in Callers :
    \/ \E m \in Methods, t \in Targets \cup {None} : Call(c, m, t) \/ Refuse(c, m)
    \/ Stop(c)
    \/ pending[c] # None /\ \E out \in Answers(pending[c]) : Answer(c, out)

Spec == Init /\ [][Next]_vars
=============================================================================
