------------------------------ MODULE DhtActor ------------------------------
(***************************************************************************)
(* The Dht handle and its actor thread (src/src/dht.rs).                   *)
(*                                                                         *)
(* Caller threads hold clones of the Dht handle, a flume Sender of         *)
(* ActorMessage.  Each public method sends one message carrying a fresh    *)
(* reply Sender and then blocks on the matching Receiver.  The actor       *)
(* thread (run) loops: try_recv one message and handle it, then call       *)
(* rpc.tick() and dispatch its report to the reply senders it keeps in     *)
(* put_senders and get_senders, two maps keyed by target.                  *)
(*                                                                         *)
(* The Rpc is not in this repository: its put/get/tick are modelled from   *)
(* the spec (sections 4.6, 4.7) at the level the actor sees them: a table  *)
(* of live GET queries and one of live PUT queries, both keyed by target.  *)
(*                                                                         *)
(* A reply channel is identified by <<caller, call number>>.  Only the     *)
(* first item sent on it is kept: every caller reads at most one item.     *)
(***************************************************************************)
EXTENDS Naturals, Sequences, FiniteSets

CONSTANTS
  Callers,          \* threads, each holding a clone of the Dht handle
  Targets,          \* Ids used as targets and info hashes
  Payloads,         \* fingerprints of put payloads (values, ports, items)
  InvalidPayloads,  \* payloads Rpc::put rejects in its preflight check
  ImmutableTarget,  \* hash_immutable: the target of each immutable value
  CallerMethods,    \* the Dht methods each caller thread calls
  CallerTargets,    \* the targets each caller thread uses
  MaxCalls,         \* number of calls each caller thread makes
  CanDrop,          \* the caller threads that may drop their handle
  None

Methods == {"info", "shutdown", "find_node", "get_peers", "announce_peer",
            "get_immutable", "put_immutable", "get_mutable", "put_mutable"}
PutMethods == {"announce_peer", "put_immutable", "put_mutable"}

ASSUME /\ InvalidPayloads \subseteq Payloads
       /\ ImmutableTarget \in [Payloads -> Targets]
       /\ CallerMethods \in [Callers -> SUBSET Methods]
       /\ CallerTargets \in [Callers -> SUBSET Targets]
       /\ MaxCalls \in Nat \ {0}
       /\ CanDrop \subseteq Callers

Channels   == Callers \X (1..MaxCalls)
QueryKinds == {"FindNode", "GetPeers", "GetValue"}   \* RequestTypeSpecific
Sinks      == {"ClosestNodes", "Peers", "Mutable", "Immutable"} \* ResponseSender
Responses  == {"Peers", "Mutable", "Immutable"}      \* rpc::Response
PutErrors  == {"Preflight", "Concurrency", "Query"}  \* rpc::PutError kinds

\* What a reply channel can carry, and what a call can return.
Item(tag, id) == [tag |-> tag, id |-> id]
Items    == {Item(g, None) : g \in {"unit", "info", "nodes"} \cup Responses}
              \cup {Item("ok", t) : t \in Targets}
              \cup {Item("err", e) : e \in PutErrors}
Outcomes == Items \cup {Item(g, None) : g \in {"none", "DhtWasShutdown"}}

Message == [type : {"Info", "Shutdown", "Put", "Get"}, ch : Channels,
            target : Targets \cup {None}, req : QueryKinds \cup {None},
            sink : Sinks \cup {None}, payload : Payloads \cup {None}]
Msg(type, ch, t, req, sink, p) ==
  [type |-> type, ch |-> ch, target |-> t, req |-> req, sink |-> sink, payload |-> p]

VARIABLES
  queue,         \* the unbounded flume channel from the handles to the actor
  receiverOpen,  \* the actor still holds the channel's Receiver
  actor,         \* run(): "recv" (try_recv), "tick", "exiting", "exited"
  put_senders,   \* run()'s put_senders: target -> reply channel
  get_senders,   \* run()'s get_senders: target -> [ch, sink]
  getQueries,    \* Rpc: live iterative GET query per target
  putQueries,    \* Rpc: the live PUT query per target: its payload, and whether
                 \* a PUT of a different payload arrived while it ran
  pc,            \* caller thread: "idle", "wait" (blocked in recv), "panicked"
  call,          \* the call each caller is in: [method, ch, target]
  calls,         \* number of calls each caller has made
  chan,          \* the first item sent on each reply channel
  result,        \* what each caller's last call returned
  shutdownDone,  \* history: some shutdown() call has returned
  afterShutdown, \* history: the caller's current call began after that
  handles        \* the caller threads still holding a clone of the Dht handle

actorVars  == <<queue, receiverOpen, actor, put_senders, get_senders>>
rpcVars    == <<getQueries, putQueries>>
callerVars == <<pc, call, calls, chan, result, shutdownDone, afterShutdown, handles>>
vars == <<actorVars, rpcVars, callerVars>>

-----------------------------------------------------------------------------
(* Reply channels.                                                         *)

\* The receiving half is alive only while its caller blocks on it.
ReceiverAlive(ch) == \E c \in Callers : pc[c] = "wait" /\ call[c].ch = ch

\* A reply Sender lives inside a queued message (the flume channel keeps
\* its queue while any handle exists, even after the Receiver is dropped)
\* or in one of run()'s two maps.
SenderHeld(ch) ==
  \/ \E i \in 1..Len(queue) : queue[i].ch = ch
  \/ \E t \in Targets : put_senders[t] = ch
  \/ \E t \in Targets : get_senders[t] # None /\ get_senders[t].ch = ch

\* Sends of a set of <<ch, item>> pairs, at most one per channel.  A send
\* to a dropped Receiver fails and is ignored (let _ = sender.send(..)).
DeliverAll(D) ==
  [ch \in Channels |->
     IF chan[ch] = None /\ ReceiverAlive(ch) /\ \E d \in D : d[1] = ch
       THEN (CHOOSE d \in D : d[1] = ch)[2]
       ELSE chan[ch]]

\* send(): routes a Response only to the sink of the same variant.
SendResponse(s, r) == IF s.sink = r THEN {<<s.ch, Item(r, None)>>} ELSE {}

-----------------------------------------------------------------------------
(* The Rpc as the actor sees it (spec 4.6, 4.7).                           *)

LiveGets == {t \in Targets : getQueries[t] # None}
LivePuts == {t \in Targets : putQueries[t] # None}

\* The responses a GET query can stream: none for FindNode, peers for
\* GetPeers, and for GetValue the item kind stored at the target.
QueryResponses(t, kind) ==
  CASE kind = "FindNode" -> {}
    [] kind = "GetPeers" -> {"Peers"}
    [] kind = "GetValue" ->
         IF \E p \in Payloads : ImmutableTarget[p] = t
           THEN {"Immutable"} ELSE {"Mutable"}

\* Rpc::put returns an error synchronously only when preflight validation
\* fails (spec 4.7).
\* Mutant: the preflight check is skipped.
RpcPutErrorNoPreflight(t, p) == None

RpcPutError(t, p) == IF p \in InvalidPayloads THEN "Preflight" ELSE None

\* Otherwise the PUT is registered: it starts a query, joins an identical
\* in-flight one (spec 4.6.2), or, for a different payload, is recorded
\* against the in-flight query, whose result then may be PutConcurrency
\* (spec 7: surfaced as the PUT result).
RpcPutQueries(t, p) ==
  CASE RpcPutError(t, p) # None        -> putQueries
    [] putQueries[t] = None            -> [putQueries EXCEPT ![t] = [payload |-> p, conflict |-> FALSE]]
    [] putQueries[t].payload = p       -> putQueries
    [] OTHER                           -> [putQueries EXCEPT ![t].conflict = TRUE]

\* Rpc::get: a live query for the target is reused and its responses so
\* far are returned; otherwise a new query of the request's kind starts.
RpcGetCached(t) == IF getQueries[t] # None THEN getQueries[t].responses ELSE {}

RpcGetQueries(t, kind) ==
  IF getQueries[t] # None THEN getQueries
  ELSE [getQueries EXCEPT ![t] = [kind |-> kind, responses |-> {}]]

-----------------------------------------------------------------------------
(* Caller threads: the public methods of Dht.                              *)

NextCh(c) == <<c, calls[c] + 1>>

\* What a method returns when the send to the actor fails.
Refused(method) ==
  IF method = "shutdown" THEN Item("unit", None) ELSE Item("DhtWasShutdown", None)

\* Send m to the actor; a send after the Receiver is dropped fails.
Issue(c, method, t, m) ==
  /\ pc[c] = "idle" /\ c \in handles
  /\ calls[c] < MaxCalls
  /\ method \in CallerMethods[c]
  /\ t \in CallerTargets[c] \cup {None}
  /\ calls' = [calls EXCEPT ![c] = @ + 1]
  /\ call' = [call EXCEPT ![c] = [method |-> method, ch |-> m.ch, target |-> t]]
  /\ afterShutdown' = [afterShutdown EXCEPT ![c] = shutdownDone]
  /\ \/ /\ receiverOpen
        /\ queue' = Append(queue, m)
        /\ pc' = [pc EXCEPT ![c] = "wait"]
        /\ UNCHANGED result
     \/ /\ ~receiverOpen
        /\ result' = [result EXCEPT ![c] = Refused(method)]
        /\ UNCHANGED <<queue, pc>>
  /\ UNCHANGED <<receiverOpen, actor, put_senders, get_senders, rpcVars,
                 chan, shutdownDone, handles>>

Info(c) == Issue(c, "info", None, Msg("Info", NextCh(c), None, None, None, None))

Shutdown(c) ==
  Issue(c, "shutdown", None, Msg("Shutdown", NextCh(c), None, None, None, None))

FindNode(c, t) ==
  Issue(c, "find_node", t, Msg("Get", NextCh(c), t, "FindNode", "ClosestNodes", None))

GetPeers(c, t) ==
  Issue(c, "get_peers", t, Msg("Get", NextCh(c), t, "GetPeers", "Peers", None))

AnnouncePeer(c, t, p) ==
  /\ p \notin InvalidPayloads
  /\ Issue(c, "announce_peer", t, Msg("Put", NextCh(c), t, None, None, p))

GetImmutable(c, t) ==
  Issue(c, "get_immutable", t, Msg("Get", NextCh(c), t, "GetValue", "Immutable", None))

PutImmutable(c, p) ==
  Issue(c, "put_immutable", ImmutableTarget[p],
        Msg("Put", NextCh(c), ImmutableTarget[p], None, None, p))

GetMutable(c, t) ==
  Issue(c, "get_mutable", t, Msg("Get", NextCh(c), t, "GetValue", "Mutable", None))

PutMutable(c, t, p) ==
  Issue(c, "put_mutable", t, Msg("Put", NextCh(c), t, None, None, p))

\* What recv() yields once every Sender of the channel is dropped.
Disconnected(method) ==
  CASE method \in PutMethods \cup {"find_node"}  -> Item("panic", None) \* .expect
    [] method = "info"                            -> Item("DhtWasShutdown", None)
    [] method = "shutdown"                        -> Item("unit", None)
    [] OTHER                                      -> Item("none", None)

\* The caller's blocking recv() returns an item or a disconnection.
Return(c) ==
  /\ pc[c] = "wait"
  /\ LET ch == call[c].ch
         out == IF chan[ch] # None THEN chan[ch] ELSE Disconnected(call[c].method)
     IN /\ chan[ch] # None \/ ~SenderHeld(ch)
        /\ result' = [result EXCEPT ![c] = out]
        /\ pc' = [pc EXCEPT ![c] = IF out.tag = "panic" THEN "panicked" ELSE "idle"]
  /\ shutdownDone' = (shutdownDone \/ call[c].method = "shutdown")
  /\ UNCHANGED <<actorVars, rpcVars, call, calls, chan, afterShutdown, handles>>

\* The thread drops its clone of the Dht (its flume Sender); Dht has no
\* Drop impl, so nothing is sent to the actor.
DropHandle(c) ==
  /\ c \in CanDrop \cap handles /\ pc[c] = "idle"
  /\ handles' = handles \ {c}
  /\ UNCHANGED <<actorVars, rpcVars, pc, call, calls, chan, result, shutdownDone, afterShutdown>>

-----------------------------------------------------------------------------
(* The actor thread: one iteration of run()'s loop is RunRecv then RunTick. *)

\* Mutant: the reply is sent while the Receiver is still held; it is
\* dropped only when run() returns.
HandleShutdownReplyFirst(m) ==
  /\ m.type = "Shutdown"
  /\ chan' = DeliverAll({<<m.ch, Item("unit", None)>>})
  /\ actor' = "exiting"
  /\ UNCHANGED <<receiverOpen, put_senders, get_senders, rpcVars>>

HandleShutdown(m) ==
  /\ m.type = "Shutdown"
  /\ receiverOpen' = FALSE
  /\ chan' = DeliverAll({<<m.ch, Item("unit", None)>>})
  /\ actor' = "exiting"
  /\ UNCHANGED <<put_senders, get_senders, rpcVars>>

HandleInfo(m) ==
  /\ m.type = "Info"
  /\ chan' = DeliverAll({<<m.ch, Item("info", None)>>})
  /\ actor' = "tick"
  /\ UNCHANGED <<receiverOpen, put_senders, get_senders, rpcVars>>

HandlePut(m) ==
  LET err == RpcPutError(m.target, m.payload) IN
  /\ m.type = "Put"
  /\ putQueries' = RpcPutQueries(m.target, m.payload)
  /\ \/ /\ err # None
        /\ chan' = DeliverAll({<<m.ch, Item("err", err)>>})
        /\ UNCHANGED put_senders
     \/ /\ err = None
        /\ put_senders' = [put_senders EXCEPT ![m.target] = m.ch]
        /\ UNCHANGED chan
  /\ actor' = "tick"
  /\ UNCHANGED <<receiverOpen, get_senders, getQueries>>

HandleGet(m) ==
  LET s == [ch |-> m.ch, sink |-> m.sink] IN
  /\ m.type = "Get"
  /\ getQueries' = RpcGetQueries(m.target, m.req)
  /\ chan' = DeliverAll(UNION {SendResponse(s, r) : r \in RpcGetCached(m.target)})
  /\ get_senders' = [get_senders EXCEPT ![m.target] = s]
  /\ actor' = "tick"
  /\ UNCHANGED <<receiverOpen, put_senders, putQueries>>

RunRecv ==
  /\ actor = "recv"
  /\ \/ /\ queue = <<>>
        /\ actor' = "tick"
        /\ UNCHANGED <<queue, receiverOpen, put_senders, get_senders, rpcVars, chan>>
     \/ /\ queue # <<>>
        /\ queue' = Tail(queue)
        /\ \/ HandleShutdown(Head(queue))
           \/ HandleInfo(Head(queue))
           \/ HandlePut(Head(queue))
           \/ HandleGet(Head(queue))
  /\ UNCHANGED <<pc, call, calls, result, shutdownDone, afterShutdown, handles>>

\* The responses one tick can stream, one per live GET query.
StreamedResponses ==
  UNION {{[target |-> t, resp |-> r] : r \in QueryResponses(t, getQueries[t].kind)} :
           t \in LiveGets}

\* Report dispatch, the four loops after rpc.tick() in run().

\* The streamed response goes to the target's sender, if any, via send().
StreamedReply(qr) ==
  IF qr # None /\ get_senders[qr.target] # None
    THEN SendResponse(get_senders[qr.target], qr.resp) ELSE {}

\* A finished FIND_NODE query answers its sender if it is a ClosestNodes one.
FindNodeReplies(doneFind) ==
  {<<get_senders[t].ch, Item("nodes", None)>> :
     t \in {u \in doneFind : get_senders[u] # None /\ get_senders[u].sink = "ClosestNodes"}}

\* Mutant: the result of a finished PUT is never sent; the sender is
\* still removed and dropped.
PutRepliesUnsent(donePut, putErr) == {}

\* A finished PUT answers its sender with Ok(target) or the error.
PutReplies(donePut, putErr) ==
  {<<put_senders[t], IF putErr[t] = None THEN Item("ok", t) ELSE Item("err", putErr[t])>> :
     t \in {u \in donePut : put_senders[u] # None}}

\* Mutant: the done_get_queries loop is missing; only FIND_NODE senders
\* are removed.
KeptGetSendersFindOnly(doneFind, doneGet) ==
  [t \in Targets |-> IF t \in doneFind THEN None ELSE get_senders[t]]

\* Mutant: the map is drained after every tick, finished queries or not.
KeptGetSendersDrained(doneFind, doneGet) == [t \in Targets |-> None]

\* get_senders.remove for every finished GET query, FIND_NODE or not.
KeptGetSenders(doneFind, doneGet) ==
  [t \in Targets |-> IF t \in doneFind \cup doneGet THEN None ELSE get_senders[t]]

\* rpc.tick() advances the queries and reports at most one streamed
\* response, the GET queries it finished (FindNode ones apart) and the PUT
\* queries it finished with their error, if any; run() dispatches the
\* report in that order.
RunTick ==
  /\ actor = "tick"
  /\ \E qr \in {None} \cup StreamedResponses,
        doneGet \in SUBSET LiveGets,
        donePut \in SUBSET LivePuts :
     \E putErr \in {f \in [donePut -> {None, "Query", "Concurrency"}] :
                      \A t \in donePut : f[t] = "Concurrency" => putQueries[t].conflict} :
       LET doneFind == {t \in doneGet : getQueries[t].kind = "FindNode"} IN
       /\ getQueries' = [t \in Targets |->
             IF t \in doneGet THEN None
             ELSE IF qr # None /\ qr.target = t
                    THEN [getQueries[t] EXCEPT !.responses = @ \cup {qr.resp}]
                    ELSE getQueries[t]]
       /\ putQueries' = [t \in Targets |-> IF t \in donePut THEN None ELSE putQueries[t]]
       /\ chan' = DeliverAll(StreamedReply(qr) \cup FindNodeReplies(doneFind)
                             \cup PutReplies(donePut, putErr))
       /\ get_senders' = KeptGetSenders(doneFind, doneGet \ doneFind)
       /\ put_senders' = [t \in Targets |-> IF t \in donePut THEN None ELSE put_senders[t]]
  /\ actor' = "recv"
  /\ UNCHANGED <<queue, receiverOpen, pc, call, calls, result, shutdownDone, afterShutdown,
                 handles>>

\* After the break, run() returns: put_senders, get_senders, the Rpc and
\* the Receiver are dropped.
RunExit ==
  /\ actor = "exiting"
  /\ actor' = "exited"
  /\ receiverOpen' = FALSE
  /\ put_senders' = [t \in Targets |-> None]
  /\ get_senders' = [t \in Targets |-> None]
  /\ getQueries' = [t \in Targets |-> None]
  /\ putQueries' = [t \in Targets |-> None]
  /\ UNCHANGED <<queue, callerVars>>

-----------------------------------------------------------------------------

Init ==
  /\ queue = <<>>
  /\ receiverOpen = TRUE
  /\ actor = "recv"
  /\ put_senders = [t \in Targets |-> None]
  /\ get_senders = [t \in Targets |-> None]
  /\ getQueries = [t \in Targets |-> None]
  /\ putQueries = [t \in Targets |-> None]
  /\ pc = [c \in Callers |-> "idle"]
  /\ call = [c \in Callers |-> [method |-> None, ch |-> None, target |-> None]]
  /\ calls = [c \in Callers |-> 0]
  /\ chan = [ch \in Channels |-> None]
  /\ result = [c \in Callers |-> None]
  /\ shutdownDone = FALSE
  /\ afterShutdown = [c \in Callers |-> FALSE]
  /\ handles = Callers

CallerStep(c) ==
  \/ Info(c)
  \/ Shutdown(c)
  \/ \E t \in Targets : FindNode(c, t) \/ GetPeers(c, t) \/ GetImmutable(c, t)
                         \/ GetMutable(c, t)
  \/ \E t \in Targets, p \in Payloads : AnnouncePeer(c, t, p) \/ PutMutable(c, t, p)
  \/ \E p \in Payloads : PutImmutable(c, p)
  \/ Return(c)
  \/ DropHandle(c)

Next ==
  \/ \E c \in Callers : CallerStep(c)
  \/ RunRecv
  \/ RunTick
  \/ RunExit

\* A tick that finishes the GET (PUT) query of target t.
FinishesGet(t) == RunTick /\ getQueries[t] # None /\ (getQueries')[t] = None
FinishesPut(t) == RunTick /\ putQueries[t] # None /\ (putQueries')[t] = None

\* The actor thread never blocks (try_recv, non-blocking tick); a blocked
\* recv() wakes once its channel has an item or no sender; every query
\* finishes once its transactions time out (request_timeout), so a tick
\* that finishes a live query cannot be avoided forever.  Callers are not
\* obliged to make calls.
Fairness ==
  /\ WF_vars(RunRecv) /\ WF_vars(RunTick) /\ WF_vars(RunExit)
  /\ \A c \in Callers : WF_vars(Return(c))
  /\ \A t \in Targets : SF_vars(FinishesGet(t)) /\ SF_vars(FinishesPut(t))

Spec     == Init /\ [][Next]_vars
FairSpec == Spec /\ Fairness

-----------------------------------------------------------------------------
(* Properties.                                                             *)

TypeOK ==
  /\ queue \in Seq(Message)
  /\ receiverOpen \in BOOLEAN
  /\ actor \in {"recv", "tick", "exiting", "exited"}
  /\ put_senders \in [Targets -> Channels \cup {None}]
  /\ get_senders \in [Targets -> [ch : Channels, sink : Sinks] \cup {None}]
  /\ getQueries \in [Targets -> [kind : QueryKinds, responses : SUBSET Responses] \cup {None}]
  /\ putQueries \in [Targets -> [payload : Payloads \ InvalidPayloads, conflict : BOOLEAN] \cup {None}]
  /\ pc \in [Callers -> {"idle", "wait", "panicked"}]
  /\ calls \in [Callers -> 0..MaxCalls]
  /\ chan \in [Channels -> Items \cup {None}]
  /\ result \in [Callers -> Outcomes \cup {Item("panic", None), None}]
  /\ shutdownDone \in BOOLEAN
  /\ afterShutdown \in [Callers -> BOOLEAN]
  /\ handles \subseteq Callers

\* find_node, announce_peer, put_immutable and put_mutable end in
\* recv().expect("Query was dropped before sending a response, please open
\* an issue."): the reply sender a caller waits on is never dropped
\* unanswered, so no caller thread panics there.
NoQueryDropped == \A c \in Callers : pc[c] # "panicked"

\* run()'s put_senders and get_senders stay in step with the Rpc's query
\* tables: a registered reply sender always belongs to a live query, which
\* will be reported done and answer it (otherwise its caller waits forever).
NoOrphanSender ==
  \A t \in Targets :
    /\ put_senders[t] # None => putQueries[t] # None
    /\ get_senders[t] # None => getQueries[t] # None

\* After shutdown() has returned, every call on any clone fails with
\* DhtWasShutdown at its send (spec 8.6): the actor drops its Receiver
\* before it answers the Shutdown message, so no later call is accepted.
ShutdownIsFinal == \A c \in Callers : afterShutdown[c] => pc[c] # "wait"

\* A caller blocked in recv() whose reply channel is still empty.
Awaited(ch) == ReceiverAlive(ch) /\ chan[ch] = None

\* run() takes a reply sender out of put_senders or get_senders while its
\* caller still waits on it with nothing received only when the step
\* answers it or the target's query ends.  Otherwise the caller sees a
\* disconnection while its query is still running: a GET stream ends
\* early (get_immutable returns None, get_peers yields nothing more) and
\* a PUT or find_node panics in expect().  Both maps are keyed by target
\* alone, so the insert of a second call on the same target is such a
\* step.
SendersKeptWhileAwaited ==
  [][\A t \in Targets :
       /\ get_senders[t] # None /\ Awaited(get_senders[t].ch)
          /\ get_senders'[t] # get_senders[t]
            => getQueries'[t] = None \/ chan'[get_senders[t].ch] # None
       /\ put_senders[t] # None /\ Awaited(put_senders[t])
          /\ put_senders'[t] # put_senders[t]
            => putQueries'[t] = None \/ chan'[put_senders[t]] # None]_vars

\* Every call blocked in recv() eventually returns.
CallsReturn == \A c \in Callers : (pc[c] = "wait") ~> (pc[c] # "wait")

\* The actor thread runs until it takes Shutdown or until every handle has
\* been dropped and its queue closed (spec 4.8): once no thread holds a
\* Dht, run() eventually returns and releases the Rpc and its socket.
StopsWhenUnreferenced == (handles = {}) ~> (actor = "exited")


\* The handle refines the service it promises (DhtService): the service runs
\* while the actor holds its Receiver, a caller blocked in recv() has that
\* call pending, and what it returns is its answer.  A send accepted or
\* refused, the Shutdown handler dropping the Receiver, and a recv()
\* returning are the service's Call, Refuse, Stop and Answer; every other
\* step of the actor and the Rpc is invisible to callers.
Service == INSTANCE DhtService WITH
  running <- receiverOpen,
  pending <- [c \in Callers |->
                IF pc[c] = "wait"
                  THEN [method |-> call[c].method, target |-> call[c].target]
                  ELSE None]

ImplementsService == Service!Spec
=============================================================================
