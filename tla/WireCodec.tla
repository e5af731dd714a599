----------------------------- MODULE WireCodec -----------------------------
(***************************************************************************)
(* The KRPC wire messages of src/src/messages/internal.rs and their        *)
(* bencode encoding by the serde derivations (DHTMessage::to_bytes and     *)
(* DHTMessage::from_bytes).                                                *)
(*                                                                         *)
(* A Rust value is a record of the envelope fields t, v, ip, ro, the       *)
(* envelope tag y, the variant (the request method, or the Rust variant    *)
(* name of a response) and the argument struct.  A bencode dictionary is a *)
(* function from its keys to its values.  Byte strings are abstracted to   *)
(* Blob (some bytes) and Empty (zero bytes).                               *)
(*                                                                         *)
(* Each argument struct is given by its schema: field -> how serde treats  *)
(* it.  "bytes"/"int"/"list": required; "opt_*": Option with               *)
(* #[serde(default)], None when absent and skipped when None on encoding   *)
(* (serde_bencode writes nothing for None); "default_bytes": a Vec<u8>     *)
(* with #[serde(default)], Empty when absent and always written.  Unknown  *)
(* keys are ignored (no deny_unknown_fields).                              *)
(***************************************************************************)
EXTENDS Integers, Sequences, SequencesExt, TLC

CONSTANTS
  Blob,     \* a non-empty byte string
  Empty,    \* the empty byte string
  None,     \* Option::None
  Err       \* from_bytes returned Err(BencodeError)

-----------------------------------------------------------------------------
(* Argument structs (internal.rs 122-238) as schemas                       *)

DHTPingRequestArguments      == [id |-> "bytes"]
DHTPingResponseArguments     == [id |-> "bytes"]
DHTFindNodeRequestArguments  == [id |-> "bytes", target |-> "bytes"]
DHTFindNodeResponseArguments == [id |-> "bytes", nodes |-> "bytes"]
DHTGetPeersRequestArguments  == [id |-> "bytes", info_hash |-> "bytes"]
DHTGetPeersResponseArguments ==
  [id |-> "bytes", token |-> "bytes", nodes |-> "opt_bytes", values |-> "opt_list"]
DHTAnnouncePeerRequestArguments ==
  [id |-> "bytes", info_hash |-> "bytes", port |-> "int", token |-> "bytes",
   implied_port |-> "opt_int"]
DHTGetValueArguments         == [id |-> "bytes", target |-> "bytes"]
DHTGetValueResponseArguments ==
  [id |-> "bytes", token |-> "bytes", nodes |-> "opt_bytes", v |-> "default_bytes",
   k |-> "opt_bytes", sig |-> "opt_bytes", seq |-> "opt_int"]
DHTErrorSpecific             == [e |-> "list"]

\* DHTRequestSpecific: internally tagged by "q", arguments under "a".
DHTRequestSpecific ==
  [ping |-> DHTPingRequestArguments, find_node |-> DHTFindNodeRequestArguments,
   get_peers |-> DHTGetPeersRequestArguments,
   announce_peer |-> DHTAnnouncePeerRequestArguments,
   get_value |-> DHTGetValueArguments]

\* DHTResponseSpecific: #[serde(untagged)], arguments under "r"; decoding
\* tries the variants in declaration order.
DHTResponseSpecific ==
  [GetValue |-> DHTGetValueResponseArguments, GetPeers |-> DHTGetPeersResponseArguments,
   FindNode |-> DHTFindNodeResponseArguments, Ping |-> DHTPingResponseArguments]
ResponseOrder == <<"GetValue", "GetPeers", "FindNode", "Ping">>

Required == {"bytes", "int", "list"}

\* The values a field of each kind takes in the model.
KindValues ==
  [bytes |-> {Blob}, int |-> {6881}, list |-> {<<201, Blob>>},
   opt_bytes |-> {None, Blob}, opt_int |-> {None, 1}, opt_list |-> {None, <<Blob>>},
   default_bytes |-> {Empty, Blob}]

\* Every value of a struct: one value of its kind per field.
Values(schema) ==
  LET RECURSIVE Product(_)
      Product(fs) ==
        IF fs = {} THEN {[f \in {} |-> None]}
        ELSE LET f == CHOOSE g \in fs : TRUE
             IN {r @@ (f :> x) : r \in Product(fs \ {f}), x \in KindValues[schema[f]]}
  IN Product(DOMAIN schema)

\* DHTMessage (internal.rs 5-24) with its flattened DHTMessageVariant (38-49).
Envelopes == [t : {Blob}, v : {None, Blob}, ip : {None, Blob}, ro : {None, 1}]

Msg(env, y, q, args) ==
  [t |-> env.t, v |-> env.v, ip |-> env.ip, ro |-> env.ro, y |-> y, q |-> q, args |-> args]

Messages ==
  LET Variants ==
        UNION {{<<"q", m, a>> : a \in Values(DHTRequestSpecific[m])} : m \in DOMAIN DHTRequestSpecific}
          \cup UNION {{<<"r", n, a>> : a \in Values(DHTResponseSpecific[n])} :
                        n \in DOMAIN DHTResponseSpecific}
          \cup {<<"e", "Error", a>> : a \in Values(DHTErrorSpecific)}
  IN {Msg(env, x[1], x[2], x[3]) : env \in Envelopes, x \in Variants}

-----------------------------------------------------------------------------
(* Encoding: DHTMessage::to_bytes (serde_bencode::to_bytes)                *)

\* A struct as a dictionary: None fields are not written.
EncodeStruct(s) == [f \in {g \in DOMAIN s : s[g] # None} |-> s[f]]

\* The variant's keys: y, then q and a, r, or the error struct's own keys.
EncodeVariant(m) ==
  CASE m.y = "q" -> [y |-> "q", q |-> m.q, a |-> EncodeStruct(m.args)]
    [] m.y = "r" -> [y |-> "r", r |-> EncodeStruct(m.args)]
    [] m.y = "e" -> ("y" :> "e") @@ EncodeStruct(m.args)

ToBytesOf(m) ==
  EncodeStruct([t |-> m.t, v |-> m.v, ip |-> m.ip, ro |-> m.ro]) @@ EncodeVariant(m)

-----------------------------------------------------------------------------
(* Decoding: DHTMessage::from_bytes (serde_bencode::from_bytes)            *)

\* Mutant: an absent Option field decodes as empty bytes.
DecodeStructOptionEmpty(d, schema) ==
  IF \E f \in DOMAIN schema : schema[f] \in Required /\ f \notin DOMAIN d
  THEN Err
  ELSE [f \in DOMAIN schema |-> IF f \in DOMAIN d THEN d[f] ELSE Empty]

\* A struct from a dictionary: Err when a required key is missing, absent
\* Options are None and an absent default Vec<u8> is empty.
DecodeStruct(d, schema) ==
  IF \E f \in DOMAIN schema : schema[f] \in Required /\ f \notin DOMAIN d
  THEN Err
  ELSE [f \in DOMAIN schema |->
          IF f \in DOMAIN d THEN d[f]
          ELSE IF schema[f] = "default_bytes" THEN Empty ELSE None]

\* The untagged response: the first variant, in the order given, whose
\* struct decodes.
DecodeUntagged(d, order) ==
  LET i == SelectInSeq(order, LAMBDA n : DecodeStruct(d, DHTResponseSpecific[n]) # Err)
  IN IF i = 0 THEN Err ELSE <<order[i], DecodeStruct(d, DHTResponseSpecific[order[i]])>>

Get(d, k) == IF k \in DOMAIN d THEN d[k] ELSE None

\* The variant of a dictionary as <<y, variant, arguments>>, or Err.
DecodeVariantWith(d, order) ==
  CASE Get(d, "y") = "q" /\ Get(d, "q") \in DOMAIN DHTRequestSpecific /\ "a" \in DOMAIN d
         -> LET a == DecodeStruct(d.a, DHTRequestSpecific[d.q])
            IN IF a = Err THEN Err ELSE <<"q", d.q, a>>
    [] Get(d, "y") = "r" /\ "r" \in DOMAIN d
         -> LET u == DecodeUntagged(d.r, order)
            IN IF u = Err THEN Err ELSE <<"r", u[1], u[2]>>
    [] Get(d, "y") = "e"
         -> LET a == DecodeStruct(d, DHTErrorSpecific)
            IN IF a = Err THEN Err ELSE <<"e", "Error", a>>
    [] OTHER -> Err

\* Mutant: the untagged variants ordered from least to most detailed.
DecodeVariantReversed(d) == DecodeVariantWith(d, <<"Ping", "FindNode", "GetPeers", "GetValue">>)

DecodeVariant(d) == DecodeVariantWith(d, ResponseOrder)

FromBytesOf(d) ==
  LET x == DecodeVariant(d)
  IN IF "t" \notin DOMAIN d \/ x = Err THEN Err
     ELSE Msg([t |-> d.t, v |-> Get(d, "v"), ip |-> Get(d, "ip"), ro |-> Get(d, "ro")],
              x[1], x[2], x[3])

-----------------------------------------------------------------------------
(* One message sent by a node and read by its peer                         *)

VARIABLES sent, wire, received

vars == <<sent, wire, received>>

Init == sent = None /\ wire = None /\ received = None

\* The sending node builds a message and calls to_bytes.
ToBytes ==
  /\ sent = None
  /\ \E m \in Messages : sent' = m /\ wire' = ToBytesOf(m)
  /\ UNCHANGED received

\* The receiving node calls from_bytes on the datagram.
FromBytes ==
  /\ wire # None /\ received = None
  /\ received' = FromBytesOf(wire)
  /\ UNCHANGED <<sent, wire>>

Next == ToBytes \/ FromBytes

Spec == Init /\ [][Next]_vars

-----------------------------------------------------------------------------

TypeOK ==
  /\ sent \in Messages \cup {None}
  /\ received \in Messages \cup {None, Err}

\* Spec 8.3: decoding the encoding of any DHTMessage yields an equal message.
RoundTrip == received # None => received = sent

\* Every request and error message the node sends is read back unchanged
\* by the peer: method, every argument (implied_port and the other
\* Options), and the envelope's t, v, ip and ro.
RequestRoundTrip == received # None /\ sent.y \in {"q", "e"} => received = sent

\* Whatever variant the untagged DHTResponseSpecific decodes a response
\* into, the fields an iterative lookup proceeds on are kept: the
\* responder's id, the token for a later announce or put, and the closer
\* nodes.
RoutingFieldsKept ==
  received # None /\ sent.y = "r" =>
    /\ received # Err /\ received.y = "r" /\ received.t = sent.t
    /\ \A f \in {"id", "token", "nodes"} \cap DOMAIN sent.args :
         f \in DOMAIN received.args /\ received.args[f] = sent.args[f]
=============================================================================
