------------------------------ MODULE Handshake ------------------------------
(***************************************************************************)
(* The opening handshake of a WebSocket (ttpkit-http, ws): the request of  *)
(* ClientHandshakeBuilder, ServerHandshake, and ClientHandshake::complete. *)
(***************************************************************************)
EXTENDS Messages

(* create_accept_token: SHA-1 and base64 of the key and the GUID, so equal *)
(* for equal keys only.                                                    *)
AcceptToken(key) == <<ToString(<<"accept", key>>)>>

JoinTokens(tokens) ==
    FlattenSeq([i \in 1..Len(tokens) |->
                    (IF i = 1 THEN <<>> ELSE <<",">>) \o TrimAscii(tokens[i])])

(* The values of the fields as they are, not taken apart.                  *)
WholeValues(fields, name) ==
    LET same == GetFields(fields, <<name>>)
    IN  [i \in 1..Len(same) |-> TrimAscii(Else(same[i].value, <<>>))]

(* All the elements of the lists in the fields of a name.                  *)
AllTokens(fields, name) ==
    LET same == GetFields(fields, <<name>>)
    IN  FlattenSeq([i \in 1..Len(same) |-> CommaList(Else(same[i].value, <<>>))])

(***************************** the client **********************************)

(* ClientHandshakeBuilder::build.                                          *)
HandshakeRequest(url, key, protocols) ==
    OutgoingRequest(<<"GET">>, url,
        << Call("set_version", V11),
           AddCall("Connection", <<"upgrade">>),
           AddCall("Upgrade", <<"websocket">>),
           AddCall("Sec-WebSocket-Version", <<"1", "3">>),
           AddCall("Sec-WebSocket-Key", key) >>
        \o (IF protocols = <<>> THEN <<>>
            ELSE <<AddCall("Sec-WebSocket-Protocol", JoinTokens(protocols))>>))

(* ClientHandshake::complete, for a response with status 101.              *)
ClientComplete(key, protocols, fields) ==
    LET accept == LastValue(fields, <<"sec-websocket-accept">>)
        protocol == LastValue(fields, <<"sec-websocket-protocol">>)
    IN  /\ HasToken(CommaList(ValueOrEmpty(fields, "connection")), "upgrade")
        /\ EqIgnoreCase(TrimAscii(ValueOrEmpty(fields, "upgrade")),
                        <<"websocket">>)
        /\ accept = Some(AcceptToken(key))
        /\ protocol # None => Contains(protocols, TrimAscii(protocol[1]))
        /\ AllTokens(fields, "sec-websocket-extensions") = <<>>

(***************************** the server **********************************)

(* ServerHandshake::new: None is an error.                                 *)
ServerHandshake(header) ==
    LET key == LastValue(header.fields, <<"sec-websocket-key">>)
        version == LastValue(header.fields, <<"sec-websocket-version">>)
    IN  IF /\ header.method = <<"GET">> /\ header.version # V10
           /\ HasToken(AllTokens(header.fields, "connection"), "upgrade")
           /\ HasToken(AllTokens(header.fields, "upgrade"), "websocket")
           /\ version # None /\ TrimAscii(version[1]) = <<"1", "3">>
           /\ key # None
        THEN Some([accept |-> AcceptToken(TrimAscii(key[1])),
                   protocols |-> AllTokens(header.fields,
                                           "sec-websocket-protocol")])
        ELSE None

(* ServerHandshake::complete: the protocol is one of the list, or none.    *)
ServerComplete(handshake, protocol) ==
    OutgoingResponse(
        << Call("set_status", Status(101, <<"Switching Protocols">>)),
           AddCall("Connection", <<"upgrade">>),
           AddCall("Upgrade", <<"websocket">>),
           AddCall("Sec-WebSocket-Accept", handshake.accept) >>
        \o (IF protocol = None THEN <<>>
            ELSE <<AddCall("Sec-WebSocket-Protocol", protocol[1])>>))
=============================================================================
