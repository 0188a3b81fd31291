---------------------------- MODULE HostRequests ----------------------------
(* One network request of the Node host (nodeHost.js): a TCP or TLS exchange, a *)
(* UDP datagram, a WebSocket exchange, an MQTT publication or subscription.      *)
(* Each is a promise around a socket whose events call finish or fail, which     *)
(* settle it once and take the listeners off.                                    *)
(*                                                                              *)
(* The peer, the socket and the timer are external: the peer may send, end,      *)
(* close or reset at any time, and the timer may fire at any time.  A WebSocket  *)
(* may refuse the code fail closes it with, which fail ignores.                  *)
EXTENDS Naturals, Sequences

CONSTANTS
  RequestKinds,  \* of "tcp", "tls", "udp", "ws", "publish", "subscribe"
  MaxPieces      \* pieces the peer sends: chunks, datagrams, messages

VARIABLES
  req,      \* what was asked: kind, timeout given, response expected, blob payloads
  sock,     \* connecting, open, closing or closed
  armed,    \* the listeners are on; the timer runs
  outcome,  \* of the promise, with what was returned
  seen,     \* pieces the socket has delivered
  ahead,    \* MQTT: pieces of the packet under way; WebSocket: messages being decoded
  written,    \* MQTT: packets written
  notClosed,  \* the WebSocket refused to close
  unheard   \* an error event found no listener

reqVars == <<req, sock, armed, outcome, seen, ahead, written, notClosed, unheard>>

\* What a broker answers: each packet arrives in two pieces.
Packets == IF req.kind = "publish" THEN <<"connack">> ELSE <<"connack", "suback", "message">>
Mqtt == req.kind \in {"publish", "subscribe"}

Pending == [how |-> "no", body |-> 0]
ReqInit ==
  /\ req \in [kind : RequestKinds, timed : BOOLEAN, expects : BOOLEAN, blob : BOOLEAN]
  /\ req.blob => req.kind = "ws"
  /\ ~req.expects => req.kind \in {"ws", "udp"}
  /\ sock = "connecting" /\ armed = [listeners |-> TRUE, timer |-> req.timed]
  /\ outcome = Pending /\ seen = 0 /\ ahead = 0 /\ written = <<>>
  /\ notClosed = FALSE /\ unheard = FALSE

Off == [listeners |-> FALSE, timer |-> FALSE]
reqSettled == outcome.how # "no"

\* finish leaves an MQTT or WebSocket connection to close by itself; every
\* other outcome destroys the socket.
closedBy(how) ==
  IF how = "resolved" /\ sock = "open" /\ (Mqtt \/ req.kind = "ws") THEN "closing" ELSE "closed"

\* now is what the event has made of the socket, or "".
afterEvent(now, otherwise) == IF now = "" THEN otherwise ELSE now

keepsTimer(how, body, now) ==
  /\ outcome' = IF reqSettled THEN outcome ELSE [how |-> how, body |-> body]
  /\ armed' = [armed EXCEPT !.listeners = FALSE]
  /\ sock' = afterEvent(now, closedBy(how)) /\ UNCHANGED notClosed

settle(how, body, now) ==
  \/ /\ reqSettled /\ sock' = afterEvent(now, sock)
     /\ UNCHANGED <<outcome, armed, notClosed>>
  \/ /\ ~reqSettled
     /\ outcome' = [how |-> how, body |-> body] /\ armed' = Off
     /\ \/ sock' = afterEvent(now, closedBy(how)) /\ UNCHANGED notClosed
        \/ /\ req.kind = "ws" /\ how = "rejected" /\ now = ""
           /\ UNCHANGED sock /\ notClosed' = TRUE

Keep == UNCHANGED <<outcome, armed, sock, notClosed>>

----------------------------------------------------------------------------
\* connect, secureConnect, open, or the callback of send.
Opens ==
  /\ sock = "connecting"
  /\ IF armed.listeners /\ ~req.expects THEN settle("resolved", 0, IF req.kind = "ws" THEN "closing" ELSE "closed")
     ELSE sock' = "open" /\ UNCHANGED <<outcome, armed, notClosed>>
  /\ written' = IF Mqtt /\ armed.listeners THEN Append(written, "connect") ELSE written
  /\ UNCHANGED <<req, seen, ahead, unheard>>

Piece == sock = "open" /\ seen < MaxPieces
Heard == armed.listeners

\* data of a TCP or TLS exchange.
onChunk ==
  /\ Piece /\ Heard /\ seen' = seen + 1
  /\ Keep /\ UNCHANGED <<req, ahead, written, unheard>>

\* The first datagram is the answer.
onDatagram ==
  /\ Piece /\ Heard /\ seen' = seen + 1
  /\ settle("resolved", seen + 1, "")
  /\ UNCHANGED <<req, ahead, written, unheard>>

\* A message is decoded before it counts, which takes as long as it takes when
\* it is a blob.
onMessage ==
  /\ Piece /\ Heard /\ seen' = seen + 1
  /\ IF req.blob THEN Keep /\ ahead' = ahead + 1
     ELSE (settle("resolved", seen + 1, "") \/ settle("rejected", 0, "")) /\ UNCHANGED ahead
  /\ UNCHANGED <<req, written, unheard>>

\* A decoded blob resolves the exchange; one that does not parse rejects it.
onDecoded ==
  /\ ahead > 0
  /\ ahead' = ahead - 1
  /\ settle("resolved", seen, "") \/ settle("rejected", 0, "")
  /\ UNCHANGED <<req, seen, written, unheard>>

\* parseMqttPackets keeps an incomplete packet for the next chunk; a complete
\* one is acted on.  A message that is not the JSON it should be throws out of
\* the handler, which leaves the request as it is.
packetAt(n) == IF n % 2 = 0 THEN Packets[n \div 2] ELSE "incomplete"

onMqttData(accepted) ==
  /\ Piece /\ Heard /\ seen < 2 * Len(Packets)
  /\ (seen + 1 > 2 => "subscribe" \in {written[i] : i \in 1..Len(written)})
  /\ seen' = seen + 1
  /\ LET packet == packetAt(seen + 1)
     IN CASE packet = "connack" /\ ~accepted -> settle("rejected", 0, "") /\ UNCHANGED written
          [] packet = "connack" /\ accepted /\ req.kind = "publish" ->
               settle("resolved", 1, "") /\ written' = written \o <<"publish", "disconnect">>
          [] packet = "connack" /\ accepted /\ req.kind = "subscribe" ->
               Keep /\ written' = Append(written, "subscribe")
          [] packet = "message" ->
               \/ settle("resolved", seen + 1, "") /\ written' = Append(written, "disconnect")
               \/ Keep /\ UNCHANGED written
          [] OTHER -> Keep /\ UNCHANGED written
  /\ UNCHANGED <<req, ahead, unheard>>

\* end of a stream.
onEnd ==
  /\ sock = "open" /\ Heard
  /\ settle("resolved", seen, "")
  /\ UNCHANGED <<req, seen, ahead, written, unheard>>

\* close without an error.
onClose ==
  /\ sock \in {"open", "closing"}
  /\ IF ~Heard THEN sock' = "closed" /\ UNCHANGED <<outcome, armed, notClosed>>
     ELSE CASE req.kind \in {"tcp", "tls"} -> settle("resolved", seen, "closed")
            [] req.kind = "ws" /\ ~req.expects -> settle("resolved", 0, "closed")
            [] OTHER -> settle("rejected", 0, "closed")
  /\ UNCHANGED <<req, seen, ahead, written, unheard>>

\* error: without a listener a Node socket throws it, a WebSocket does not.
onError ==
  /\ sock \in {"connecting", "open", "closing"}
  /\ IF Heard THEN settle("rejected", 0, "closed") /\ UNCHANGED unheard
     ELSE /\ sock' = "closed" /\ unheard' = (unheard \/ req.kind # "ws")
          /\ UNCHANGED <<outcome, armed, notClosed>>
  /\ UNCHANGED <<req, seen, ahead, written>>

onTimeout ==
  /\ armed.timer
  /\ settle("rejected", 0, "")
  /\ UNCHANGED <<req, seen, ahead, written, unheard>>

----------------------------------------------------------------------------
(* The events each request listens to.                                        *)
StreamEvents == Opens \/ onChunk \/ onEnd \/ onClose \/ onError \/ onTimeout
runTcpRequest == req.kind = "tcp" /\ StreamEvents
runTlsRequest == req.kind = "tls" /\ StreamEvents
runUdpRequest == req.kind = "udp" /\ (Opens \/ onDatagram \/ onError \/ onTimeout)
runWebSocketExchange ==
  req.kind = "ws" /\ (Opens \/ onMessage \/ onDecoded \/ onClose \/ onError \/ onTimeout)

MqttEvents ==
  \/ Opens \/ onClose \/ onError \/ onTimeout
  \/ \E accepted \in BOOLEAN : onMqttData(accepted)
runMqttPublish == req.kind = "publish" /\ MqttEvents
runMqttSubscribeOnce == req.kind = "subscribe" /\ MqttEvents

ReqNext ==
  \/ runTcpRequest \/ runTlsRequest \/ runUdpRequest \/ runWebSocketExchange
  \/ runMqttPublish \/ runMqttSubscribeOnce

ReqSpec == ReqInit /\ [][ReqNext]_reqVars

----------------------------------------------------------------------------
\* A settled request holds nothing: its listeners and its timer are off and its
\* socket is closed or closing (cleanup, destroy and close in finish and fail),
\* except a WebSocket that refused the code of fail; and no later error of the
\* socket goes unheard, except an MQTT connection's, which finish leaves closing.
SettledIsReleased ==
  /\ reqSettled => armed = Off /\ (sock \in {"closing", "closed"} \/ notClosed)
  /\ unheard => Mqtt
=============================================================================
