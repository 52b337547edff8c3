------------------------------ MODULE OkxStream ------------------------------
(***************************************************************************)
(* truefix-okx-client over WebSocket: the Session state machine, the three *)
(* entry points that wrap it, Subscriptions, WsStateCoordinator, and       *)
(* WebSocketTransport's heartbeat and receive.  The application that       *)
(* drives them and OKX are external: the application follows the tests,    *)
(* replays what it wants when the session is active, and gives a           *)
(* connection up once the session is in Backoff.                           *)
(***************************************************************************)
EXTENDS Integers, Sequences, FiniteSets

CONSTANTS
  Kinds,           \* of "public", "private", "business"
  Keys,            \* SubscriptionKeys
  MAX_IN_FLIGHT,
  HEARTBEAT_INTERVAL,
  StreamBounds         \* bounds by kind: [app, ends, ticks], what the application does,
                   \* notices and breaks, instants

ASSUME OkxStreamAssumption ==
  /\ Kinds \subseteq {"public", "private", "business"}
  /\ HEARTBEAT_INTERVAL \in Nat \ {0} /\ MAX_IN_FLIGHT \in Nat
  /\ StreamBounds \in [Kinds -> [app : Nat, ends : Nat, ticks : Nat]]

VARIABLES
  kind,     \* the entry point; constant
  ws,       \* Session
  subs,     \* Subscriptions
  net,      \* the connection and OKX's side of it
  polled,   \* the heartbeat was polled at this instant
  quiet,    \* history: instants since something was received or the connection made
  dropped,  \* history: the last end was the heartbeat's, with what quiet was
  acts      \* bounds: what may still happen, see StreamBounds

StreamVars == <<kind, ws, subs, net, polled, quiet, dropped, acts>>

-----------------------------------------------------------------------------
(***************************************************************************)
(* Session.  Instants are relative: deadline is <<d>>, d instants ahead.   *)
(***************************************************************************)
DefaultSession ==
  [state |-> "Disconnected", authentication_required |-> FALSE, authenticated |-> FALSE,
   next_request_id |-> 0, deadline |-> <<>>, awaiting_pong |-> FALSE]

login_required(s) ==
  [s EXCEPT !.authentication_required = TRUE, !.authenticated = FALSE,
            !.state = "Authenticating"]

login_acknowledged(s, success) ==
  IF success THEN [s EXCEPT !.authenticated = TRUE, !.state = "Resubscribing"]
  ELSE [s EXCEPT !.authenticated = FALSE, !.state = "Authenticating"]

subscriptions_replayed(s) ==
  IF ~s.authentication_required \/ s.authenticated THEN [s EXCEPT !.state = "Active"] ELSE s

can_write(s) == s.authentication_required /\ s.authenticated /\ s.state = "Active"

message_received(s) ==
  [s EXCEPT !.deadline = <<HEARTBEAT_INTERVAL>>, !.awaiting_pong = FALSE]

pong_received(s) == [s EXCEPT !.deadline = <<>>, !.awaiting_pong = FALSE]

disconnected(s) ==
  [s EXCEPT !.authenticated = FALSE, !.deadline = <<>>, !.awaiting_pong = FALSE,
            !.state = "Backoff"]

ping_due(s) ==
  IF s.deadline = <<>> THEN [ping |-> FALSE, s |-> [s EXCEPT !.deadline = <<HEARTBEAT_INTERVAL>>]]
  ELSE IF s.deadline[1] > 0 THEN [ping |-> FALSE, s |-> s]
  ELSE IF s.awaiting_pong THEN [ping |-> FALSE, s |-> disconnected(s)]
  ELSE [ping |-> TRUE, s |-> [s EXCEPT !.awaiting_pong = TRUE,
                                       !.deadline = <<HEARTBEAT_INTERVAL>>]]

\* Session::connected, and PrivateSession's, which asks for the login first.
session_connected(s) ==
  IF s.authentication_required THEN login_required(s) ELSE subscriptions_replayed(s)
connected(s) ==
  IF kind = "private" THEN session_connected(login_required(s)) ELSE session_connected(s)

-----------------------------------------------------------------------------
(***************************************************************************)
(* Subscriptions.                                                          *)
(***************************************************************************)
correlates(b, key) == key \in b.desired /\ Cardinality(DOMAIN b.pending) < MAX_IN_FLIGHT
correlate(b, id, key) ==
  IF correlates(b, key)
  THEN [b EXCEPT !.pending = [i \in DOMAIN @ \cup {id} |-> IF i = id THEN key ELSE @[i]]]
  ELSE b

Without(f, gone) == [i \in DOMAIN f \ gone |-> f[i]]

\* Faulty variant: a refused subscription is activated.
acknowledge_id_any(b, id, success) ==
  IF id \notin DOMAIN b.pending THEN b
  ELSE [b EXCEPT !.pending = Without(@, {id}), !.active = @ \cup ({b.pending[id]} \cap b.desired)]

acknowledge_id(b, id, success) ==
  IF id \notin DOMAIN b.pending THEN b
  ELSE [b EXCEPT !.pending = Without(@, {id}),
                 !.active = @ \cup (IF success THEN {b.pending[id]} \cap b.desired ELSE {})]

cancel(b, key) ==
  [b EXCEPT !.active = @ \ {key}, !.desired = @ \ {key},
            !.pending = Without(@, {i \in DOMAIN @ : @[i] = key})]

disconnect(b) == [b EXCEPT !.active = {}, !.pending = <<>>]

-----------------------------------------------------------------------------
NoNet == [open |-> FALSE, logged |-> FALSE, held |-> {}, out |-> <<>>, in |-> <<>>, broken |-> FALSE]

StreamInit ==
  /\ kind \in Kinds
  /\ ws = DefaultSession
  /\ subs = [desired |-> {}, active |-> {}, pending |-> <<>>]
  /\ net = NoNet
  /\ polled = TRUE /\ quiet = 0 /\ dropped = <<>> /\ acts = StreamBounds[kind]

Act == acts.app > 0 /\ acts' = [acts EXCEPT !.app = @ - 1]
Ending == acts.ends > 0 /\ acts' = [acts EXCEPT !.ends = @ - 1]
PutCommand(command) == [net EXCEPT !.out = Append(@, command)]
Up == net.open /\ ws.state # "Backoff"

\* connecting() or reconnecting(), then the attempt, then connected().
Connecting ==
  /\ ~net.open /\ ws.state \in {"Disconnected", "Backoff"}
  /\ ws' = [ws EXCEPT !.state = "Connecting"]
  /\ UNCHANGED <<kind, subs, net, polled, quiet, dropped, acts>>
ConnectionMade ==
  /\ ws.state = "Connecting"
  /\ net' = [NoNet EXCEPT !.open = TRUE]
  /\ ws' = connected(ws) /\ quiet' = 0 /\ polled' = TRUE
  /\ UNCHANGED <<kind, subs, dropped, acts>>
ConnectionRefused ==
  /\ ws.state = "Connecting"
  /\ ws' = disconnected(ws)
  /\ UNCHANGED <<kind, subs, net, polled, quiet, dropped, acts>>

\* The application gives up a connection whose session is in Backoff.
GiveUpConnection ==
  /\ net.open /\ ws.state = "Backoff"
  /\ net' = NoNet /\ subs' = disconnect(subs)
  /\ UNCHANGED <<kind, ws, polled, quiet, dropped, acts>>

\* login: for private and business sessions, at any time.
Login ==
  /\ Up /\ kind \in {"private", "business"} /\ Act
  /\ ws' = login_required(ws) /\ net' = PutCommand([op |-> "login"])
  /\ UNCHANGED <<kind, subs, polled, quiet, dropped>>

\* subscribe() asks for an active session, so a replay comes after this call.
Replayed ==
  /\ Up /\ ws.state = "Resubscribing"
  /\ ws' = subscriptions_replayed(ws)
  /\ UNCHANGED <<kind, subs, net, polled, quiet, dropped, acts>>

\* request(): a key wanted anew, or wanted and lost with a connection, is
\* subscribed where the session allows it.
Subscribe(key) ==
  LET b == [subs EXCEPT !.desired = @ \cup {key}]
      id == ws.next_request_id + 1
      sends == Up /\ ws.state = "Active" /\ correlates(b, key)
               /\ key \notin {b.pending[i] : i \in DOMAIN b.pending}
  IN  /\ key \notin subs.active /\ Act
      /\ key \in subs.desired => sends
      /\ subs' = IF sends THEN correlate(b, id, key) ELSE b
      /\ ws' = IF Up /\ ws.state = "Active" THEN [ws EXCEPT !.next_request_id = id] ELSE ws
      /\ net' = IF sends THEN PutCommand([op |-> "subscribe", id |-> id, key |-> key]) ELSE net
      /\ UNCHANGED <<kind, polled, quiet, dropped>>

Unsubscribe(key) ==
  /\ key \in subs.desired /\ Act
  /\ subs' = cancel(subs, key)
  /\ ws' = IF Up /\ ws.state = "Active" THEN [ws EXCEPT !.next_request_id = @ + 1] ELSE ws
  /\ net' = IF Up /\ ws.state = "Active" THEN PutCommand([op |-> "unsubscribe", key |-> key]) ELSE net
  /\ UNCHANGED <<kind, polled, quiet, dropped>>

\* PrivateSession::write and BusinessSession::mass_cancel.  logged, as history:
\* OKX had taken the login of this connection.
WriteCommand ==
  /\ Up /\ can_write(ws) /\ Act
  /\ ws' = [ws EXCEPT !.next_request_id = @ + 1]
  /\ net' = PutCommand([op |-> "order", logged |-> net.logged])
  /\ UNCHANGED <<kind, subs, polled, quiet, dropped>>

\* send_heartbeat_if_due, with heartbeat_send_result for a write that fails.
Heartbeat ==
  /\ Up /\ ~polled
  /\ LET due == ping_due(ws)
     IN  /\ ws' = IF due.ping /\ net.broken THEN disconnected(due.s) ELSE due.s
         /\ net' = IF due.ping /\ ~net.broken THEN PutCommand([op |-> "ping"]) ELSE net
         /\ dropped' = IF ~due.ping /\ due.s.state = "Backoff" THEN <<quiet>> ELSE dropped
  /\ polled' = TRUE
  /\ UNCHANGED <<kind, subs, quiet, acts>>

StreamTick ==
  /\ Up /\ polled /\ acts.ticks > 0
  /\ acts' = [acts EXCEPT !.ticks = @ - 1]
  /\ ws' = [ws EXCEPT !.deadline = IF @ = <<>> THEN @ ELSE <<IF @[1] > 0 THEN @[1] - 1 ELSE 0>>]
  /\ polled' = FALSE /\ quiet' = quiet + 1
  /\ UNCHANGED <<kind, subs, net, dropped>>

-----------------------------------------------------------------------------
\* WsStateCoordinator::apply for an acknowledgement.
ApplySession(s, m) ==
  CASE m.event = "login" -> login_acknowledged(s, m.ok)
    [] m.event = "error" /\ m.id \notin DOMAIN subs.pending /\ s.state = "Authenticating" ->
         login_acknowledged(s, FALSE)
    [] m.event = "notice" -> disconnected(s)
    [] OTHER -> s
ApplySubs(b, m) ==
  CASE m.event = "subscribe" -> acknowledge_id(b, m.id, m.ok)
    [] m.event = "error" -> acknowledge_id(b, m.id, FALSE)
    [] m.event = "notice" -> disconnect(b)
    [] OTHER -> b

\* receive_for_session; pushed events are routed by the application.
StreamReceive ==
  /\ Up /\ net.in # <<>>
  /\ LET m == Head(net.in)
     IN  /\ ws' = IF m.event = "pong" THEN pong_received(ws)
                  ELSE ApplySession(message_received(ws), m)
         /\ subs' = ApplySubs(subs, m)
  /\ net' = [net EXCEPT !.in = Tail(@)]
  /\ quiet' = 0
  /\ UNCHANGED <<kind, polled, dropped, acts>>
ReceiveFails ==
  /\ Up /\ net.in = <<>> /\ net.broken
  /\ ws' = disconnected(ws)
  /\ UNCHANGED <<kind, subs, net, polled, quiet, dropped, acts>>

(***************************************************************************)
(* OKX (external) serves the commands of a connection in order.            *)
(***************************************************************************)
Ack(event, id, ok) == [event |-> event, id |-> id, ok |-> ok]
Say(n, m) == [n EXCEPT !.in = Append(@, m)]
Serve ==
  /\ net.open /\ net.out # <<>> /\ ~net.broken
  /\ LET c == Head(net.out)
         n == [net EXCEPT !.out = Tail(@)]
     IN  \/ c.op = "login" /\ net' = Say([n EXCEPT !.logged = TRUE], Ack("login", 0, TRUE))
         \/ c.op = "login" /\ ~net.logged
            /\ \E event \in {"login", "error"} : net' = Say(n, Ack(event, 0, FALSE))
         \/ c.op = "subscribe"
            /\ net' = Say([n EXCEPT !.held = @ \cup {c.key}], Ack("subscribe", c.id, TRUE))
         \/ c.op = "subscribe" /\ net' = Say(n, Ack("error", c.id, FALSE))
         \/ c.op = "unsubscribe"
            /\ net' = Say([n EXCEPT !.held = @ \ {c.key}], Ack("unsubscribe", 0, TRUE))
         \/ c.op = "order" /\ net' = n
         \/ c.op = "ping" /\ net' = Say(n, Ack("pong", 0, TRUE))
  /\ UNCHANGED <<kind, ws, subs, polled, quiet, dropped, acts>>
Notice ==
  /\ net.open /\ ~net.broken /\ Ending
  /\ net' = Say(net, Ack("notice", 0, TRUE))
  /\ UNCHANGED <<kind, ws, subs, polled, quiet, dropped>>
StreamBreak ==
  /\ net.open /\ ~net.broken /\ Ending
  /\ \E lost \in BOOLEAN : net' = [net EXCEPT !.broken = TRUE, !.in = IF lost THEN <<>> ELSE @]
  /\ UNCHANGED <<kind, ws, subs, polled, quiet, dropped>>

StreamNext ==
  \/ Connecting \/ ConnectionMade \/ ConnectionRefused \/ GiveUpConnection
  \/ Login \/ Replayed \/ WriteCommand \/ Heartbeat \/ StreamTick
  \/ \E key \in Keys : Subscribe(key)
  \/ \E key \in Keys : Unsubscribe(key)
  \/ StreamReceive \/ ReceiveFails \/ Serve \/ Notice \/ StreamBreak

StreamSpec == StreamInit /\ [][StreamNext]_StreamVars

-----------------------------------------------------------------------------
\* Orders leave only on a connection whose login OKX has taken: "private
\* subscriptions and writes remain unavailable until OKX has explicitly
\* acknowledged a successful login".
OrdersLoggedIn ==
  \A i \in DOMAIN net.out : net.out[i].op = "order" => net.out[i].logged

\* A subscription is active only while OKX holds it on the connection in use:
\* after a loss, a notice, a refusal, or a cancellation that an old
\* acknowledgement crosses, nothing is routed for it.
ActiveIsHeld == (net.open /\ ws.state # "Backoff") => subs.active \subseteq net.held

\* A peer that has fallen silent is given up after two intervals and a poll.
StreamSilenceEnds == Up => quiet <= 2 * HEARTBEAT_INTERVAL + 1

\* The heartbeat ends only a connection on which nothing came for two intervals,
\* the second one after its ping.
PongSaves == dropped # <<>> => dropped[1] >= 2 * HEARTBEAT_INTERVAL

\* What the state of a stream session says is true at OKX, and a connection is
\* given up exactly when it has been silent for too long.
StreamHonest == OrdersLoggedIn /\ ActiveIsHeld /\ StreamSilenceEnds /\ PongSaves
=============================================================================
