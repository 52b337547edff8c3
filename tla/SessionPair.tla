----------------------------- MODULE SessionPair -----------------------------
(***************************************************************************)
(* Two session engines, an initiator and an acceptor, each driven by the   *)
(* transport's run_connection over a TCP connection that may break at any  *)
(* time and is made again.  Each connection gets a new Session seeded from *)
(* the side's message store; one dispatch (the engine's handler, the       *)
(* performing of its actions, the persisting of the sequence numbers) is   *)
(* one step here.                                                          *)
(*                                                                         *)
(* Time: ticks are taken only where a handshake waits.  A logged-on engine *)
(* only sends heartbeats and watches the peer on them; Session has that.   *)
(***************************************************************************)
EXTENDS SessionCore

CONSTANTS
  Setups,        \* the pairs of sessions considered, by name
  CfgsOf,        \* the configuration of each side of each pair
  BoundsOf       \* bounds of each pair: application messages sent by each side
                 \* (apps), connections (conns), logouts asked for (logouts)

Side == {"I", "A"}
Peer(p) == IF p = "I" THEN "A" ELSE "I"

ASSUME PairAssumption ==
  /\ CfgsOf \in [Setups -> [Side -> Config]]
  /\ \A n \in Setups : /\ CfgsOf[n]["I"].role = "Initiator"
                       /\ CfgsOf[n]["A"].role = "Acceptor"
  /\ BoundsOf \in [Setups -> [apps: Nat, conns: Nat, logouts: Nat]]

VARIABLES
  setup,      \* the pair that is run; it never changes
  eng,        \* each side's Session; between connections, what its store keeps
  link,       \* each side: run_connection is running
  up,         \* the TCP connection carries data
  wire,       \* messages on their way to each side
  sent,       \* history: application messages each side has numbered
  got,        \* history: bodies handed to each side's application
  asked,      \* history: a logout was asked for, or a wait ran out, on this
              \* connection
  conns,      \* connections made so far
  logouts     \* logouts asked for so far

vars == <<setup, eng, link, up, wire, sent, got, asked, conns, logouts>>

CfgOf == CfgsOf[setup]
Bounds == BoundsOf[setup]

TypeOK ==
  /\ setup \in Setups
  /\ eng \in [Side -> Session]
  /\ link \in [Side -> BOOLEAN]
  /\ up \in BOOLEAN
  /\ wire \in [Side -> Seq(Message)]
  /\ sent \in [Side -> SUBSET Message]
  /\ got \in [Side -> SUBSET Nat]
  /\ asked \in BOOLEAN
  /\ conns \in 0..Bounds.conns
  /\ logouts \in 0..Bounds.logouts

Init ==
  /\ setup \in Setups
  /\ eng = [p \in Side |-> new(CfgOf[p])]
  /\ link = [p \in Side |-> FALSE]
  /\ up = FALSE
  /\ wire = [p \in Side |-> <<>>]
  /\ sent = [p \in Side |-> {}]
  /\ got = [p \in Side |-> {}]
  /\ asked = FALSE
  /\ conns = 0
  /\ logouts = 0

-----------------------------------------------------------------------------
(***************************************************************************)
(* perform_actions: the messages an action list puts on the wire.  (The    *)
(* applications refuse nothing here.)                                      *)
(***************************************************************************)
Written(acts) ==
  LET isMsg(a) == a.op \in {"send", "resend"}
      msgs == SelectSeq(acts, isMsg)
  IN  [i \in DOMAIN msgs |-> msgs[i].msg]

\* dispatch: side p's engine becomes t, and what t sends goes out if the
\* connection still carries it; inbox is what is left of p's input.
Dispatch(p, t, inbox) ==
  /\ eng' = [eng EXCEPT ![p] = [t EXCEPT !.acts = <<>>]]
  /\ wire' = [wire EXCEPT ![p] = inbox,
                          ![Peer(p)] = IF up THEN @ \o Written(t.acts) ELSE @]

\* run_connection's prologue: a new Session, seeded from the store.
Restored(p) ==
  LET c == CfgOf[p]
      old == eng[p]
  IN  seed_sent_messages(c,
        seed_sequences(new(c), old.next_out, old.next_in), old.store)

\* Both ends of a new TCP connection dispatch Event::Connected.
Connect ==
  /\ \A p \in Side : ~link[p]
  /\ conns < Bounds.conns
  /\ LET t == [p \in Side |-> on_connected(CfgOf[p], Restored(p))]
     IN  /\ eng' = [p \in Side |-> [t[p] EXCEPT !.acts = <<>>]]
         /\ wire' = [p \in Side |-> Written(t[Peer(p)].acts)]
  /\ link' = [p \in Side |-> TRUE]
  /\ up' = TRUE
  /\ asked' = FALSE
  /\ conns' = conns + 1
  /\ UNCHANGED <<setup, sent, got, logouts>>

Running(p) == link[p] /\ eng[p].state # "Disconnected"

\* handle_inbound: the application sees the message first, unless the engine
\* is certain to refuse it.
Receive(p) ==
  /\ Running(p)
  /\ wire[p] # <<>>
  /\ LET m == Head(wire[p])
     IN  /\ Dispatch(p, on_received(CfgOf[p], eng[p], m, TRUE), Tail(wire[p]))
         /\ got' = IF is_admin_type(m) \/ would_reject_before_processing(eng[p], m)
                   THEN got
                   ELSE [got EXCEPT ![p] = @ \cup {m.body}]
  /\ UNCHANGED <<setup, link, up, sent, asked, conns, logouts>>

\* SessionHandle::send; the application waits for on_logon before it sends.
SendApp(p) ==
  /\ Running(p)
  /\ eng[p].state = "LoggedOn"
  /\ Cardinality(sent[p]) < Bounds.apps
  /\ LET body == Cardinality(sent[p]) + 1
         t == send_app(CfgOf[p], eng[p], body)
     IN  /\ Dispatch(p, t, wire[p])
         /\ sent' = [sent EXCEPT ![p] = @ \cup {t.acts[Len(t.acts)].msg}]
  /\ UNCHANGED <<setup, link, up, got, asked, conns, logouts>>

\* SessionHandle::logout.
StartLogout(p) ==
  /\ Running(p)
  /\ eng[p].state = "LoggedOn"
  /\ logouts < Bounds.logouts
  /\ Dispatch(p, on_start_logout(eng[p]), wire[p])
  /\ asked' = TRUE
  /\ logouts' = logouts + 1
  /\ UNCHANGED <<setup, link, up, sent, got, conns>>

\* The ticker runs out for a side that waits for a Logon or a Logout.
Timeout(p) ==
  /\ Running(p)
  /\ eng[p].state \in {"AwaitingLogon", "AwaitingLogout"}
  /\ Dispatch(p, on_tick(CfgOf[p], eng[p], TRUE), wire[p])
  /\ asked' = TRUE
  /\ UNCHANGED <<setup, link, up, sent, got, conns, logouts>>

\* The network breaks the connection; neither side knows yet.
Break ==
  /\ up
  /\ up' = FALSE
  /\ UNCHANGED <<setup, eng, link, wire, sent, got, asked, conns, logouts>>

\* run_connection ends, after a teardown by the engine or on EOF or an I/O
\* error: Event::Disconnected, then the socket is closed.  What was not read is
\* lost; what was written may still reach the peer.
End(p) ==
  /\ link[p]
  /\ eng[p].state = "Disconnected" \/ ~up
  /\ LET reason == eng[p].last_disconnect_reason
         t == enter_disconnected(CfgOf[p], eng[p],
                IF reason = "none" THEN "other" ELSE reason)
     IN  eng' = [eng EXCEPT ![p] = [t EXCEPT !.acts = <<>>]]
  /\ link' = [link EXCEPT ![p] = FALSE]
  /\ wire' = [wire EXCEPT ![p] = <<>>]
  /\ up' = FALSE
  /\ UNCHANGED <<setup, sent, got, asked, conns, logouts>>

Next ==
  \/ Connect
  \/ \E p \in Side : Receive(p)
  \/ \E p \in Side : SendApp(p)
  \/ \E p \in Side : StartLogout(p)
  \/ \E p \in Side : Timeout(p)
  \/ Break
  \/ \E p \in Side : End(p)

Spec == Init /\ [][Next]_vars

\* Both tasks run, and TCP delivers as long as the connection is up.
FairSpec ==
  /\ Spec
  /\ WF_vars(Connect)
  /\ \A p \in Side : WF_vars(Receive(p)) /\ WF_vars(End(p))

-----------------------------------------------------------------------------
(***************************************************************************)
(* Properties.                                                             *)
(***************************************************************************)

\* No application message is lost: one whose number the receiver has passed was
\* handed to the receiver's application, however often the connection broke in
\* between.  In particular no gap fill hides an application message.
NothingLost ==
  \A p \in Side : \A m \in sent[Peer(p)] :
    m.seq < eng[p].next_in => m.body \in got[p]

\* Neither side ever expects a number that the other has not used yet: it would
\* take the other's next messages for duplicates.
NeverAhead ==
  \A p \in Side : eng[p].next_in <= eng[Peer(p)].next_out

LoggedOn == up /\ \A p \in Side : link[p] /\ eng[p].state = "LoggedOn"

InSync ==
  \A p \in Side : /\ eng[p].next_in = eng[Peer(p)].next_out
                  /\ eng[p].queue = {}

\* Recovery never stalls: when both sides are logged on over a working
\* connection and nothing is in flight, each has everything the other sent, and
\* no gap is left that nobody asks for.
QuietMeansInSync ==
  (LoggedOn /\ \A p \in Side : wire[p] = <<>>) => InSync

\* Recovery ends: two logged-on sides get in sync, unless the connection breaks
\* or one of them leaves; requests and answers do not chase each other for ever.
RecoveryCompletes ==
  LoggedOn ~> (InSync \/ ~LoggedOn)

(***************************************************************************)
(* The abstract session: message k of a side's log is its k-th application *)
(* message, and a side is done with those below its next expected number.  *)
(***************************************************************************)
Abstract == INSTANCE ReliableSession WITH
  log <- [p \in Side |-> Cardinality(sent[p])],
  handed <- got,
  done <- [p \in Side |->
             Cardinality({m \in sent[Peer(p)] : m.seq < eng[p].next_in})]

\* Two connected engines, with every loss and reconnection, behave like a
\* reliable session: messages count as received in the order in which they were
\* sent, none is left out, and none is ever taken back.
IsReliable == Abstract!Spec

\* Two engines of this repository do not throw each other out: as long as nobody
\* asked for a logout, no wait ran out and the connection works, neither tears
\* the session down, whatever earlier connections lost.
NobodyThrownOut ==
  (up /\ ~asked) => \A p \in Side : link[p] => eng[p].state # "Disconnected"

\* Delivery over any number of connections: nothing passed by, nothing expected
\* before its time.
DeliveryExact == TypeOK /\ NothingLost /\ NeverAhead
=============================================================================
