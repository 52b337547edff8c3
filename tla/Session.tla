------------------------------- MODULE Session -------------------------------
(***************************************************************************)
(* One session engine against a counterparty that may send anything: the   *)
(* events of truefix-session's Session::handle and the calls the transport *)
(* makes beside it, one action each.                                       *)
(*                                                                         *)
(* A connection starts with Event::Connected.  The engine is given further *)
(* events until its state is Disconnected or the peer goes away; then it   *)
(* gets one Event::Disconnected.  As on_connected allows (and the crate's  *)
(* tests do), the same Session object is then connected again; the         *)
(* transport's fresh object per connection is in SessionPair.              *)
(***************************************************************************)
EXTENDS SessionCore

CONSTANTS
  Setups,     \* the sessions considered, by name
  CfgOf,      \* the configuration of each
  InboundOf,  \* the messages that the counterparty of each may send
  MaxOutOf    \* bound: no new work is started once next_out exceeds it

ASSUME SessionAssumption ==
  /\ CfgOf \in [Setups -> Config]
  /\ InboundOf \in [Setups -> SUBSET Message]
  /\ MaxOutOf \in [Setups -> Nat]

VARIABLES
  setup,      \* the session that is run; it never changes
  s,          \* the Session
  link,       \* TRUE while there is a connection
  seen,       \* history: the inbound sequence numbers accounted for since the
              \* last reset (received, or covered by a SequenceReset)
  probed      \* history: a TestRequest was sent since the peer was last heard

vars == <<setup, s, link, seen, probed>>

Cfg == CfgOf[setup]
Inbound == InboundOf[setup]
MaxOut == MaxOutOf[setup]

TypeOK ==
  /\ setup \in Setups
  /\ s \in Session
  /\ link \in BOOLEAN
  /\ seen \subseteq Nat
  /\ probed \in BOOLEAN

Init ==
  /\ setup \in Setups
  /\ s = new(Cfg)
  /\ link = FALSE
  /\ seen = {}
  /\ probed = FALSE

-----------------------------------------------------------------------------
idle == [s EXCEPT !.acts = <<>>]

\* The engine takes an event only while it is connected and not torn down.
Running == link /\ s.state # "Disconnected"
Bounded == s.next_out <= MaxOut

Sent(t, type) ==
  \E i \in DOMAIN t.acts : t.acts[i].op = "send" /\ t.acts[i].msg.type = type

DidReset(t) == \E i \in DOMAIN t.acts : t.acts[i].op = "reset_store"

\* The numbers that m accounts for, given the session t after m: its own if the
\* session took m (queued it or counted it), and those that a SequenceReset
\* declares skipped.
Accounts(m, t) ==
  LET taken == m \in t.queue \/ m.seq < t.next_in
      from == IF m.flag THEN m.seq ELSE 1
  IN  (IF taken THEN {m.seq} ELSE {}) \cup
      (IF m.type = "SequenceReset" /\ (m.flag => taken)
       THEN from..(m.num - 1) ELSE {})

Connected ==
  /\ ~link
  /\ Bounded
  /\ s' = on_connected(Cfg, idle)
  /\ link' = TRUE
  /\ seen' = IF DidReset(s') THEN {} ELSE seen
  /\ probed' = FALSE
  /\ UNCHANGED setup

Received(m, open) ==
  /\ Running
  /\ Bounded
  /\ s' = on_received(Cfg, idle, m, open)
  /\ seen' =
       IF \/ DidReset(s')
          \/ m.type = "Logon" /\ m.flag /\ s'.state = "LoggedOn"
       THEN IF m.type = "Logon" THEN {m.seq} ELSE {}
       ELSE seen \cup Accounts(m, s')
  /\ probed' = FALSE
  /\ UNCHANGED <<setup, link>>

\* A silent peer is given up after a few ticks, so ticks need no bound unless
\* the check is disabled.
Tick(open) ==
  /\ Running
  /\ Cfg.disable_heart_beat_check => Bounded
  /\ s' = on_tick(Cfg, idle, open)
  /\ seen' = IF DidReset(s') THEN {} ELSE seen
  /\ probed' = (probed \/ Sent(s', "TestRequest"))
  /\ UNCHANGED <<setup, link>>

StartLogout ==
  /\ Running
  /\ Bounded
  /\ s' = on_start_logout(idle)
  /\ UNCHANGED <<setup, link, seen, probed>>

Garbled ==
  /\ Running
  /\ Bounded
  /\ s' = on_garbled(Cfg, idle)
  /\ UNCHANGED <<setup, link, seen, probed>>

\* The application sends; the transport does not look at the state first.
SendApp ==
  /\ Running
  /\ Bounded
  /\ s' = send_app(Cfg, idle, 1)
  /\ UNCHANGED <<setup, link, seen, probed>>

\* An operator resets the session (Monitor::reset).
Reset ==
  /\ Running
  /\ s' = reset(idle)
  /\ seen' = {}
  /\ UNCHANGED <<setup, link, probed>>

\* The end of the connection: EOF, write error, or after a Disconnect.
Disconnected ==
  /\ link
  /\ s' = enter_disconnected(Cfg, idle,
            IF s.last_disconnect_reason = "none" THEN "other"
                                                 ELSE s.last_disconnect_reason)
  /\ seen' = IF DidReset(s') THEN {} ELSE seen
  /\ link' = FALSE
  /\ UNCHANGED <<setup, probed>>

Clock == IF Cfg.has_schedule THEN BOOLEAN ELSE {TRUE}

Next ==
  \/ Connected
  \/ \E m \in Inbound, open \in Clock : Received(m, open)
  \/ \E open \in Clock : Tick(open)
  \/ StartLogout
  \/ Garbled
  \/ SendApp
  \/ Reset
  \/ Disconnected

Spec == Init /\ [][Next]_vars

(***************************************************************************)
(* The transport's one-second ticker fires while it runs the engine (its   *)
(* select loop prefers inbound messages, so this assumes that the peer     *)
(* does not keep the inbound channel full for ever), and the transport     *)
(* always reports the end of a torn-down connection.                       *)
(***************************************************************************)
FairSpec ==
  /\ Spec
  /\ WF_vars(\E open \in Clock : Tick(open))
  /\ WF_vars(s.state = "Disconnected" /\ Disconnected)

-----------------------------------------------------------------------------
(***************************************************************************)
(* Safety.                                                                 *)
(***************************************************************************)

\* No inbound sequence number is skipped in silence: every number below the
\* next expected one was received, or declared skipped by a SequenceReset, since
\* the last reset.  A gap fill that is itself ahead of the expected number, or a
\* message queued behind a gap, must wait for its turn.
NoSilentSkip ==
  s.state # "Disconnected" => \A n \in 1..(s.next_in - 1) : n \in seen

\* Between two handler calls a live session holds no message it could already
\* process, and none that was superseded: the queue is strictly ahead of the
\* expected number.
QueueAhead ==
  s.state # "Disconnected" => \A m \in s.queue : m.seq > s.next_in

\* The resend store never holds a message with a sequence number that has not
\* been used, and holds one message per number: otherwise a ResendRequest
\* answers with a number the counterparty will see again on another message.
StoreBelowOut ==
  /\ \A m \in s.store : m.seq \in 1..(s.next_out - 1)
  /\ \A m, n \in s.store : m.seq = n.seq => m = n

\* Number of the first message after replayed action a.
ReplayEnd(a) == IF a.op = "resend" THEN a.msg.seq + 1 ELSE a.msg.num

Replayed(a) ==
  a.op = "resend" \/ (a.op = "send" /\ a.msg.type = "SequenceReset")

\* The answer to a ResendRequest has no hole and no overlap: each replayed
\* message or gap fill starts where the one before it ended, none reaches
\* beyond the numbers used so far, and no gap fill covers an application
\* message that could be sent again.  (Unless the same call also resets: then
\* the numbers to compare with are gone.)
ReplayIsGapless ==
  \A i \in DOMAIN s.acts :
    (Replayed(s.acts[i]) /\ ~DidReset(s)) =>
      /\ ReplayEnd(s.acts[i]) <= s.next_out
      /\ \A m \in s.store :
           m.seq \in s.acts[i].msg.seq..(ReplayEnd(s.acts[i]) - 1)
             => is_admin_type(m) \/ s.acts[i].op = "resend"
      /\ i > 1 /\ Replayed(s.acts[i - 1])
           => ReplayEnd(s.acts[i - 1]) = s.acts[i].msg.seq

\* A completed Logout exchange under ResetOnLogout leaves a clean session for
\* the next connection: on_logout_msg resets in the middle of on_received,
\* which then still counts the Logout and drains the queue.
GracefulLogoutResets ==
  (/\ ~link
   /\ s.last_disconnect_reason = "graceful"
   /\ Cfg.reset_on_logout)
  => s.next_in = 1 /\ s.next_out = 1 /\ s.store = {} /\ s.queue = {}

-----------------------------------------------------------------------------
(***************************************************************************)
(* Action properties.                                                      *)
(***************************************************************************)

\* The expected inbound number is taken back only by a reset: one that clears
\* the store, an operator's, or a Logon with ResetSeqNumFlag.  In particular no
\* SequenceReset rewinds it, which would let old messages in again.
NextInForward ==
  [][s'.next_in < s.next_in =>
       \/ DidReset(s')
       \/ Reset
       \/ \E m \in Inbound, open \in Clock :
            m.type = "Logon" /\ m.flag /\ Received(m, open)]_vars

\* A logged-on session is given up for silence only after it has asked: a
\* TestRequest went out since the peer was last heard.
ProbedBeforeTimeout ==
  [][(s.state = "LoggedOn" /\ link /\ \E open \in Clock : Tick(open)) =>
       s'.state # "Disconnected" \/ probed]_vars

-----------------------------------------------------------------------------
(***************************************************************************)
(* Liveness, under FairSpec.                                               *)
(***************************************************************************)

\* The handshakes do not hang: a connection that waits for a Logon or for a
\* Logout gets it or is closed, whatever else the peer sends meanwhile.
HandshakeEnds ==
  /\ (link /\ s.state = "AwaitingLogon")
       ~> (s.state = "LoggedOn" \/ ~link)
  /\ (link /\ s.state = "AwaitingLogout") ~> ~link

\* A peer that falls silent is noticed: the session hears from it again or
\* leaves the logged-on state.
SilenceIsNoticed ==
  (s.state = "LoggedOn" /\ s.ticks_since_recv > 0)
    ~> (s.ticks_since_recv = 0 \/ s.state # "LoggedOn")

\* The timers: a silent peer is probed before it is given up, it is noticed in
\* the end, and no Logon or Logout is waited for without end (on_tick).
SilenceHandled == ProbedBeforeTimeout /\ HandshakeEnds /\ SilenceIsNoticed

\* The numbers move as the configuration says: next_in only forward but for a
\* reset, and both back to 1 at a logout or disconnect that asks for it.
NumbersMove == [](TypeOK /\ GracefulLogoutResets) /\ NextInForward
=============================================================================
