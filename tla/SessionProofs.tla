---------------------------- MODULE SessionProofs ---------------------------
(***************************************************************************)
(* One session engine, for every configuration, every set of inbound       *)
(* messages and every bound.  IInv, the well-formed engine, is inductive   *)
(* and implies StoreBelowOut.  The events keep Good (SessionStepProofs);   *)
(* QInv, which is Good between two events with the numbers accounted for   *)
(* so far as K, is inductive too, with one lemma per event, and implies the *)
(* properties of the queue, of the expected number and of the replay.      *)
(***************************************************************************)
EXTENDS SessionQueueProofs

\* The time a leaf may take, in seconds; most take a fraction of one.
USE SMTT(30), ZenonT(30)

IInv == setup \in Setups /\ Sound(s)

LEMMA SetupTyped ==
  ASSUME setup \in Setups
  PROVE  Cfg \in Config /\ Inbound \subseteq Message
BY SessionAssumption DEF SessionAssumption, Cfg, Inbound

LEMMA InitSound == Init => IInv
<1> SUFFICES ASSUME Init PROVE Sound(s)
  BY ZenonT(30) DEF Init, IInv
<1>1. Cfg.heartbeat_interval \in Nat
  <2>1. Cfg \in Config
    BY SetupTyped DEF Init
  <2> HIDE DEF Cfg
  <2>2. QED BY <2>1 DEF Config
<1>2. s = new(Cfg)
  BY DEF Init
<1>3. Typed(s)
  BY <1>1, <1>2 DEF new, Typed, States
<1>4. s.queue = {} /\ s.store = {}
  BY <1>2 DEF new
<1>5. QED BY <1>3, <1>4, FS_EmptySet DEF Sound, InOrder

LEMMA IdleSound == Sound(s) => Sound(idle)
<1> SUFFICES ASSUME Sound(s) PROVE Sound(idle)
  OBVIOUS
<1>1. Typed(idle) /\ idle.queue = s.queue /\ idle.store = s.store
      /\ idle.next_out = s.next_out
  BY DEF idle, Sound, Typed
<1>2. QED BY <1>1, KeepsSound

LEMMA NextSound == IInv /\ [Next]_vars => IInv'
<1> SUFFICES ASSUME IInv, [Next]_vars PROVE IInv'
  OBVIOUS
<1>a. setup' = setup
  BY DEF Next, vars, Connected, Received, Tick, StartLogout, Garbled, SendApp,
         Reset, Disconnected
<1> SUFFICES Sound(s')
  BY <1>a DEF IInv
<1>1. Sound(idle)
  BY IdleSound DEF IInv
<1>0. Cfg \in Config /\ Inbound \subseteq Message
  BY SetupTyped DEF IInv
<1> USE <1>0
<1>2. CASE Connected
  BY <1>1, <1>2, ConnectedSound DEF Connected
<1>3. ASSUME NEW m \in Inbound, NEW open \in Clock, Received(m, open)
      PROVE  Sound(s')
  <2>1. m \in Message
    OBVIOUS
  <2>2. QED BY <1>1, <1>3, <2>1, ReceivedSound DEF Received
<1>4. ASSUME NEW open \in Clock, Tick(open)
      PROVE  Sound(s')
  BY <1>1, <1>4, TickSound DEF Tick
<1>5. CASE StartLogout
  BY <1>1, <1>5, LogoutSound DEF StartLogout
<1>6. CASE Garbled
  BY <1>1, <1>6, RejectSound DEF Garbled
<1>7. CASE SendApp
  BY <1>1, <1>7, SendAppSound DEF SendApp
<1>8. CASE Reset
  BY <1>1, <1>8, ResetSound DEF Reset
<1>9. CASE Disconnected
  <2> DEFINE reason == IF s.last_disconnect_reason = "none" THEN "other"
                                                  ELSE s.last_disconnect_reason
  <2>1. reason \in {"graceful", "other"}
    BY DEF IInv, Sound, Typed
  <2> HIDE DEF reason
  <2>2. Sound(enter_disconnected(Cfg, idle, reason))
    BY <1>1, <2>1, EnterDisconnectedSound
  <2>3. QED BY <1>9, <2>2 DEF Disconnected, reason
<1>10. CASE UNCHANGED vars
  BY <1>10 DEF vars, IInv
<1>11. QED
  BY <1>2, <1>3, <1>4, <1>5, <1>6, <1>7, <1>8, <1>9, <1>10 DEF Next

\* Every handler of the engine keeps its fields typed and its resend store in
\* order, whatever the configuration and the counterparty.
THEOREM SessionSound == Spec => []IInv
BY InitSound, NextSound, PTL DEF Spec

\* The resend store never holds a message whose sequence number is unused, nor
\* two messages with one number (send_stored, reset_sequences and everything
\* between them in state.rs).
THEOREM ResendStore == Spec => []StoreBelowOut
<1>1. IInv => StoreBelowOut
  BY DEF IInv, Sound, InOrder, StoreBelowOut
<1>2. QED BY <1>1, SessionSound, PTL

-----------------------------------------------------------------------------
(***************************************************************************)
(* Events.                                                                 *)
(***************************************************************************)

\* The numbers that m would account for are in K.
Declared(m, K) ==
  /\ m.seq \in K
  /\ m.type = "SequenceReset" => (IF m.flag THEN m.seq ELSE 1)..(m.num - 1) \subseteq K

\* A refused SequenceReset ends the connection or resets the session.
SafeReset(c, m) ==
  m.type = "SequenceReset" /\ IsInvalid(m) => c.disconnect_on_error \/ c.reset_on_error

LEMMA ReceivedGood ==
  ASSUME NEW c \in Config, NEW t, NEW K, NEW R, NEW low \in Nat, Good(c, t, K, R, low),
         NoReplay(t), ~DidReset(t), NEW m \in Message, Declared(m, K), NEW open,
         m.type = "Logon" => m.seq \in R
  PROVE  LET u == on_received(c, t, m, open)
         IN  /\ IF m.type = "Logon" THEN LogonHandled(c, t, u, m, K, R, low)
                                    ELSE Handled(c, t, u, m, K, R, low)
             /\ Keyed(t) /\ Ahead(t) /\ SafeReset(c, m) => Ahead(u)
<1> DEFINE v == [t EXCEPT !.ticks_since_recv = 0, !.test_request_outstanding = FALSE]
           told == build_session_reject(c, v)
           gone == session_reject_before_logout(c, v)
           u == on_received(c, t, m, open)
<1>1. Whole(t)
  BY DEF Good
<1>2. Typed(v) /\ v.queue = t.queue /\ v.store = t.store /\ v.next_out = t.next_out
      /\ v.acts = t.acts
  BY <1>1, ZenonT(40) DEF Whole, Sound, Typed
<1>3. SameBook(t, v)
  BY <1>1 DEF Whole, Sound, Typed, SameBook
<1>4. \/ u \in {logout_on_error(c, told), logout_on_error(c, v)}
      \/ m.type = "Logon" /\ u = on_logon(c, v, m, open)
      \/ m.type # "Logon" /\ u \in {told, gone}
      \/ /\ m.type = "SequenceReset" /\ (m.flag => ~(m.seq > v.next_in) /\ ~(m.seq < v.next_in))
         /\ u = on_sequence_reset(c, v, m)
      \/ /\ m.type # "Logon" /\ (m.type = "SequenceReset" => m.flag)
         /\ \/ m.seq > v.next_in /\ u = on_too_high(c, v, m)
            \/ u = on_too_low(c, v, m)
            \/ ~(m.seq > v.next_in) /\ ~(m.seq < v.next_in) /\ u = on_in_order(c, v, m)
  BY ZenonT(30) DEF on_received
<1> HIDE DEF v, u
<1>5. Whole(v) /\ Sends(t, v)
  BY <1>1, <1>2, <1>3, KeepsSound, SilentSends DEF Whole
<1>6. /\ Good(c, v, K, R, low) /\ NoReplay(v) /\ ~DidReset(v)
      /\ Keyed(t) => Keyed(v)
      /\ Ahead(t) => Ahead(v)
  BY <1>1, <1>5, SendsGood, SendsKeeps, SendsReset, SendsOrder DEF Keeps
<1>7. v.next_in \in Nat \ {0} /\ m.seq \in Nat /\ m.num \in Int
  BY <1>5, WholeTypes DEF Message, OptNat, Absent, Malformed
<1>8. Whole(told) /\ Sends(v, told)
  BY <1>5, RejectSends
<1>9. Handled(c, v, told, m, K, R, low) /\ (Ahead(v) => Ahead(told))
  BY <1>6, <1>8, SendsHandled
<1>10. SUFFICES /\ IF m.type = "Logon" THEN LogonHandled(c, v, u, m, K, R, low)
                                       ELSE Handled(c, v, u, m, K, R, low)
                /\ Keyed(v) /\ Ahead(v) /\ SafeReset(c, m) => Ahead(u)
  BY <1>5, <1>6, ThenHandled DEF LogonHandled, u
<1>11. CASE u = logout_on_error(c, told)
  <2>1. Handled(c, told, u, m, K, R, low) /\ Ahead(u) /\ u.state = "Disconnected"
    BY ZenonT(30), <1>9, <1>11, LogoutOnErrorHandled, LogoutOnErrorGood DEF Handled
  <2>2. Handled(c, v, u, m, K, R, low)
    BY <1>8, <2>1, ThenHandled
  <2>3. QED BY <2>1, <2>2 DEF LogonHandled
<1>12. CASE u = logout_on_error(c, v)
  <2>1. Handled(c, v, u, m, K, R, low) /\ Ahead(u) /\ u.state = "Disconnected"
    BY <1>6, <1>12, LogoutOnErrorHandled, LogoutOnErrorGood
  <2>2. QED BY <2>1 DEF LogonHandled
<1>13. CASE m.type = "Logon" /\ u = on_logon(c, v, m, open)
  BY <1>6, <1>13, LogonGood DEF Declared
<1>14. CASE m.type # "Logon" /\ u = told
  BY <1>9, <1>14
<1>15. CASE m.type # "Logon" /\ u = gone
  <2>1. Whole(u) /\ Sends(v, u)
    BY <1>5, <1>15, RejectThenLogoutSends
  <2>2. QED BY <1>6, <1>15, <2>1, SendsHandled
<1>16. CASE /\ m.type = "SequenceReset"
            /\ (m.flag => ~(m.seq > v.next_in) /\ ~(m.seq < v.next_in))
            /\ u = on_sequence_reset(c, v, m)
  <2>1. m.seq \in K /\ v.next_in..(m.num - 1) \subseteq K
    BY <1>7, <1>16 DEF Declared
  <2>2. /\ Handled(c, v, u, m, K, R, low)
        /\ (/\ Keyed(v) /\ Ahead(v)
            /\ IsInvalid(m) => c.disconnect_on_error \/ c.reset_on_error) => Ahead(u)
    BY <1>6, <1>16, <2>1, SequenceResetGood
  <2>3. QED BY <1>16, <2>2 DEF SafeReset
<1>17. CASE /\ m.type # "Logon" /\ (m.type = "SequenceReset" => m.flag)
            /\ m.seq > v.next_in /\ u = on_too_high(c, v, m)
  <2>1. Accounted(m, K)
    BY <1>17 DEF Declared, Accounted
  <2>2. QED BY <1>6, <1>17, <2>1, TooHighGood
<1>18. CASE m.type # "Logon" /\ u = on_too_low(c, v, m)
  BY <1>6, <1>18, TooLowGood
<1>19. CASE /\ m.type # "Logon" /\ ~(m.seq > v.next_in) /\ ~(m.seq < v.next_in)
            /\ u = on_in_order(c, v, m)
  <2>1. m.seq = v.next_in /\ m.seq \in K
    BY <1>7, <1>19 DEF Declared
  <2>2. QED BY <1>6, <1>19, <2>1, InOrderGood
<1>20. QED BY ZenonT(30), <1>4, <1>11, <1>12, <1>13, <1>14, <1>15, <1>16, <1>17, <1>18, <1>19

LEMMA ExpiredGood ==
  ASSUME NEW c \in Config, NEW t, NEW K, NEW R, NEW low, Good(c, t, K, R, low), ~DidReset(t)
  PROVE  LET u == Disconnect(enter_disconnected(c, t, "other"))
         IN  Good(c, u, K, R, low) /\ (Keyed(t) => Keyed(u)) /\ u.state = "Disconnected"
             /\ u.queue \subseteq t.queue
<1> DEFINE e == enter_disconnected(c, t, "other")
           u == Disconnect(e)
<1>1. /\ Good(c, e, K, R, low) /\ Keeps(t, e) /\ e.state = "Disconnected"
      /\ e.queue \subseteq t.queue
  BY ZenonT(30), EnterDisconnectedGood
<1> HIDE DEF e
<1>2. Whole(e)
  BY <1>1 DEF Good
<1>3. Whole(u) /\ Sends(e, u) /\ u.state = "Disconnected"
  BY <1>1, <1>2, DisconnectSends
<1> HIDE DEF u
<1>4. Good(c, u, K, R, low) /\ Keeps(e, u) /\ u.queue = e.queue
  BY ZenonT(30), <1>1, <1>2, <1>3, SendsGood, SendsKeeps DEF Sends, SameBook
<1>5. QED BY ZenonT(30), <1>1, <1>3, <1>4 DEF Keeps, u, e

LEMMA MonitorSends ==
  ASSUME NEW c \in Config, NEW t, Whole(t)
  PROVE  \/ MonitorPeer(c, t) = Disconnect(enter_disconnected(c, t, "other"))
         \/ Whole(MonitorPeer(c, t)) /\ Sends(t, MonitorPeer(c, t))
<1> DEFINE v == [t EXCEPT !.test_request_outstanding = TRUE]
           asked == send_stored(c, v, base("TestRequest"))
           u == MonitorPeer(c, t)
<1>1. \/ u = Disconnect(enter_disconnected(c, t, "other"))
      \/ u \in {HeartbeatIfDue(c, asked), HeartbeatIfDue(c, t)}
  BY DEF MonitorPeer
<1>2. Typed(v) /\ v.queue = t.queue /\ v.store = t.store /\ v.next_out = t.next_out
      /\ v.acts = t.acts
  BY ZenonT(40) DEF Whole, Sound, Typed
<1>3. SameBook(t, v)
  BY DEF Whole, Sound, Typed, SameBook
<1> HIDE DEF v, u
<1>4. Whole(v) /\ Sends(t, v)
  BY <1>2, <1>3, KeepsSound, SilentSends DEF Whole
<1>5. base("TestRequest") \in Message /\ base("TestRequest").type # "SequenceReset"
  BY AdminTyped
<1>6. Whole(asked) /\ Sends(v, asked)
  BY <1>4, <1>5, SendStoredSends
<1> HIDE DEF asked
<1>7. Whole(asked) /\ Sends(t, asked)
  BY <1>4, <1>6, ThenSends
<1>8. Whole(HeartbeatIfDue(c, asked)) /\ Sends(asked, HeartbeatIfDue(c, asked))
  BY <1>7, HeartbeatSends
<1>9. Whole(HeartbeatIfDue(c, asked)) /\ Sends(t, HeartbeatIfDue(c, asked))
  BY <1>7, <1>8, ThenSends
<1>10. QED BY <1>1, <1>9, HeartbeatSends DEF u

LEMMA TickGood ==
  ASSUME NEW c \in Config, NEW t, NEW K, NEW R, NEW low, Good(c, t, K, R, low),
         ~DidReset(t), NEW open
  PROVE  LET u == on_tick(c, t, open)
         IN  /\ Good(c, u, K, R, low)
             /\ Keyed(t) => Keyed(u)
             /\ Ahead(t) => Ahead(u)
             /\ u.queue \subseteq t.queue
<1> DEFINE v == [t EXCEPT !.ticks_since_send = MinOf(@ + 1, TickMax),
                          !.ticks_since_recv = MinOf(@ + 1, TickMax),
                          !.ticks_awaiting = MinOf(@ + 1, TickMax)]
           expired == Disconnect(enter_disconnected(c, v, "other"))
           u == on_tick(c, t, open)
<1>1. Whole(t)
  BY DEF Good
<1>2. /\ MinOf(t.ticks_since_send + 1, TickMax) \in Nat
      /\ MinOf(t.ticks_since_recv + 1, TickMax) \in Nat
      /\ MinOf(t.ticks_awaiting + 1, TickMax) \in Nat
  BY <1>1, TickMaxAssumption DEF TickMaxAssumption, Whole, Sound, Typed, MinOf
<1>3. u \in {expired, v, on_start_logout(v), HeartbeatIfDue(c, v), MonitorPeer(c, v)}
  <2> HIDE DEF v
  <2>1. QED BY DEF on_tick, v
<1>4. /\ Typed(v) /\ v.queue = t.queue /\ v.store = t.store /\ v.next_out = t.next_out
      /\ v.acts = t.acts /\ SameBook(t, v)
  BY ZenonT(30), <1>1, <1>2 DEF Whole, Sound, Typed, SameBook
<1> HIDE DEF v, u
<1>5. Whole(v) /\ Sends(t, v)
  BY <1>1, <1>4, KeepsSound, SilentSends DEF Whole
<1>6. /\ Good(c, v, K, R, low) /\ ~DidReset(v) /\ v.queue = t.queue
      /\ Keyed(t) => Keyed(v)
      /\ Ahead(t) => Ahead(v)
  BY <1>1, <1>4, <1>5, SendsGood, SendsReset, SendsOrder
<1>7. ASSUME u = expired
      PROVE  Good(c, u, K, R, low) /\ (Keyed(v) => Keyed(u)) /\ Ahead(u)
             /\ u.queue \subseteq v.queue
  BY <1>6, <1>7, ExpiredGood DEF Ahead
<1>8. ASSUME Whole(u), Sends(v, u)
      PROVE  Good(c, u, K, R, low) /\ (Keyed(v) => Keyed(u)) /\ (Ahead(v) => Ahead(u))
             /\ u.queue \subseteq v.queue
  BY ZenonT(30), <1>6, <1>8, SendsGood, SendsOrder DEF Sends, SameBook
<1>9. u = expired \/ (Whole(u) /\ Sends(v, u))
  BY <1>3, <1>5, StaysSends, StartLogoutSends, HeartbeatSends, MonitorSends
<1>10. QED BY <1>6, <1>7, <1>8, <1>9 DEF u

LEMMA ConnectedGood ==
  ASSUME NEW c \in Config, NEW t, Whole(t), t.acts = <<>>, NEW K, NEW R, NEW low \in Nat,
         t.next_in >= low, Below(t, K)
  PROVE  LET u == on_connected(c, t)
         IN  Good(c, u, K, R, low) /\ u.queue = {}
<1> DEFINE fresh == [t EXCEPT !.ticks_awaiting = 0,
                              !.ticks_since_recv = 0,
                              !.test_request_outstanding = FALSE,
                              !.resend_target = Absent,
                              !.resend_chunk_end = Absent,
                              !.reset_on_logon_pending = FALSE,
                              !.last_disconnect_reason = "none",
                              !.logon_sent = FALSE,
                              !.logon_received = FALSE,
                              !.resend_requested = FALSE,
                              !.queue = {},
                              !.state = "AwaitingLogon"]
           z == reset_sequences(fresh, TRUE)
           w == ResetStore(z)
           start == IF c.reset_on_logon THEN w ELSE fresh
           flag == /\ c.reset_on_logon \/ c.reset_on_logout \/ c.reset_on_disconnect
                   /\ start.next_out = 1
                   /\ start.next_in = 1
           ready == [start EXCEPT !.reset_on_logon_pending = flag, !.logon_sent = TRUE]
           logon == logon_with_reset_flag(t.heartbeat_interval,
                      maybe_next_expected(c, start), flag)
           u == send_stored(c, ready, logon)
           a == [op |-> "reset_store", msg |-> base("Logon")]
<1>1. /\ fresh.acts = <<>> /\ fresh.queue = {} /\ fresh.store = t.store
      /\ fresh.next_out = t.next_out /\ fresh.next_in = t.next_in
      /\ fresh.logon_sent = FALSE
  BY DEF Whole, Sound, Typed
<1>2. Typed(fresh)
  BY <1>1, ZenonT(60) DEF Whole, Sound, Typed, States
<1>3. Sound(fresh)
  BY ZenonT(30), <1>1, <1>2, KeepsSound DEF Whole
<1>4. on_connected(c, t) = IF c.role = "Acceptor" THEN fresh ELSE u
  <2> HIDE DEF fresh
  <2>1. QED BY DEF on_connected, fresh
<1> HIDE DEF fresh
<1>5. Good(c, fresh, K, R, low)
  <2>1. fresh.acts \in Seq(Action) /\ DOMAIN fresh.acts = {}
    BY <1>1
  <2>2. Covered(c, fresh, K, R, low)
    BY <1>1, <2>1 DEF Covered, DidReset, Below
  <2>3. QED BY <1>1, <1>3, <2>1, <2>2 DEF Good, Whole, Gapless, Fresh
<1>6. Sound(z) /\ Sound(w)
  BY ZenonT(30), <1>3, ResetSequencesSound, EmitSound DEF ResetStore
<1>7. z.acts = <<>> /\ z.queue = {} /\ z.next_in = 1 /\ z.logon_sent = FALSE
  BY <1>1, <1>3 DEF reset_sequences, Sound, Typed
<1> HIDE DEF z
<1>8. /\ w.acts = Append(z.acts, a) /\ w.queue = {} /\ w.next_in = 1
      /\ w.logon_sent = FALSE
  BY <1>6, <1>7 DEF ResetStore, Emit, Sound, Typed
<1> HIDE DEF w
<1>9. base("Logon") \in Message
  BY AdminTyped
<1>10. a \in Action /\ a.op = "reset_store"
  BY <1>9 DEF Action
<1> HIDE DEF a
<1>11. w.acts = <<a>>
  BY <1>7, <1>8
<1>12. w.acts \in Seq(Action) /\ DidReset(w)
  BY <1>10, <1>11 DEF DidReset
<1>13. Good(c, w, K, R, low)
  BY <1>6, <1>8, <1>12 DEF Good, Whole, Covered, Below, Gapless, Fresh
<1>14. Good(c, start, K, R, low) /\ start.queue = {}
  BY <1>1, <1>5, <1>8, <1>13
<1>15. flag \in BOOLEAN
  OBVIOUS
<1> HIDE DEF start
<1>16. t.heartbeat_interval \in OptNat /\ Sound(start) /\ Whole(start)
  BY <1>14 DEF Whole, Sound, Typed, OptNat, Good
<1> HIDE DEF flag
<1>17. logon \in Message
  BY <1>15, <1>16, LogonType
<1>18. logon.type = "Logon"
  BY DEF logon_with_reset_flag, base
<1> HIDE DEF logon
<1>19. Typed(ready)
  BY <1>15, <1>16, ZenonT(40) DEF Sound, Typed
<1>20. /\ ready.queue = start.queue /\ ready.store = start.store
       /\ ready.next_out = start.next_out /\ ready.acts = start.acts
       /\ ready.next_in = start.next_in /\ ready.state = start.state
       /\ ready.last_disconnect_reason = start.last_disconnect_reason
  BY <1>16 DEF Sound, Typed
<1> HIDE DEF ready
<1>21. Sound(ready)
  BY <1>16, <1>19, <1>20, KeepsSound
<1>22. ASSUME c.role # "Acceptor" PROVE Good(c, ready, K, R, low) /\ ready.queue = {}
  <2>1. Covered(c, ready, K, R, low)
    BY <1>14, <1>20 DEF Good, Covered, Below, DidReset, LogoutPending
  <2>2. Gapless(ready)
    BY ZenonT(30), <1>14, <1>20 DEF Good, Gapless, DidReset
  <2>3. QED BY <1>14, <1>16, <1>20, <1>21, <1>22, <2>1, <2>2 DEF Good, Whole, Fresh
<1>23. ASSUME c.role # "Acceptor" PROVE Good(c, u, K, R, low) /\ u.queue = {}
  <2>1. Whole(ready)
    BY <1>22, <1>23 DEF Good
  <2>2. Whole(u) /\ Sends(ready, u)
    BY ZenonT(30), <1>17, <1>18, <2>1, SendStoredSends
  <2>3. QED BY ZenonT(30), <1>22, <1>23, <2>2, SendsGood DEF Sends, SameBook
<1>24. QED BY ZenonT(30), <1>1, <1>4, <1>5, <1>23

-----------------------------------------------------------------------------
(***************************************************************************)
(* The session: QInv is inductive.                                         *)
(***************************************************************************)
QInv ==
  /\ IInv
  /\ link \in BOOLEAN /\ seen \subseteq Nat /\ probed \in BOOLEAN
  /\ Whole(s) /\ Gapless(s) /\ Fresh(Cfg, s) /\ Keyed(s)
  /\ Below(s, seen) \/ (link /\ LogoutPending(Cfg, s))
  /\ \A x \in s.queue : Accounted(x, seen)
  /\ ~link => s.state = "Disconnected"
  /\ GracefulLogoutResets

\* No inbound SequenceReset is refused by the dictionary and then survived: with
\* both DisconnectOnError and ResetOnError off, such a message moves next_in
\* without a look at the queue.
ValidResets == \A x \in Setups : \A m \in InboundOf[x] : SafeReset(CfgOf[x], m)

LEMMA InitQueue == Init => QInv /\ Ahead(s)
<1> SUFFICES ASSUME Init PROVE QInv /\ Ahead(s)
  OBVIOUS
<1>1. IInv
  BY InitSound
<1>2. s = new(Cfg)
  BY DEF Init
<1>3. /\ s.acts = <<>> /\ s.queue = {} /\ s.next_in = 1 /\ s.state = "Disconnected"
      /\ s.store = {} /\ s.next_out = 1
  BY <1>2 DEF new
<1>4. s.acts \in Seq(Action) /\ DOMAIN s.acts = {}
  BY <1>3
<1>5. Whole(s) /\ Gapless(s) /\ Fresh(Cfg, s) /\ Below(s, seen)
  BY <1>1, <1>3, <1>4 DEF IInv, Whole, Gapless, Fresh, Below
<1>6. Keyed(s) /\ Ahead(s)
  BY <1>3, EmptyOrder
<1>7. GracefulLogoutResets
  BY <1>3 DEF GracefulLogoutResets
<1>8. QED BY ZenonT(30), <1>1, <1>3, <1>5, <1>6, <1>7 DEF QInv, Init

\* A handler starts with no action to report.
LEMMA IdleGood ==
  ASSUME QInv
  PROVE  /\ Whole(idle) /\ idle.acts = <<>> /\ NoReplay(idle) /\ ~DidReset(idle)
         /\ idle.queue = s.queue /\ idle.next_in = s.next_in /\ idle.state = s.state
         /\ Keyed(idle) /\ (Ahead(s) <=> Ahead(idle))
         /\ s.next_in \in Nat \ {0}
         /\ \A K, R : seen \subseteq K /\ Below(s, K) => Good(Cfg, idle, K, R, s.next_in)
<1>1. Sound(idle) /\ Sound(s)
  BY ZenonT(30), IdleSound DEF QInv, IInv
<1>2. /\ idle.acts = <<>> /\ idle.queue = s.queue /\ idle.next_in = s.next_in
      /\ idle.state = s.state /\ idle.logon_sent = s.logon_sent
      /\ s.next_in \in Nat \ {0}
  BY <1>1 DEF idle, Sound, Typed
<1>3. idle.acts \in Seq(Action) /\ DOMAIN idle.acts = {}
  BY <1>2
<1> HIDE DEF idle
<1>4. /\ Whole(idle) /\ NoReplay(idle) /\ ~DidReset(idle) /\ Gapless(idle)
      /\ Fresh(Cfg, idle)
  BY ZenonT(30), <1>1, <1>2, <1>3 DEF Whole, NoReplay, DidReset, Gapless, Fresh, QInv
<1>5. Keyed(idle) /\ (Ahead(s) <=> Ahead(idle))
  BY <1>2 DEF QInv, Keyed, Ahead
<1>6. ASSUME NEW K, NEW R, seen \subseteq K, Below(s, K)
      PROVE  Good(Cfg, idle, K, R, s.next_in)
  <2>1. \A x \in idle.queue : Accounted(x, K)
    BY ZenonT(30), <1>2, <1>6 DEF QInv, Accounted
  <2>2. idle.next_in >= s.next_in /\ Below(idle, K)
    BY <1>2, <1>6 DEF Below
  <2>3. QED BY <1>4, <2>1, <2>2 DEF Good, Covered
<1>7. QED BY ZenonT(30), <1>2, <1>4, <1>5, <1>6

\* QInv after a call that leaves the connection up.
LEMMA Restored ==
  ASSUME QInv, setup' = setup, link' = TRUE, seen' \subseteq Nat, probed' \in BOOLEAN,
         NEW K, NEW R, NEW low, Good(Cfg, s', K, R, low), Keyed(s'),
         IF DidReset(s') THEN R \subseteq seen'
         ELSE /\ Below(s', K) => Below(s', seen')
              /\ \A x \in s'.queue : Accounted(x, K) => Accounted(x, seen')
  PROVE  QInv'
<1>1. Cfg' = Cfg /\ setup \in Setups
  BY DEF Cfg, QInv, IInv
<1>2. Whole(s') /\ Gapless(s') /\ Fresh(Cfg', s') /\ Sound(s')
  BY <1>1 DEF Good, Whole
<1>3. Below(s', seen') \/ LogoutPending(Cfg', s')
  BY <1>1 DEF Good, Covered, Below
<1>4. \A x \in s'.queue : Accounted(x, seen')
  BY DEF Good, Covered
<1>5. GracefulLogoutResets'
  BY DEF GracefulLogoutResets
<1>6. QED BY ZenonT(30), <1>1, <1>2, <1>3, <1>4, <1>5 DEF QInv, IInv

LEMMA Running1 ==
  ASSUME QInv, Running
  PROVE  Below(s, seen) /\ link
BY DEF QInv, Running, LogoutPending

LEMMA ConnectedQueue ==
  ASSUME QInv, Connected
  PROVE  /\ QInv' /\ Ahead(s')
         /\ DidReset(s') \/ s'.next_in >= s.next_in
<1>1. Cfg \in Config
  BY SetupTyped DEF QInv, IInv
<1>2. Below(s, seen)
  BY ZenonT(30) DEF QInv, Connected
<1>3. /\ Whole(idle) /\ idle.acts = <<>> /\ idle.next_in = s.next_in
      /\ s.next_in \in Nat
  BY IdleGood
<1>4. idle.next_in >= s.next_in /\ Below(idle, seen)
  BY <1>2, <1>3 DEF Below
<1>5. s' = on_connected(Cfg, idle)
  BY DEF Connected
<1>6. Good(Cfg, s', seen, {}, s.next_in) /\ s'.queue = {}
  <2> HIDE DEF idle, Cfg
  <2>1. QED BY <1>1, <1>3, <1>4, <1>5, ConnectedGood
<1>7. /\ setup' = setup /\ link' = TRUE /\ probed' = FALSE
      /\ seen' = IF DidReset(s') THEN {} ELSE seen
  BY DEF Connected
<1>8. seen' \subseteq Nat
  BY ZenonT(30), <1>7 DEF QInv
<1>9. Keyed(s') /\ Ahead(s')
  BY <1>6, EmptyOrder
<1>10. QInv'
  BY ZenonT(30), <1>6, <1>7, <1>8, <1>9, Restored
<1>11. QED BY <1>6, <1>9, <1>10 DEF Good, Covered

LEMMA ReceivedQueue ==
  ASSUME QInv, NEW m \in Inbound, NEW open \in Clock, Received(m, open)
  PROVE  /\ QInv'
         /\ Ahead(s) /\ SafeReset(Cfg, m) => Ahead(s')
         /\ \/ DidReset(s') \/ s'.next_in >= s.next_in
            \/ m.type = "Logon" /\ m.flag
<1> DEFINE from == IF m.flag THEN m.seq ELSE 1
           range == IF m.type = "SequenceReset" THEN from..(m.num - 1) ELSE {}
           K == seen \cup {m.seq} \cup range
           R == IF m.type = "Logon" THEN {m.seq} ELSE {}
           low == s.next_in
           one == {m.seq}
<1>1. Cfg \in Config /\ m \in Message
  BY ZenonT(30), SetupTyped DEF QInv, IInv
<1>2. m.seq \in Nat /\ m.num \in Int /\ m.flag \in BOOLEAN
  BY <1>1 DEF Message, OptNat, Absent, Malformed
<1>3. Below(s, seen) /\ link
  BY Running1 DEF Received
<1>4. Declared(m, K) /\ (m.type = "Logon" => m.seq \in R) /\ seen \subseteq K
  BY DEF Declared
<1>5. from \in Nat /\ range \subseteq Nat
  BY <1>2
<1> HIDE DEF K, R
<1>6. /\ Good(Cfg, idle, K, R, low) /\ NoReplay(idle) /\ ~DidReset(idle)
      /\ Keyed(idle) /\ (Ahead(s) <=> Ahead(idle)) /\ low \in Nat
      /\ idle.queue = s.queue
  <2>1. Below(s, K)
    BY <1>3, <1>4 DEF Below
  <2>2. QED BY ZenonT(30), <1>4, <2>1, IdleGood
<1>7. /\ s' = on_received(Cfg, idle, m, open)
      /\ setup' = setup /\ link' = TRUE /\ probed' = FALSE
      /\ seen' = IF \/ DidReset(s')
                    \/ m.type = "Logon" /\ m.flag /\ s'.state = "LoggedOn"
                 THEN IF m.type = "Logon" THEN {m.seq} ELSE {}
                 ELSE seen \cup Accounts(m, s')
  BY <1>3 DEF Received
<1>8. /\ IF m.type = "Logon" THEN LogonHandled(Cfg, idle, s', m, K, R, low)
                             ELSE Handled(Cfg, idle, s', m, K, R, low)
      /\ Keyed(idle) /\ Ahead(idle) /\ SafeReset(Cfg, m) => Ahead(s')
  <2> HIDE DEF idle, Cfg
  <2>1. QED BY ZenonT(30), <1>1, <1>4, <1>6, <1>7, ReceivedGood
<1>9. Accounts(m, s') \subseteq Nat
  BY ZenonT(30), <1>2, <1>5 DEF Accounts
<1>10. seen' \subseteq Nat
  BY ZenonT(30), <1>2, <1>7, <1>9 DEF QInv
\* What the session does not count, it does not need.
<1>11. ASSUME Handled(Cfg, idle, s', m, K, R, low), ~DidReset(s'),
              seen' = seen \cup Accounts(m, s')
       PROVE  /\ Below(s', K) => Below(s', seen')
              /\ \A x \in s'.queue : Accounted(x, K) => Accounted(x, seen')
  <2>1. s'.next_in \in Nat
    BY ZenonT(30), <1>11, WholeTypes DEF Handled, Good
  <2>2. ASSUME NEW n \in 1..(s'.next_in - 1), n \in K PROVE n \in seen'
    <3>1. CASE n \in seen
      BY <1>11, <3>1
    <3>2. CASE n = m.seq
      BY <1>2, <1>11, <2>1, <3>2 DEF Accounts
    <3>3. CASE n \in range
      <4>1. m.flag => m.seq < s'.next_in
        BY <1>2, <2>1, <3>3
      <4>2. QED BY ZenonT(30), <1>11, <3>3, <4>1 DEF Accounts
    <3>4. QED BY <2>2, <3>1, <3>2, <3>3 DEF K
  <2>3. ASSUME NEW x \in s'.queue PROVE Accounted(x, seen')
    <3>1. CASE x \in s.queue
      BY ZenonT(30), <1>11, <3>1 DEF QInv, Accounted
    <3>2. CASE x = m
      <4>1. m.seq \in seen'
        BY ZenonT(30), <1>11, <2>3, <3>2 DEF Accounts
      <4>2. m.type = "SequenceReset" => from..(m.num - 1) \subseteq seen'
        BY ZenonT(30), <1>11, <2>3, <3>2 DEF Accounts
      <4>3. m.type = "SequenceReset" => m.seq..(m.num - 1) \subseteq seen'
        <5>1. CASE m.flag
          BY <4>2, <5>1
        <5>2. CASE ~m.flag
          <6>1. m.seq..(m.num - 1) \subseteq 1..(m.num - 1) \cup {m.seq}
            BY <1>2
          <6>2. QED BY <4>1, <4>2, <5>2, <6>1
        <5>3. QED BY <1>2, <5>1, <5>2
      <4>4. QED BY <3>2, <4>1, <4>3 DEF Accounted
    <3>3. QED BY ZenonT(30), <1>6, <1>11, <3>1, <3>2 DEF Handled
  <2>4. QED BY <2>2, <2>3 DEF Below
<1>12. CASE m.type # "Logon" \/ ((~m.flag \/ s'.state = "Disconnected")
                                  /\ Handled(Cfg, idle, s', m, K, R, low))
  <2>1. Handled(Cfg, idle, s', m, K, R, low)
    BY <1>8, <1>12
  <2>2. Good(Cfg, s', K, R, low) /\ Keyed(s')
    BY ZenonT(30), <1>6, <2>1 DEF Handled
  <2>3. IF DidReset(s') THEN R \subseteq seen'
        ELSE seen' = seen \cup Accounts(m, s')
    BY <1>7, <1>12 DEF R
  <2>4. IF DidReset(s') THEN R \subseteq seen'
        ELSE /\ Below(s', K) => Below(s', seen')
             /\ \A x \in s'.queue : Accounted(x, K) => Accounted(x, seen')
    BY ZenonT(30), <1>11, <2>1, <2>3
  <2>5. QInv'
    BY ZenonT(30), <1>7, <1>10, <2>2, <2>4, Restored
  <2>6. DidReset(s') \/ s'.next_in >= s.next_in
    BY ZenonT(30), <2>2 DEF Good, Covered
  <2>7. QED BY <1>6, <1>8, <2>5, <2>6
<1>13. CASE m.type = "Logon" /\ m.flag /\ Good(Cfg, s', one, one, 1) /\ s'.queue = {}
  <2>1. Keyed(s') /\ Ahead(s')
    BY <1>13, EmptyOrder
  <2>2. s'.next_in \in Nat
    BY ZenonT(30), <1>13, WholeTypes DEF Good
  <2>3. IF DidReset(s') THEN one \subseteq seen'
        ELSE /\ Below(s', one) => Below(s', seen')
             /\ \A x \in s'.queue : Accounted(x, one) => Accounted(x, seen')
    <3>1. CASE seen' = {m.seq}
      BY ZenonT(30), <1>13, <3>1
    <3>2. CASE ~DidReset(s') /\ seen' = seen \cup Accounts(m, s')
      BY <1>2, <1>13, <2>2, <3>2 DEF Below, Accounts
    <3>3. QED BY ZenonT(30), <1>7, <1>13, <3>1, <3>2
  <2> HIDE DEF one
  <2>4. QInv'
    BY ZenonT(30), <1>7, <1>10, <1>13, <2>1, <2>3, Restored
  <2>5. QED BY ZenonT(30), <1>13, <2>1, <2>4
<1>14. QED BY ZenonT(30), <1>8, <1>12, <1>13 DEF LogonHandled

\* The calls that only send: StartLogout, Garbled and SendApp.
LEMMA SendsQueue ==
  ASSUME QInv, Running, Whole(s'), Sends(idle, s'), UNCHANGED <<setup, link, seen, probed>>
  PROVE  QInv' /\ (Ahead(s) => Ahead(s')) /\ s'.next_in >= s.next_in
<1>1. Below(s, seen) /\ link
  BY Running1
<1>2. /\ Good(Cfg, idle, seen, {}, s.next_in) /\ ~DidReset(idle) /\ Keyed(idle)
      /\ (Ahead(s) <=> Ahead(idle)) /\ Whole(idle)
  BY ZenonT(30), <1>1, IdleGood
<1> HIDE DEF idle
<1>3. Good(Cfg, s', seen, {}, s.next_in) /\ ~DidReset(s')
  BY <1>2, SendsGood, SendsReset
<1>4. Keyed(s') /\ (Ahead(idle) => Ahead(s'))
  BY ZenonT(30), <1>2 DEF Sends, SameBook, Keyed, Ahead
<1>5. QInv'
  BY ZenonT(30), <1>1, <1>3, <1>4, Restored DEF QInv
<1>6. QED BY ZenonT(30), <1>2, <1>3, <1>4, <1>5 DEF Good, Covered

LEMMA QuietQueue ==
  ASSUME QInv, StartLogout \/ Garbled \/ SendApp
  PROVE  QInv' /\ (Ahead(s) => Ahead(s')) /\ s'.next_in >= s.next_in
<1>1. Cfg \in Config /\ Whole(idle)
  BY ZenonT(30), SetupTyped, IdleGood DEF QInv, IInv
<1>2. Whole(s') /\ Sends(idle, s')
  <2> HIDE DEF idle, Cfg
  <2>1. s' \in {on_start_logout(idle), on_garbled(Cfg, idle), send_app(Cfg, idle, 1)}
    BY DEF StartLogout, Garbled, SendApp
  <2>2. QED BY ZenonT(30), <1>1, <2>1, StartLogoutSends, RejectSends, SendAppSends
<1>3. Running /\ UNCHANGED <<setup, link, seen, probed>>
  BY DEF StartLogout, Garbled, SendApp
<1>4. QED BY <1>2, <1>3, SendsQueue

LEMMA TickQueue ==
  ASSUME QInv, NEW open \in Clock, Tick(open)
  PROVE  /\ QInv' /\ (Ahead(s) => Ahead(s'))
         /\ DidReset(s') \/ s'.next_in >= s.next_in
<1>1. Cfg \in Config /\ Below(s, seen) /\ link
  BY ZenonT(30), SetupTyped, Running1 DEF QInv, IInv, Tick
<1>2. /\ Good(Cfg, idle, seen, {}, s.next_in) /\ ~DidReset(idle) /\ Keyed(idle)
      /\ (Ahead(s) <=> Ahead(idle))
  BY ZenonT(30), <1>1, IdleGood
<1>3. /\ s' = on_tick(Cfg, idle, open) /\ setup' = setup /\ link' = TRUE
      /\ seen' = IF DidReset(s') THEN {} ELSE seen
      /\ probed' \in BOOLEAN
  BY <1>1 DEF Tick
<1>4. Good(Cfg, s', seen, {}, s.next_in) /\ Keyed(s') /\ (Ahead(idle) => Ahead(s'))
  <2> HIDE DEF idle, Cfg
  <2>1. QED BY ZenonT(30), <1>1, <1>2, <1>3, TickGood
<1>5. QInv'
  BY ZenonT(30), <1>3, <1>4, Restored DEF QInv
<1>6. QED BY ZenonT(30), <1>2, <1>4, <1>5 DEF Good, Covered

\* Monitor::reset forgets the numbers and the queue, and reports nothing.
LEMMA ResetQueue ==
  ASSUME QInv, Reset
  PROVE  QInv' /\ Ahead(s')
<1>1. Whole(idle) /\ idle.acts = <<>>
  BY ZenonT(30), IdleGood
<1>2. link /\ s' = reset(idle) /\ seen' = {}
      /\ UNCHANGED <<setup, link, probed>>
  BY DEF Reset, Running
<1> HIDE DEF idle
<1>3. Sound(s')
  BY <1>1, <1>2, ResetSound DEF Whole
<1>4. s'.acts = <<>> /\ s'.next_in = 1 /\ s'.queue = {} /\ ~s'.logon_sent
  BY <1>1, <1>2 DEF reset, reset_sequences, Whole, Sound, Typed
<1>5. s'.acts \in Seq(Action) /\ DOMAIN s'.acts = {}
  BY <1>4
<1>6. Keyed(s') /\ Ahead(s')
  BY <1>4, EmptyOrder
<1>7. /\ Whole(s') /\ Gapless(s') /\ Fresh(Cfg', s') /\ Below(s', {})
      /\ GracefulLogoutResets'
  BY <1>2, <1>3, <1>4, <1>5
     DEF Whole, Gapless, Fresh, Below, GracefulLogoutResets
<1>8. IInv'
  BY <1>2, <1>3 DEF QInv, IInv
<1>9. QED BY ZenonT(30), <1>2, <1>4, <1>6, <1>7, <1>8 DEF QInv

\* Event::Disconnected.  After a completed Logout exchange the session may hold
\* numbers that the counted Logout moved; the second reset takes them away.
LEMMA DisconnectedQueue ==
  ASSUME QInv, Disconnected
  PROVE  /\ QInv' /\ Ahead(s')
         /\ DidReset(s') \/ s'.next_in >= s.next_in
<1> DEFINE reason == IF s.last_disconnect_reason = "none" THEN "other"
                     ELSE s.last_disconnect_reason
           K == IF Below(s, seen) THEN seen ELSE Nat
           resets == IF reason = "graceful" THEN Cfg.reset_on_logout
                                            ELSE Cfg.reset_on_disconnect
<1>1. Cfg \in Config /\ Cfg' = Cfg
  BY ZenonT(30), SetupTyped DEF QInv, IInv, Disconnected, Cfg
<1>2. reason \in {"graceful", "other"}
  BY DEF QInv, IInv, Sound, Typed
<1>3. s' = enter_disconnected(Cfg, idle, reason) /\ setup' = setup /\ link' = FALSE
      /\ seen' = (IF DidReset(s') THEN {} ELSE seen) /\ probed' = probed
  BY DEF Disconnected
<1>4. seen \subseteq K /\ Below(s, K)
  <2>1. seen \subseteq Nat /\ s.next_in \in Nat
    BY ZenonT(30), IdleGood DEF QInv
  <2>2. Below(s, Nat)
    BY <2>1 DEF Below
  <2>3. QED BY <2>1, <2>2
<1>5. ~Below(s, seen) => resets
  BY DEF QInv, LogoutPending
<1> HIDE DEF reason, K
<1>6. /\ Good(Cfg, idle, K, {}, s.next_in) /\ ~DidReset(idle) /\ Keyed(idle)
      /\ idle.queue = s.queue /\ idle.next_in = s.next_in /\ s.next_in \in Nat
  BY ZenonT(30), <1>4, IdleGood
<1>7. /\ Good(Cfg, s', K, {}, s.next_in)
      /\ s'.state = "Disconnected" /\ s'.last_disconnect_reason = reason
      /\ IF resets
         THEN DidReset(s') /\ s'.next_in = 1 /\ s'.next_out = 1
              /\ s'.store = {} /\ s'.queue = {}
         ELSE ~DidReset(s') /\ s'.queue = idle.queue /\ s'.next_in = idle.next_in
  <2> DEFINE u == enter_disconnected(Cfg, idle, reason)
             none == {}
  <2> HIDE DEF idle, Cfg, none
  <2>1. Good(Cfg, idle, K, none, s.next_in)
    BY <1>6 DEF none
  <2>2. /\ Good(Cfg, u, K, none, s.next_in)
        /\ u.state = "Disconnected" /\ u.last_disconnect_reason = reason
        /\ IF (IF reason = "graceful" THEN Cfg.reset_on_logout
                                      ELSE Cfg.reset_on_disconnect)
           THEN DidReset(u) /\ u.next_in = 1 /\ u.next_out = 1
                /\ u.store = {} /\ u.queue = {}
           ELSE ~DidReset(u) /\ u.queue = idle.queue /\ u.next_in = idle.next_in
    BY ZenonT(30), <1>1, <1>2, <1>6, <2>1, EnterDisconnectedGood
  <2> HIDE DEF u
  <2>3. s' = u
    BY <1>3 DEF u
  <2>4. QED BY <2>2, <2>3 DEF none
<1>8. Below(s', seen') /\ \A x \in s'.queue : Accounted(x, seen')
  <2>1. CASE resets
    BY <1>3, <1>7, <2>1 DEF Below
  <2>2. CASE ~resets
    <3>1. Below(s, seen) /\ seen' = seen
      BY ZenonT(30), <1>3, <1>5, <1>7, <2>2
    <3>2. QED BY ZenonT(30), <1>6, <1>7, <2>2, <3>1 DEF QInv, Below
  <2>3. QED BY <2>1, <2>2
<1>9. Keyed(s')
  BY ZenonT(30), <1>6, <1>7 DEF Keyed
<1>10. GracefulLogoutResets'
  BY ZenonT(30), <1>1, <1>7 DEF GracefulLogoutResets
<1>11. Whole(s') /\ Gapless(s') /\ Fresh(Cfg', s') /\ Sound(s')
  BY ZenonT(30), <1>1, <1>7 DEF Good, Whole
<1>12. seen' \subseteq Nat /\ IInv' /\ probed' \in BOOLEAN
  BY ZenonT(30), <1>3, <1>11 DEF QInv, IInv
<1>13. QInv'
  BY ZenonT(30), <1>3, <1>7, <1>8, <1>9, <1>10, <1>11, <1>12 DEF QInv
<1>14. Ahead(s')
  BY <1>7 DEF Ahead
<1>15. QED BY <1>6, <1>7, <1>13, <1>14

LEMMA NextQueue == QInv /\ [Next]_vars => QInv'
<1> SUFFICES ASSUME QInv, [Next]_vars PROVE QInv'
  OBVIOUS
<1>1. CASE UNCHANGED vars
  BY ZenonT(30), <1>1 DEF QInv, IInv, vars, Cfg, GracefulLogoutResets
<1>2. CASE Connected
  BY <1>2, ConnectedQueue
<1>3. ASSUME NEW m \in Inbound, NEW open \in Clock, Received(m, open) PROVE QInv'
  BY <1>3, ReceivedQueue
<1>4. ASSUME NEW open \in Clock, Tick(open) PROVE QInv'
  BY <1>4, TickQueue
<1>5. CASE StartLogout \/ Garbled \/ SendApp
  BY <1>5, QuietQueue
<1>6. CASE Reset
  BY <1>6, ResetQueue
<1>7. CASE Disconnected
  BY <1>7, DisconnectedQueue
<1>8. QED BY <1>1, <1>2, <1>3, <1>4, <1>5, <1>6, <1>7 DEF Next

LEMMA NextAhead ==
  ASSUME ValidResets, QInv, Ahead(s), [Next]_vars
  PROVE  Ahead(s')
<1>1. CASE UNCHANGED vars
  BY <1>1 DEF vars, Ahead
<1>2. CASE Connected
  BY <1>2, ConnectedQueue
<1>3. ASSUME NEW m \in Inbound, NEW open \in Clock, Received(m, open) PROVE Ahead(s')
  <2>1. SafeReset(Cfg, m)
    BY DEF ValidResets, QInv, IInv, Cfg, Inbound
  <2>2. QED BY <1>3, <2>1, ReceivedQueue
<1>4. ASSUME NEW open \in Clock, Tick(open) PROVE Ahead(s')
  BY <1>4, TickQueue
<1>5. CASE StartLogout \/ Garbled \/ SendApp
  BY <1>5, QuietQueue
<1>6. CASE Reset
  BY <1>6, ResetQueue
<1>7. CASE Disconnected
  BY <1>7, DisconnectedQueue
<1>8. QED BY <1>1, <1>2, <1>3, <1>4, <1>5, <1>6, <1>7 DEF Next

LEMMA NextForward ==
  ASSUME QInv, Next, s'.next_in < s.next_in
  PROVE  \/ DidReset(s')
         \/ Reset
         \/ \E m \in Inbound, open \in Clock :
              m.type = "Logon" /\ m.flag /\ Received(m, open)
<1> DEFINE Forward == s'.next_in >= s.next_in
<1>1. ~Forward
  <2>1. QInv' /\ s.next_in \in Nat
    BY ZenonT(30), NextQueue, IdleGood
  <2>2. Whole(s')
    BY <2>1 DEF QInv
  <2>3. s'.next_in \in Nat
    BY <2>2, WholeTypes
  <2>4. QED BY <2>1, <2>3
<1> HIDE DEF Forward
<1>2. CASE Connected
  BY <1>1, <1>2, ConnectedQueue DEF Forward
<1>3. ASSUME NEW m \in Inbound, NEW open \in Clock, Received(m, open)
      PROVE  DidReset(s') \/ (m.type = "Logon" /\ m.flag)
  BY <1>1, <1>3, ReceivedQueue DEF Forward
<1>4. ASSUME NEW open \in Clock, Tick(open) PROVE DidReset(s')
  BY <1>1, <1>4, TickQueue DEF Forward
<1>5. CASE StartLogout \/ Garbled \/ SendApp
  BY <1>1, <1>5, QuietQueue DEF Forward
<1>6. CASE Disconnected
  BY <1>1, <1>6, DisconnectedQueue DEF Forward
<1>7. QED BY <1>2, <1>3, <1>4, <1>5, <1>6 DEF Next

\* Every number that is expected no more, or queued, is accounted for, the replay
\* has no hole, and a torn-down engine waits for the reset its configuration
\* promises: every event of the engine keeps this (Session::handle, reset).
THEOREM QueueInductive == Spec => []QInv
<1>1. Init => QInv
  BY InitQueue
<1>2. QED BY <1>1, NextQueue, PTL DEF Spec

-----------------------------------------------------------------------------
\* A live session has accounted for every inbound number below the next expected
\* one: it received it or a SequenceReset declared it skipped, since the last
\* reset, whatever comes in, ticks or ends (on_received, drain_queue,
\* on_sequence_reset, accept_logon).
THEOREM SkipsNothing == Spec => []NoSilentSkip
<1>1. QInv => NoSilentSkip
  BY DEF QInv, NoSilentSkip, Below, LogoutPending
<1>2. QED BY <1>1, QueueInductive, PTL

\* The answer to every ResendRequest is a chain of resent messages and gap fills
\* without hole or overlap that hides no application message (build_resend).
THEOREM ReplaysGapless == Spec => []ReplayIsGapless
<1>1. QInv => ReplayIsGapless
  BY ZenonT(30) DEF QInv, ReplayIsGapless, Gapless
<1>2. QED BY <1>1, QueueInductive, PTL

\* Between two calls the queue of a live session is strictly ahead of the next
\* expected number (enqueue, drain_queue), provided that no SequenceReset that the
\* dictionary refuses is survived: such a one moves next_in past the queue.
THEOREM QueueStaysAhead == ASSUME ValidResets PROVE Spec => []QueueAhead
<1> DEFINE AInv == QInv /\ Ahead(s)
<1>1. Init => AInv
  BY InitQueue
<1>2. AInv /\ [Next]_vars => AInv'
  <2>1. ASSUME QInv, Ahead(s), [Next]_vars PROVE QInv' /\ Ahead(s')
    BY <2>1, NextQueue, NextAhead
  <2>2. Ahead(s)' <=> Ahead(s')
    BY DEF Ahead
  <2>3. QED BY <2>1, <2>2
<1>3. AInv => QueueAhead
  BY DEF Ahead, QueueAhead
<1>4. QED BY <1>1, <1>2, <1>3, PTL DEF Spec

\* The next expected number is taken back only by a reset or a Logon with
\* ResetSeqNumFlag, and a completed Logout exchange under ResetOnLogout leaves a
\* fresh session (on_received, enter_disconnected).
THEOREM NumbersMoveForward == Spec => NumbersMove
<1> DEFINE Forward == s'.next_in < s.next_in =>
                        \/ DidReset(s')
                        \/ Reset
                        \/ \E m \in Inbound, open \in Clock :
                             m.type = "Logon" /\ m.flag /\ Received(m, open)
<1>1. QInv => TypeOK /\ GracefulLogoutResets
  <2>1. ASSUME QInv PROVE s \in Session
    <3>1. Typed(s) /\ s.acts \in Seq(Action)
      BY ZenonT(30), <2>1 DEF QInv, Whole, Sound
    <3>2. QED BY <3>1 DEF Typed, Session
  <2>2. QED BY ZenonT(30), <2>1 DEF QInv, IInv, TypeOK
<1>2. QInv /\ [Next]_vars => [Forward]_vars
  BY NextForward
<1>3. QED BY <1>1, <1>2, QueueInductive, PTL DEF Spec, NumbersMove, NextInForward
=============================================================================
