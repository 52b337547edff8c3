-------------------------- MODULE SessionStepProofs -------------------------
(***************************************************************************)
(* What a session takes in and what it sends again, for every              *)
(* configuration, every inbound message and every state of the engine: the *)
(* steps that its handlers are made of.                                    *)
(*                                                                         *)
(* Good(c, t, K, R, low) is what a handler keeps of the engine t while it  *)
(* runs: the engine is well-formed, its replay has no hole, next_in has    *)
(* not gone below low, and every number below next_in and in the queue is  *)
(* in K - or, once the handler has reset, in R.                            *)
(***************************************************************************)
EXTENDS SessionCoreProofs

\* The time a leaf may take, in seconds; most take a fraction of one.
USE SMTT(30), ZenonT(30)

\* The end of a completed Logout exchange: Event::Disconnected will reset again.
LogoutPending(c, t) ==
  /\ t.state = "Disconnected"
  /\ t.last_disconnect_reason = "graceful"
  /\ c.reset_on_logout

Accounted(x, K) ==
  x.seq \in K /\ (x.type = "SequenceReset" => x.seq..(x.num - 1) \subseteq K)
Below(t, K) == \A n \in 1..(t.next_in - 1) : n \in K

Covered(c, t, K, R, low) ==
  IF DidReset(t)
  THEN t.queue = {} /\ (Below(t, R) \/ LogoutPending(c, t))
  ELSE /\ t.next_in >= low
       /\ Below(t, K)
       /\ \A x \in t.queue : Accounted(x, K)

Fresh(c, t) == c.role = "Acceptor" /\ t.state = "AwaitingLogon" => ~t.logon_sent

Good(c, t, K, R, low) ==
  Whole(t) /\ Covered(c, t, K, R, low) /\ Gapless(t) /\ Fresh(c, t)

Keyed(t) == \A x, y \in t.queue : x.seq = y.seq => x = y
NotPast(t) == t.state # "Disconnected" => \A x \in t.queue : x.seq >= t.next_in
Ahead(t) == t.state # "Disconnected" => \A x \in t.queue : x.seq > t.next_in

LEMMA SendsGood ==
  ASSUME NEW c, NEW t, NEW u, NEW K, NEW R, NEW low,
         Good(c, t, K, R, low), Whole(u), Sends(t, u)
  PROVE  Good(c, u, K, R, low)
<1>1. DidReset(u) <=> DidReset(t)
  BY SendsReset DEF Good
<1>2. Gapless(u)
  BY SendsGapless DEF Good
<1>3. u.queue = t.queue /\ u.next_in = t.next_in
  BY DEF Sends, SameBook
<1>4. LogoutPending(c, t) => LogoutPending(c, u)
  BY DEF Sends, SameBook, LogoutPending
<1>5. Covered(c, u, K, R, low)
  BY <1>1, <1>3, <1>4 DEF Good, Covered, Below
<1>6. Fresh(c, u)
  BY DEF Good, Fresh, Sends, SameBook
<1>7. QED BY <1>2, <1>5, <1>6 DEF Good

LEMMA SendsOrder ==
  ASSUME NEW t, NEW u, Sends(t, u)
  PROVE  /\ Keyed(t) => Keyed(u)
         /\ NotPast(t) => NotPast(u)
         /\ Ahead(t) => Ahead(u)
BY DEF Sends, SameBook, Keyed, NotPast, Ahead

-----------------------------------------------------------------------------
(***************************************************************************)
(* Resets and teardown.                                                    *)
(***************************************************************************)
NoReplay(t) == \A i \in DOMAIN t.acts : ~Replayed(t.acts[i])

\* What every call but a resend keeps.
Keeps(t, u) ==
  /\ NoReplay(t) => NoReplay(u)
  /\ Keyed(t) => Keyed(u)
  /\ t.state = "Disconnected" => u.state = "Disconnected"

LEMMA SendsKeeps ==
  ASSUME NEW t, NEW u, Whole(t), Whole(u), Sends(t, u)
  PROVE  Keeps(t, u)
<1>1. /\ Len(t.acts) \in Nat /\ DOMAIN t.acts = 1..Len(t.acts)
      /\ Len(u.acts) \in Nat /\ DOMAIN u.acts = 1..Len(u.acts)
  BY WholeTypes
<1>2. ASSUME NoReplay(t) PROVE NoReplay(u)
  BY <1>1, <1>2 DEF NoReplay, Sends, Quiet
<1>3. QED BY <1>2, SendsOrder DEF Keeps, Sends, SameBook

LEMMA ResetGood ==
  ASSUME NEW c \in Config, NEW t, Whole(t), NEW K, NEW R, NEW low
  PROVE  LET u == ResetStore(reset(t))
         IN  /\ Good(c, u, K, R, low) /\ DidReset(u)
             /\ u.queue = {} /\ u.next_in = 1
             /\ u.state = t.state
             /\ u.last_disconnect_reason = t.last_disconnect_reason
             /\ NoReplay(t) => NoReplay(u)
<1> DEFINE r == reset(t)
           a == [op |-> "reset_store", msg |-> base("Logon")]
           u == ResetStore(r)
<1>1. Sound(r) /\ Sound(u)
  BY ResetSound, EmitSound DEF Whole, ResetStore
<1>2. /\ r.acts = t.acts /\ r.queue = {} /\ r.next_in = 1 /\ r.state = t.state
      /\ r.last_disconnect_reason = t.last_disconnect_reason /\ ~r.logon_sent
  BY DEF reset, reset_sequences, Whole, Sound, Typed
<1> HIDE DEF r
<1>3. /\ u.acts = Append(t.acts, a) /\ u.queue = {} /\ u.next_in = 1 /\ u.state = t.state
      /\ u.last_disconnect_reason = t.last_disconnect_reason /\ ~u.logon_sent
  BY ZenonT(30), <1>1, <1>2 DEF ResetStore, Emit, Sound, Typed
<1> HIDE DEF u
<1>4. base("Logon") \in Message
  BY AdminTyped
<1>5. a \in Action /\ a.op = "reset_store"
  BY <1>4 DEF Action
<1> HIDE DEF a
<1>6. /\ t.acts \in Seq(Action) /\ Len(t.acts) \in Nat
      /\ DOMAIN t.acts = 1..Len(t.acts)
  BY WholeTypes DEF Whole
<1>7. /\ u.acts \in Seq(Action) /\ Len(u.acts) = Len(t.acts) + 1
      /\ DOMAIN u.acts = 1..(Len(t.acts) + 1)
      /\ u.acts[Len(t.acts) + 1] = a
      /\ \A i \in 1..Len(t.acts) : u.acts[i] = t.acts[i]
  BY <1>3, <1>5, <1>6
<1>8. DidReset(u)
  BY <1>5, <1>6, <1>7 DEF DidReset
<1>9. Good(c, u, K, R, low)
  BY <1>1, <1>3, <1>7, <1>8 DEF Good, Whole, Covered, Below, Gapless, Fresh
<1>10. ASSUME NoReplay(t) PROVE NoReplay(u)
  BY <1>5, <1>6, <1>7, <1>10 DEF NoReplay, Replayed
<1>11. QED BY <1>3, <1>8, <1>9, <1>10 DEF u, r

\* An empty queue is in order.
LEMMA EmptyOrder ==
  ASSUME NEW t, t.queue = {}
  PROVE  Keyed(t) /\ NotPast(t) /\ Ahead(t)
BY DEF Keyed, NotPast, Ahead

LEMMA ResetOnErrorGood ==
  ASSUME NEW c \in Config, NEW t, NEW K, NEW R, NEW low, Good(c, t, K, R, low)
  PROVE  LET u == reset_on_error(c, t)
         IN  /\ Good(c, u, K, R, low) /\ Keeps(t, u)
             /\ u.state = t.state
             /\ u.queue = {} \/ u = t
             /\ DidReset(u) => u.queue = {} /\ (u.next_in = 1 \/ u = t)
<1> DEFINE u == ResetStore(reset(t))
<1>1. Whole(t)
  BY DEF Good
<1>2. /\ Good(c, u, K, R, low) /\ u.queue = {} /\ u.next_in = 1 /\ u.state = t.state
      /\ NoReplay(t) => NoReplay(u)
  BY <1>1, ResetGood
<1>3. Keyed(u)
  BY <1>2, EmptyOrder
<1> HIDE DEF u
<1>4. CASE c.reset_on_error
  BY <1>2, <1>3, <1>4 DEF reset_on_error, Keeps, u
<1>5. CASE ~c.reset_on_error
  BY <1>5 DEF reset_on_error, Keeps, Good, Covered
<1>6. QED BY <1>4, <1>5

LEMMA KeepsTrans ==
  ASSUME NEW t, NEW u, NEW v, Keeps(t, u), Keeps(u, v)
  PROVE  Keeps(t, v)
BY DEF Keeps

LEMMA LogoutOnErrorGood ==
  ASSUME NEW c \in Config, NEW t, NEW K, NEW R, NEW low, Good(c, t, K, R, low)
  PROVE  LET u == logout_on_error(c, t)
         IN  Good(c, u, K, R, low) /\ Keeps(t, u) /\ u.state = "Disconnected"
<1> DEFINE lo == send_logout(t)
           gone == [lo EXCEPT !.state = "Disconnected"]
           r == reset_on_error(c, gone)
<1>1. Whole(t)
  BY DEF Good
<1>2. Whole(lo) /\ Sends(t, lo)
  BY <1>1, SendLogoutSends
<1> HIDE DEF lo
<1>3. Whole(gone) /\ Sends(lo, gone) /\ gone.state = "Disconnected"
  BY <1>2, GoneSends
<1> HIDE DEF gone
<1>4. Sends(t, gone)
  BY <1>1, <1>2, <1>3, ThenSends
<1>5. Good(c, gone, K, R, low) /\ Keeps(t, gone)
  BY <1>1, <1>3, <1>4, SendsGood, SendsKeeps
<1>6. Good(c, r, K, R, low) /\ Keeps(gone, r) /\ r.state = "Disconnected"
  BY <1>3, <1>5, ResetOnErrorGood
<1> HIDE DEF r
<1>7. Whole(r)
  BY <1>6 DEF Good
<1>8. /\ Whole(Disconnect(r)) /\ Sends(r, Disconnect(r))
      /\ Disconnect(r).state = "Disconnected"
  BY <1>6, <1>7, DisconnectSends
<1>9. Good(c, Disconnect(r), K, R, low) /\ Keeps(r, Disconnect(r))
  BY <1>6, <1>7, <1>8, SendsGood, SendsKeeps
<1>10. Keeps(t, Disconnect(r))
  BY <1>5, <1>6, <1>9, KeepsTrans
<1>11. QED BY <1>8, <1>9, <1>10 DEF logout_on_error, r, gone, lo

LEMMA EnterDisconnectedGood ==
  ASSUME NEW c \in Config, NEW t, NEW K, NEW R, NEW low, Good(c, t, K, R, low),
         ~DidReset(t), NEW reason \in {"graceful", "other"}
  PROVE  LET u == enter_disconnected(c, t, reason)
         IN  /\ Good(c, u, K, R, low) /\ Keeps(t, u)
             /\ u.state = "Disconnected" /\ u.last_disconnect_reason = reason
             /\ IF (IF reason = "graceful" THEN c.reset_on_logout
                                           ELSE c.reset_on_disconnect)
                THEN DidReset(u) /\ u.next_in = 1 /\ u.next_out = 1
                     /\ u.store = {} /\ u.queue = {}
                ELSE ~DidReset(u) /\ u.queue = t.queue /\ u.next_in = t.next_in
<1> DEFINE gone == [t EXCEPT !.state = "Disconnected",
                             !.last_disconnect_reason = reason]
           u == ResetStore(reset(gone))
<1>1. Whole(t)
  BY DEF Good
<1>2. Sound(gone)
  BY ZenonT(30), <1>1, StateSound DEF Whole, States
<1>3. /\ gone.acts = t.acts /\ gone.next_out = t.next_out /\ gone.store = t.store
      /\ gone.queue = t.queue /\ gone.next_in = t.next_in
      /\ gone.state = "Disconnected" /\ gone.last_disconnect_reason = reason
  BY <1>1 DEF Whole, Sound, Typed
<1> HIDE DEF gone
<1>4. Whole(gone)
  BY <1>1, <1>2, <1>3 DEF Whole
<1>5. ~DidReset(gone)
  BY <1>3 DEF DidReset
<1>6. Good(c, gone, K, R, low)
  BY <1>3, <1>4, <1>5 DEF Good, Covered, Below, Gapless, Fresh
<1>7. Keeps(t, gone)
  BY <1>3 DEF Keeps, NoReplay, Keyed
<1>8. /\ Good(c, u, K, R, low) /\ DidReset(u) /\ u.queue = {} /\ u.next_in = 1
      /\ u.state = "Disconnected" /\ u.last_disconnect_reason = reason
      /\ NoReplay(gone) => NoReplay(u)
  BY <1>3, <1>4, ResetGood
<1>9. u.store = {} /\ u.next_out = 1
  <2> DEFINE r == reset(gone)
  <2>1. Sound(r)
    BY <1>2, ResetSound
  <2>2. r.store = {} /\ r.next_out = 1
    BY <1>2 DEF reset, reset_sequences, Sound, Typed
  <2> HIDE DEF r
  <2>3. ResetStore(r).store = {} /\ ResetStore(r).next_out = 1
    BY <2>1, <2>2 DEF ResetStore, Emit, Sound, Typed
  <2>4. QED BY <2>3 DEF r
<1>10. Keyed(u)
  BY <1>8, EmptyOrder
<1> HIDE DEF u
<1>11. Keeps(t, u)
  BY <1>7, <1>8, <1>10 DEF Keeps
<1>12. QED BY <1>3, <1>5, <1>6, <1>7, <1>8, <1>9, <1>11 DEF enter_disconnected, gone, u

LEMMA LogoutMsgGood ==
  ASSUME NEW c \in Config, NEW t, NEW K, NEW R, NEW low, Good(c, t, K, R, low),
         ~DidReset(t)
  PROVE  LET u == on_logout_msg(c, t)
         IN  /\ Good(c, u, K, R, low) /\ Keeps(t, u)
             /\ u.state = "Disconnected"
             /\ DidReset(u) => LogoutPending(c, u) /\ u.queue = {}
             /\ ~DidReset(u) => u.queue = t.queue /\ u.next_in = t.next_in
<1> DEFINE lo == IF t.state = "AwaitingLogout" THEN t ELSE send_logout(t)
           e == enter_disconnected(c, lo, "graceful")
           u == Disconnect(e)
<1>1. Whole(t)
  BY DEF Good
<1>2. Whole(lo) /\ Sends(t, lo)
  BY <1>1, SendLogoutSends, StaysSends
<1> HIDE DEF lo
<1>3. Good(c, lo, K, R, low) /\ Keeps(t, lo) /\ ~DidReset(lo)
  BY <1>1, <1>2, SendsGood, SendsKeeps, SendsReset
<1>4. lo.queue = t.queue /\ lo.next_in = t.next_in
  BY <1>2 DEF Sends, SameBook
<1>5. /\ Good(c, e, K, R, low) /\ Keeps(lo, e) /\ e.state = "Disconnected"
      /\ e.last_disconnect_reason = "graceful"
      /\ DidReset(e) => c.reset_on_logout /\ e.queue = {}
      /\ ~DidReset(e) => e.queue = lo.queue /\ e.next_in = lo.next_in
  BY <1>3, EnterDisconnectedGood
<1> HIDE DEF e
<1>6. Whole(e)
  BY <1>5 DEF Good
<1>7. Whole(u) /\ Sends(e, u) /\ u.state = "Disconnected"
  BY <1>5, <1>6, DisconnectSends
<1> HIDE DEF u
<1>8. Good(c, u, K, R, low) /\ Keeps(e, u) /\ (DidReset(u) <=> DidReset(e))
  BY <1>5, <1>6, <1>7, SendsGood, SendsKeeps, SendsReset
<1>9. u.queue = e.queue /\ u.next_in = e.next_in /\ u.last_disconnect_reason = "graceful"
  BY <1>5, <1>7 DEF Sends, SameBook
<1>10. Keeps(t, u)
  BY <1>3, <1>5, <1>8, KeepsTrans
<1>11. QED BY ZenonT(30), <1>4, <1>5, <1>7, <1>8, <1>9, <1>10
           DEF on_logout_msg, LogoutPending, u, e, lo

-----------------------------------------------------------------------------
(***************************************************************************)
(* Counting and draining.                                                  *)
(***************************************************************************)

\* A change of next_in and of the queue alone.
LEMMA MovesGood ==
  ASSUME NEW c, NEW t, NEW K, NEW R, NEW low, Good(c, t, K, R, low),
         NEW u, Sound(u), u.acts = t.acts, u.next_out = t.next_out, u.store = t.store,
         u.state = t.state, u.logon_sent = t.logon_sent,
         u.last_disconnect_reason = t.last_disconnect_reason,
         Covered(c, u, K, R, low)
  PROVE  Good(c, u, K, R, low)
<1>1. Whole(u)
  BY DEF Good, Whole
<1>2. DidReset(u) <=> DidReset(t)
  BY DEF DidReset
<1>3. Gapless(u)
  BY <1>2 DEF Good, Gapless
<1>4. QED BY <1>1, <1>3 DEF Good, Fresh

LEMMA CountedGood ==
  ASSUME NEW c, NEW t, NEW K, NEW R, NEW low \in Nat, Good(c, t, K, R, low),
         DidReset(t) => LogoutPending(c, t), ~DidReset(t) => t.next_in \in K
  PROVE  LET u == [t EXCEPT !.next_in = @ + 1]
         IN  /\ Good(c, u, K, R, low) /\ Keeps(t, u)
             /\ u.next_in = t.next_in + 1 /\ u.queue = t.queue /\ u.state = t.state
             /\ DidReset(u) <=> DidReset(t)
<1> DEFINE u == [t EXCEPT !.next_in = @ + 1]
<1>1. Whole(t) /\ t.next_in \in Nat
  BY WholeTypes DEF Good
<1>2. Sound(u)
  BY <1>1, CountedSound DEF Whole
<1>3. /\ u.acts = t.acts /\ u.next_out = t.next_out /\ u.store = t.store
      /\ u.state = t.state /\ u.logon_sent = t.logon_sent
      /\ u.last_disconnect_reason = t.last_disconnect_reason
      /\ u.next_in = t.next_in + 1 /\ u.queue = t.queue
  BY <1>1 DEF Whole, Sound, Typed
<1> HIDE DEF u
<1>4. DidReset(u) <=> DidReset(t)
  BY <1>3 DEF DidReset
<1>5. Covered(c, u, K, R, low)
  BY <1>1, <1>3, <1>4 DEF Good, Covered, Below, LogoutPending
<1>6. Good(c, u, K, R, low)
  BY <1>2, <1>3, <1>5, MovesGood
<1>7. Keeps(t, u)
  BY <1>3 DEF Keeps, NoReplay, Keyed
<1>8. QED BY <1>3, <1>4, <1>6, <1>7 DEF u

LEMMA GapFillGood ==
  ASSUME NEW c, NEW t, NEW K, NEW R, NEW low \in Nat, Good(c, t, K, R, low),
         ~DidReset(t), NEW n \in OptNat, t.next_in..(n - 1) \subseteq K
  PROVE  LET u == apply_gap_fill_new_seq(t, n)
         IN  /\ Good(c, u, K, R, low) /\ Keeps(t, u)
             /\ ~DidReset(u) /\ u.queue \subseteq t.queue
             /\ NotPast(t) => NotPast(u)
<1> DEFINE rest == {m \in t.queue : m.seq >= n}
           u == [t EXCEPT !.next_in = n, !.queue = rest]
<1>1. Whole(t) /\ t.next_in \in Nat
  BY WholeTypes DEF Good
<1>2. CASE n >= t.next_in
  <2>1. u = apply_gap_fill_new_seq(t, n) /\ n \in Nat
    BY <1>1, <1>2 DEF apply_gap_fill_new_seq, OptNat, Absent, Malformed
  <2>2. Sound(u)
    BY <1>1, <2>1, GapFillSound DEF Whole
  <2>3. /\ u.acts = t.acts /\ u.next_out = t.next_out /\ u.store = t.store
        /\ u.state = t.state /\ u.logon_sent = t.logon_sent
        /\ u.last_disconnect_reason = t.last_disconnect_reason
        /\ u.next_in = n /\ u.queue = rest
    BY <1>1 DEF Whole, Sound, Typed
  <2> HIDE DEF u
  <2>4. ~DidReset(u)
    BY <2>3 DEF DidReset
  <2>5. Covered(c, u, K, R, low)
    BY <1>1, <1>2, <2>1, <2>3, <2>4 DEF Good, Covered, Below
  <2>6. Good(c, u, K, R, low)
    BY <2>2, <2>3, <2>5, MovesGood
  <2>7. Keeps(t, u) /\ NotPast(u)
    BY <2>3 DEF Keeps, NoReplay, Keyed, NotPast
  <2>8. QED BY <2>1, <2>3, <2>4, <2>6, <2>7
<1>3. CASE ~(n >= t.next_in)
  BY <1>3 DEF apply_gap_fill_new_seq, Keeps
<1>4. QED BY <1>2, <1>3

LEMMA RefuseGood ==
  ASSUME NEW c \in Config, NEW t, NEW K, NEW R, NEW low \in Nat, Good(c, t, K, R, low),
         ~DidReset(t), NEW m, m.seq = t.next_in => m.seq \in K
  PROVE  LET u == RefuseInvalid(c, t, m)
         IN  /\ Good(c, u, K, R, low) /\ Keeps(t, u)
             /\ u.queue = {} \/ u.queue = t.queue
             /\ DidReset(u) => u.next_in = 1
             /\ c.disconnect_on_error => u.state = "Disconnected"
             /\ c.reset_on_error => u.queue = {}
             /\ Ahead(t) => NotPast(u)
             /\ (Ahead(t) /\ m.seq # t.next_in) => Ahead(u)
<1> DEFINE refused == validate_app(c, t, m)
           counted == [refused EXCEPT !.next_in = IF m.seq = @ THEN @ + 1 ELSE @]
           after == reset_on_error(c, counted)
           u == reject_logon(after)
<1>1. Whole(t)
  BY DEF Good
<1>2. Whole(refused) /\ Sends(t, refused)
  BY <1>1, RejectSends
<1> HIDE DEF refused
<1>3. /\ Good(c, refused, K, R, low) /\ Keeps(t, refused) /\ ~DidReset(refused)
      /\ Ahead(t) => Ahead(refused)
  BY <1>1, <1>2, SendsGood, SendsKeeps, SendsReset, SendsOrder
<1>4. refused.queue = t.queue /\ refused.next_in = t.next_in /\ t.next_in \in Nat
  BY <1>1, <1>2, WholeTypes DEF Sends, SameBook
<1>5. /\ Good(c, counted, K, R, low) /\ Keeps(refused, counted) /\ ~DidReset(counted)
      /\ counted.queue = t.queue
      /\ Ahead(t) => NotPast(counted)
      /\ (Ahead(t) /\ m.seq # t.next_in) => Ahead(counted)
  <2>1. CASE m.seq = refused.next_in
    <3> DEFINE v == [refused EXCEPT !.next_in = @ + 1]
    <3>1. counted = v
      BY <2>1
    <3>2. /\ Good(c, v, K, R, low) /\ Keeps(refused, v)
          /\ v.next_in = refused.next_in + 1 /\ v.queue = refused.queue
          /\ v.state = refused.state /\ ~DidReset(v)
      BY ZenonT(30), <1>3, <1>4, <2>1, CountedGood
    <3> HIDE DEF v
    <3>3. \A x \in t.queue : x.seq \in Nat
      BY <1>1, WholeTypes
    <3>4. Ahead(t) => NotPast(v)
      BY <1>3, <1>4, <3>2, <3>3 DEF Ahead, NotPast
    <3>5. QED BY <1>4, <2>1, <3>1, <3>2, <3>4
  <2>2. CASE m.seq # refused.next_in
    <3>1. counted = refused
      BY <1>2, <2>2 DEF Whole, Sound, Typed
    <3>2. \A x \in t.queue : x.seq \in Nat
      BY <1>1, WholeTypes
    <3>3. QED BY <1>3, <1>4, <3>1, <3>2 DEF Ahead, NotPast, Keeps
  <2>3. QED BY <2>1, <2>2
<1> HIDE DEF counted
<1>6. /\ Good(c, after, K, R, low) /\ Keeps(counted, after)
      /\ after.queue = {} \/ after = counted
      /\ DidReset(after) => after.next_in = 1
      /\ c.reset_on_error => after.queue = {}
  <2>1. /\ Good(c, after, K, R, low) /\ Keeps(counted, after)
        /\ after.queue = {} \/ after = counted
        /\ DidReset(after) => after.next_in = 1 \/ after = counted
    BY <1>5, ResetOnErrorGood
  <2>2. DidReset(after) => after # counted
    BY <1>5
  <2>3. c.reset_on_error => after.queue = {}
    <3>1. Whole(counted)
      BY <1>5 DEF Good
    <3>2. QED BY <3>1, ResetGood DEF reset_on_error
  <2>4. QED BY <2>1, <2>2, <2>3
<1>7. /\ Ahead(t) => NotPast(after)
      /\ (Ahead(t) /\ m.seq # t.next_in) => Ahead(after)
  BY <1>5, <1>6, EmptyOrder
<1> HIDE DEF after
<1>8. Whole(after) /\ Keeps(t, after)
  BY <1>3, <1>5, <1>6, KeepsTrans DEF Good
<1>9. Whole(u) /\ Sends(after, u) /\ u.state = "Disconnected"
  BY <1>8, RejectLogonSends
<1> HIDE DEF u
<1>10. /\ Good(c, u, K, R, low) /\ Keeps(after, u)
       /\ DidReset(u) <=> DidReset(after)
       /\ NotPast(u) /\ Ahead(u)
       /\ u.queue = after.queue /\ u.next_in = after.next_in
  BY ZenonT(30), <1>6, <1>8, <1>9, SendsGood, SendsKeeps, SendsReset
     DEF NotPast, Ahead, Sends, SameBook
<1>11. Keeps(t, u)
  BY <1>8, <1>10, KeepsTrans
<1>12. CASE c.disconnect_on_error
  <2>1. RefuseInvalid(c, t, m) = u
    BY <1>12 DEF RefuseInvalid, u, after, counted, refused
  <2>2. u.queue = {} \/ u.queue = t.queue
    BY <1>5, <1>6, <1>10
  <2>3. QED BY ZenonT(30), <1>6, <1>9, <1>10, <1>11, <2>1, <2>2
<1>13. CASE ~c.disconnect_on_error
  BY ZenonT(30), <1>5, <1>6, <1>7, <1>8, <1>13 DEF RefuseInvalid, after, counted, refused
<1>14. QED BY ZenonT(30), <1>12, <1>13

LEMMA ProcessGood ==
  ASSUME NEW c \in Config, NEW t, NEW K, NEW R, NEW low \in Nat, Good(c, t, K, R, low),
         ~DidReset(t), NEW m, m.type # "ResendRequest"
  PROVE  LET u == process_in_order(c, t, m)
         IN  /\ Good(c, u, K, R, low) /\ Keeps(t, u)
             /\ DidReset(u) => LogoutPending(c, u) /\ u.queue = {}
             /\ ~DidReset(u) => u.queue = t.queue /\ u.next_in = t.next_in
<1>1. Whole(t)
  BY DEF Good
<1>2. CASE m.type = "TestRequest"
  <2> DEFINE u == answer_test_request(c, t)
  <2>1. Whole(u) /\ Sends(t, u)
    BY <1>1, HeartbeatSends
  <2>2. process_in_order(c, t, m) = u
    BY <1>2 DEF process_in_order
  <2> HIDE DEF u
  <2>3. Good(c, u, K, R, low) /\ Keeps(t, u) /\ ~DidReset(u)
        /\ u.queue = t.queue /\ u.next_in = t.next_in
    BY ZenonT(30), <1>1, <2>1, SendsGood, SendsKeeps, SendsReset DEF Sends, SameBook
  <2>4. QED BY <2>2, <2>3
<1>3. CASE m.type = "Logout"
  <2>1. process_in_order(c, t, m) = on_logout_msg(c, t)
    BY <1>3 DEF process_in_order
  <2>2. QED BY <2>1, LogoutMsgGood
<1>4. CASE m.type \notin {"TestRequest", "Logout"}
  <2>1. process_in_order(c, t, m) = t
    BY <1>4 DEF process_in_order
  <2>2. QED BY <2>1 DEF Keeps
<1>5. QED BY ZenonT(30), <1>2, <1>3, <1>4

-----------------------------------------------------------------------------
(***************************************************************************)
(* build_resend: the points of a resend, in order.                         *)
(***************************************************************************)
UpTo(S, n) == {k \in S : k <= n}

LEMMA LeastNat ==
  ASSUME NEW S, S \subseteq Nat, S # {}
  PROVE  \E x \in S : \A y \in S : x <= y
<1>1. PICK x \in S : \A y \in S : ~(<<y, x>> \in OpToRel(<, Nat))
  BY ZenonT(30), WFMin, NatLessThanWellFounded
<1>2. \A y \in S : y < x => <<y, x>> \in OpToRel(<, Nat)
  BY DEF OpToRel
<1>3. \A y \in S : ~(y < x)
  BY <1>1, <1>2, ZenonT(30)
<1>4. \A y \in S : x <= y
  BY <1>3
<1>5. QED BY <1>4

\* In a finite set of numbers there is an i-th smallest.
LEMMA RankExists ==
  ASSUME NEW S, S \subseteq Nat, IsFiniteSet(S), NEW i \in 1..Cardinality(S)
  PROVE  \E n \in S : Cardinality(UpTo(S, n)) = i
<1> DEFINE Ranked(T) == \A j \in 1..Cardinality(T) :
                          \E n \in T : Cardinality(UpTo(T, n)) = j
           P == {p \in Nat : \A T \in SUBSET Nat :
                               IsFiniteSet(T) /\ Cardinality(T) = p => Ranked(T)}
<1>1. 0 \in P
  OBVIOUS
<1>2. ASSUME NEW p \in P PROVE p + 1 \in P
  <2>1. SUFFICES ASSUME NEW T \in SUBSET Nat, IsFiniteSet(T), Cardinality(T) = p + 1,
                        NEW j \in 1..(p + 1)
                 PROVE  \E n \in T : Cardinality(UpTo(T, n)) = j
    OBVIOUS
  <2>2. T # {}
    BY <2>1, FS_EmptySet
  <2>3. PICK x \in T : \A y \in T : x <= y
    BY ZenonT(30), <2>2, LeastNat
  <2> DEFINE U == T \ {x}
  <2>4. U \in SUBSET Nat /\ IsFiniteSet(U) /\ Cardinality(U) = p
    BY <2>1, FS_RemoveElement
  <2>5. CASE j = 1
    <3>1. \A k \in T : k <= x <=> k = x
      BY <2>1, <2>3
    <3>2. UpTo(T, x) = {x}
      BY <3>1, ZenonT(30) DEF UpTo
    <3>3. Cardinality(UpTo(T, x)) = 1
      BY <3>2, FS_Singleton
    <3>4. QED BY <2>5, <3>3
  <2>6. CASE j # 1
    <3>1. j - 1 \in 1..p
      BY <2>6
    <3>2. Ranked(U)
      BY <2>4
    <3>3. PICK n \in U : Cardinality(UpTo(U, n)) = j - 1
      BY <2>4, <3>1, <3>2
    <3>4. UpTo(T, n) = UpTo(U, n) \cup {x} /\ x \notin UpTo(U, n)
      BY <2>1, <2>3, <3>3 DEF UpTo
    <3>5. UpTo(U, n) \in SUBSET U
      BY DEF UpTo
    <3>6. IsFiniteSet(UpTo(U, n))
      BY ZenonT(30), <2>4, <3>5, FS_Subset
    <3>7. Cardinality(UpTo(U, n) \cup {x}) = Cardinality(UpTo(U, n)) + 1
      BY ZenonT(30), <3>4, <3>6, FS_AddElement
    <3>8. (j - 1) + 1 = j
      BY <2>1
    <3>9. Cardinality(UpTo(T, n)) = j
      BY <3>3, <3>4, <3>7, <3>8
    <3>10. QED BY <3>3, <3>9
  <2>7. QED BY <2>5, <2>6
<1>3. P \subseteq Nat
  OBVIOUS
<1>4. P = Nat
  <2> HIDE DEF P
  <2>1. QED BY ZenonT(30), <1>1, <1>2, <1>3, SetInduction
<1>5. Cardinality(S) \in Nat
  BY FS_CardinalityType
<1>6. Ranked(S)
  BY <1>4, <1>5
<1>7. QED BY <1>6

\* Ranks follow the order, and there is no element between two ranks in a row.
LEMMA RankOrder ==
  ASSUME NEW S, S \subseteq Nat, IsFiniteSet(S), NEW x \in S, NEW y \in S, x < y
  PROVE  Cardinality(UpTo(S, x)) < Cardinality(UpTo(S, y))
<1>1. UpTo(S, x) \in SUBSET UpTo(S, y) /\ UpTo(S, y) \in SUBSET S
  <2>1. \A k \in S : k <= x => k <= y
    OBVIOUS
  <2>2. QED BY ZenonT(30), <2>1 DEF UpTo
<1>2. y \in UpTo(S, y) /\ y \notin UpTo(S, x)
  BY DEF UpTo
<1>3. IsFiniteSet(UpTo(S, y))
  BY <1>1, FS_Subset
<1>4. IsFiniteSet(UpTo(S, x)) /\ Cardinality(UpTo(S, x)) <= Cardinality(UpTo(S, y))
  BY <1>1, <1>3, FS_Subset
<1>5. Cardinality(UpTo(S, x)) # Cardinality(UpTo(S, y))
  <2>1. UpTo(S, x) # UpTo(S, y)
    BY <1>2
  <2>2. QED BY <1>1, <1>3, <2>1, FS_Subset
<1>6. Cardinality(UpTo(S, x)) \in Nat /\ Cardinality(UpTo(S, y)) \in Nat
  BY <1>3, <1>4, FS_CardinalityType
<1>7. QED BY <1>4, <1>5, <1>6

LEMMA NextRank ==
  ASSUME NEW S, S \subseteq Nat, IsFiniteSet(S), NEW x \in S, NEW y \in S,
         Cardinality(UpTo(S, y)) = Cardinality(UpTo(S, x)) + 1
  PROVE  x < y /\ \A z \in S : ~(x < z /\ z < y)
<1> DEFINE rank(n) == Cardinality(UpTo(S, n))
<1>1. \A n : UpTo(S, n) \in SUBSET S
  BY DEF UpTo
<1>2. \A n \in S : rank(n) \in Nat
  BY <1>1, FS_Subset, FS_CardinalityType
<1>3. \A a, b \in S : a < b => rank(a) < rank(b)
  BY ZenonT(30), RankOrder
<1> HIDE DEF rank
<1>4. rank(y) = rank(x) + 1
  BY DEF rank
<1>5. x < y
  BY <1>2, <1>3, <1>4
<1>6. QED BY <1>2, <1>3, <1>4, <1>5

Kept(c, t) == {m.seq : m \in Resendable(c, t)}

\* a is what goes out at point n: the stored message, or a gap fill up to the
\* next message that can be sent again.
Replays(c, t, end, n, a) ==
  /\ a \in Action /\ a.op # "reset_store" /\ Replayed(a)
  /\ a.msg.seq = n
  /\ ReplayEnd(a) \in (n + 1)..(end + 1)
  /\ n \in Kept(c, t) => ReplayEnd(a) = n + 1
  /\ n \notin Kept(c, t) =>
       /\ \A k \in n..(ReplayEnd(a) - 1) : k \notin Kept(c, t)
       /\ ReplayEnd(a) = end + 1 \/ ReplayEnd(a) \in Kept(c, t)
  /\ \A m \in t.store :
       m.seq \in n..(ReplayEnd(a) - 1) => is_admin_type(m) \/ a.op = "resend"

LEMMA ResendActionIs ==
  ASSUME NEW c, NEW t, Whole(t), NEW end \in Nat, NEW n \in 1..end
  PROVE  Replays(c, t, end, n, ResendAction(c, t, end, n))
<1> DEFINE a == ResendAction(c, t, end, n)
           in == {m \in Resendable(c, t) : m.seq \in n..end}
           after == {m.seq : m \in in} \cup {end + 1}
           next == CHOOSE k \in after : \A j \in after : k <= j
           kept == Kept(c, t)
<1>1. t.store \in SUBSET Message /\ \A m \in t.store : m.seq \in Nat
  BY WholeTypes
<1>2. Resendable(c, t) \subseteq t.store
      /\ \A m \in t.store : m \notin Resendable(c, t) => is_admin_type(m)
  BY DEF Resendable
<1>3. in \subseteq Message /\ after \subseteq Nat /\ after # {}
  BY <1>1, <1>2
<1>4. next \in after /\ \A j \in after : next <= j
  <2> HIDE DEF after
  <2>1. QED BY ZenonT(30), <1>3, LeastNat
<1> HIDE DEF next
<1>5. next \in n..(end + 1)
  BY <1>1, <1>2, <1>4
<1>6. CASE next = n
  <2> DEFINE m == CHOOSE x \in in : x.seq = n
  <2>1. \E x \in in : x.seq = n
    BY <1>4, <1>6
  <2>2. m \in in /\ m.seq = n
    BY <2>1
  <2>3. m \in Message
    BY <1>3, <2>2
  <2>4. a = [op |-> "resend", msg |-> prepare_resend(m)]
    BY <1>6 DEF ResendAction, next
  <2>5. n \in kept
    BY <2>2 DEF Kept
  <2> HIDE DEF m
  <2>6. prepare_resend(m) \in Message /\ prepare_resend(m).seq = n
    BY ZenonT(30), <2>2, <2>3 DEF prepare_resend, Message
  <2>7. a \in Action /\ a.op = "resend" /\ a.msg.seq = n
    BY <2>4, <2>6 DEF Action
  <2> HIDE DEF a
  <2>8. ReplayEnd(a) = n + 1 /\ Replayed(a)
    BY <2>7 DEF ReplayEnd, Replayed
  <2>9. Replays(c, t, end, n, a)
    BY <2>5, <2>7, <2>8 DEF Replays
  <2>10. QED BY <2>9 DEF a
<1>7. CASE next # n
  <2>1. a = [op |-> "send", msg |-> sequence_reset(n, next)]
    BY <1>7 DEF ResendAction, next
  <2>2. base("SequenceReset") \in Message
    BY BaseType DEF MsgTypes, AdminTypes
  <2>3. /\ sequence_reset(n, next) \in Message
        /\ sequence_reset(n, next).seq = n /\ sequence_reset(n, next).num = next
        /\ sequence_reset(n, next).type = "SequenceReset"
    <3>1. next \in OptNat /\ {"orig_missing"} \in SUBSET Faults /\ n \in Nat
      BY <1>5 DEF OptNat, Faults
    <3>2. base("SequenceReset").type = "SequenceReset"
      BY DEF base
    <3>3. QED BY ZenonT(30), <2>2, <3>1, <3>2 DEF sequence_reset, Message
  <2>4. /\ a \in Action /\ a.op = "send" /\ a.msg.seq = n /\ a.msg.num = next
        /\ a.msg.type = "SequenceReset"
    BY <2>1, <2>3 DEF Action
  <2> HIDE DEF a
  <2>5. ReplayEnd(a) = next /\ Replayed(a)
    BY <2>4 DEF ReplayEnd, Replayed
  <2>6. \A k \in n..(next - 1) : k \notin kept
    <3>1. SUFFICES ASSUME NEW m \in Resendable(c, t), m.seq \in n..(next - 1)
                   PROVE  FALSE
      BY DEF Kept
    <3>2. m.seq \in n..end
      BY <1>5, <3>1
    <3>3. m.seq \in after
      BY <3>2
    <3>4. QED BY <1>4, <1>5, <3>1, <3>3
  <2>7. n \notin kept
    BY <1>5, <1>7, <2>6
  <2>8. next = end + 1 \/ next \in kept
    BY <1>4 DEF Kept
  <2>9. \A m \in t.store : m.seq \in n..(next - 1) => is_admin_type(m)
    BY <1>2, <2>6 DEF Kept
  <2>10. next \in (n + 1)..(end + 1)
    BY <1>5, <1>7
  <2>11. Replays(c, t, end, n, a)
    BY ZenonT(30), <2>4, <2>5, <2>6, <2>7, <2>8, <2>9, <2>10 DEF Replays
  <2>12. QED BY <2>11 DEF a
<1>8. QED BY <1>6, <1>7

\* What a replayed message or gap fill covers ends where the next one starts.
LEMMA NextPoint ==
  ASSUME NEW c, NEW t, Whole(t), NEW begin \in Nat \ {0}, NEW end \in Nat,
         NEW x \in ResendPoints(c, t, begin, end), NEW y \in ResendPoints(c, t, begin, end),
         x < y, \A z \in ResendPoints(c, t, begin, end) : ~(x < z /\ z < y)
  PROVE  ReplayEnd(ResendAction(c, t, end, x)) = y
<1> DEFINE kept == Kept(c, t)
           e == ReplayEnd(ResendAction(c, t, end, x))
<1>1. /\ x \in begin..end /\ y \in begin..end /\ x \in 1..end
      /\ \A n \in begin..end : n \in ResendPoints(c, t, begin, end) <=>
                                 n \in kept \/ n = begin \/ n - 1 \in kept
  BY DEF ResendPoints, Kept
<1>2. /\ e \in (x + 1)..(end + 1)
      /\ x \in kept => e = x + 1
      /\ x \notin kept => /\ \A k \in x..(e - 1) : k \notin kept
                          /\ e = end + 1 \/ e \in kept
  BY <1>1, ResendActionIs DEF Replays
<1> HIDE DEF kept, e
<1>3. CASE x \in kept
  <2>1. x + 1 \in begin..end /\ (x + 1) - 1 = x
    BY <1>1
  <2>2. x + 1 \in ResendPoints(c, t, begin, end)
    BY <1>1, <1>3, <2>1
  <2>3. x + 1 = y
    BY <1>1, <2>2
  <2>4. QED BY <1>2, <1>3, <2>3 DEF e
<1>4. CASE x \notin kept
  <2>1. y <= e
    <3>1. CASE e = end + 1
      BY <1>1, <3>1
    <3>2. CASE e # end + 1
      <4>1. e \in begin..end /\ e \in kept
        BY <1>1, <1>2, <1>4, <3>2
      <4>2. e \in ResendPoints(c, t, begin, end)
        BY <1>1, <4>1
      <4>3. QED BY <1>1, <1>2, <4>1, <4>2
    <3>3. QED BY <3>1, <3>2
  <2>2. ASSUME y < e PROVE FALSE
    <3>1. y \in x..(e - 1) /\ y - 1 \in x..(e - 1) /\ y # begin
      BY <1>1, <1>2, <2>2
    <3>2. QED BY <1>1, <1>2, <1>4, <3>1
  <2>3. QED BY <1>1, <1>2, <2>1, <2>2 DEF e
<1>5. QED BY <1>3, <1>4

LEMMA BuildResendGood ==
  ASSUME NEW c, NEW t, NEW K, NEW R, NEW low, Good(c, t, K, R, low), NoReplay(t),
         NEW begin \in Nat \ {0}, NEW end \in Nat, end < t.next_out
  PROVE  LET u == build_resend(c, t, begin, end)
         IN  /\ Good(c, u, K, R, low)
             /\ u.queue = t.queue /\ u.next_in = t.next_in /\ u.state = t.state
             /\ u.next_out = t.next_out /\ u.logon_sent = t.logon_sent
             /\ DidReset(u) <=> DidReset(t)
<1> DEFINE points == ResendPoints(c, t, begin, end)
           nth(i) == CHOOSE n \in points : Cardinality({k \in points : k <= n}) = i
           N == Cardinality(points)
           out == [i \in 1..N |-> ResendAction(c, t, end, nth(i))]
           u == [t EXCEPT !.ticks_since_send = 0, !.acts = @ \o out]
           L == Len(t.acts)
<1>1. build_resend(c, t, begin, end) = u
  BY DEF build_resend
<1>2. points \subseteq Nat /\ points \in SUBSET (begin..end) /\ points \in SUBSET (1..end)
  BY DEF ResendPoints
<1>3. IsFiniteSet(points) /\ N \in Nat
  <2> HIDE DEF points
  <2>1. IsFiniteSet(begin..end)
    BY FS_Interval
  <2>2. IsFiniteSet(points)
    BY ZenonT(30), <1>2, <2>1, FS_Subset
  <2>3. QED BY <2>2, FS_CardinalityType
<1>4. Whole(t) /\ L \in Nat /\ DOMAIN t.acts = 1..L /\ t.next_out \in Nat
      /\ t.acts \in Seq(Action)
  BY WholeTypes DEF Good, Whole
<1>5. \A i \in 1..N : nth(i) \in points /\ Cardinality(UpTo(points, nth(i))) = i
  <2> TAKE i \in 1..N
  <2> HIDE DEF points
  <2>1. \E n \in points : Cardinality({k \in points : k <= n}) = i
    BY ZenonT(30), <1>2, <1>3, RankExists DEF UpTo
  <2>2. QED BY ZenonT(30), <2>1 DEF UpTo
<1> HIDE DEF nth
<1>6. \A i \in 1..N :
        /\ out[i] \in Action /\ out[i].op # "reset_store" /\ Replayed(out[i])
        /\ out[i].msg.seq = nth(i)
        /\ ReplayEnd(out[i]) \in (nth(i) + 1)..(end + 1)
        /\ \A m \in t.store :
             m.seq \in nth(i)..(ReplayEnd(out[i]) - 1)
               => is_admin_type(m) \/ out[i].op = "resend"
  <2> HIDE DEF out
  <2> TAKE i \in 1..N
  <2>1. nth(i) \in 1..end /\ out[i] = ResendAction(c, t, end, nth(i))
    BY <1>2, <1>5 DEF out
  <2>2. Replays(c, t, end, nth(i), out[i])
    BY <1>4, <2>1, ResendActionIs
  <2>3. QED BY ZenonT(30), <2>2 DEF Replays
<1>7. \A i \in 2..N : ReplayEnd(out[i - 1]) = nth(i)
  <2> TAKE i \in 2..N
  <2>1. i \in 1..N /\ i - 1 \in 1..N /\ i = (i - 1) + 1
    BY <1>3
  <2>2. /\ nth(i) \in points /\ nth(i - 1) \in points
        /\ Cardinality(UpTo(points, nth(i))) = Cardinality(UpTo(points, nth(i - 1))) + 1
    BY <1>5, <2>1
  <2>3. out[i - 1] = ResendAction(c, t, end, nth(i - 1))
    BY <2>1
  <2> HIDE DEF out
  <2>4. /\ nth(i - 1) < nth(i)
        /\ \A z \in points : ~(nth(i - 1) < z /\ z < nth(i))
    <3> HIDE DEF points
    <3>1. QED BY ZenonT(30), <1>2, <1>3, <2>2, NextRank
  <2>5. QED BY <1>4, <2>2, <2>3, <2>4, NextPoint
<1>8. out \in Seq(Action) /\ Len(out) = N
  <2>1. out \in [1..N -> Action]
    BY ZenonT(30), <1>6
  <2> HIDE DEF out
  <2>2. QED BY <1>3, <2>1
<1> HIDE DEF out, points, N
<1>9. /\ u.acts = t.acts \o out
      /\ u.queue = t.queue /\ u.next_in = t.next_in /\ u.state = t.state
      /\ u.next_out = t.next_out /\ u.logon_sent = t.logon_sent /\ u.store = t.store
      /\ u.last_disconnect_reason = t.last_disconnect_reason
      /\ Typed(u)
  BY ZenonT(30), <1>4 DEF Whole, Sound, Typed
<1>10. Sound(u)
  BY ZenonT(30), <1>4, <1>9, KeepsSound DEF Whole
<1> HIDE DEF u
<1>11. /\ u.acts \in Seq(Action) /\ Len(u.acts) = L + N /\ DOMAIN u.acts = 1..(L + N)
       /\ \A i \in 1..L : u.acts[i] = t.acts[i]
       /\ \A i \in 1..(L + N) : i > L => u.acts[i] = out[i - L]
  <2> DEFINE p == t.acts
             w == u.acts
  <2>1. p \in Seq(Action) /\ L = Len(p)
    BY <1>4
  <2>2. w = p \o out /\ N = Len(out) /\ out \in Seq(Action)
    BY <1>8, <1>9
  <2> HIDE DEF p, L, w
  <2>3. w \in Seq(Action) /\ Len(w) = L + N /\ DOMAIN w = 1..(L + N)
    BY <2>1, <2>2
  <2>4. \A i \in 1..L : w[i] = p[i]
    BY <2>1, <2>2
  <2>5. \A i \in 1..(L + N) : i > L => w[i] = out[i - L]
    BY <2>1, <2>2
  <2>6. QED BY ZenonT(30), <2>3, <2>4, <2>5 DEF p, w
<1>12. DidReset(u) <=> DidReset(t)
  <2>1. ASSUME DidReset(t) PROVE DidReset(u)
    BY <1>3, <1>4, <1>11, <2>1 DEF DidReset
  <2>2. ASSUME DidReset(u) PROVE DidReset(t)
    <3>1. PICK i \in 1..(L + N) : u.acts[i].op = "reset_store"
      BY <1>11, <2>2 DEF DidReset
    <3>2. i > L => i - L \in 1..N
      BY <1>3, <1>4
    <3>3. ~(i > L)
      BY ZenonT(30), <1>6, <1>11, <3>1, <3>2
    <3>4. i \in 1..L
      BY <1>3, <1>4, <3>3
    <3>5. QED BY <1>4, <1>11, <3>1, <3>4 DEF DidReset
  <2>3. QED BY <2>1, <2>2
<1>13. Gapless(u)
  <2>1. SUFFICES ASSUME NEW i \in 1..(L + N), Replayed(u.acts[i])
                 PROVE  /\ ReplayEnd(u.acts[i]) <= u.next_out
                        /\ \A m \in u.store :
                             m.seq \in u.acts[i].msg.seq..(ReplayEnd(u.acts[i]) - 1)
                               => is_admin_type(m) \/ u.acts[i].op = "resend"
                        /\ i > 1 /\ Replayed(u.acts[i - 1])
                             => ReplayEnd(u.acts[i - 1]) = u.acts[i].msg.seq
    BY ZenonT(30), <1>11 DEF Gapless
  <2>2. i > L
    <3>1. ASSUME ~(i > L) PROVE FALSE
      <4>1. i \in 1..L
        BY <1>3, <1>4, <3>1
      <4>2. u.acts[i] = t.acts[i] /\ ~Replayed(t.acts[i])
        BY ZenonT(30), <1>4, <1>11, <4>1 DEF NoReplay
      <4>3. QED BY <2>1, <4>2
    <3>2. QED BY <3>1
  <2>3. i - L \in 1..N /\ u.acts[i] = out[i - L]
    BY <1>3, <1>4, <1>11, <2>2
  <2>4. ReplayEnd(u.acts[i]) <= u.next_out
    <3>1. ReplayEnd(out[i - L]) <= end + 1 /\ ReplayEnd(out[i - L]) \in Int
      BY <1>2, <1>5, <1>6, <2>3
    <3>2. QED BY <1>4, <1>9, <2>3, <3>1
  <2>5. ASSUME NEW m \in u.store,
               m.seq \in u.acts[i].msg.seq..(ReplayEnd(u.acts[i]) - 1)
        PROVE  is_admin_type(m) \/ u.acts[i].op = "resend"
    BY ZenonT(30), <1>6, <1>9, <2>3, <2>5
  <2>6. ASSUME i > 1, Replayed(u.acts[i - 1])
        PROVE  ReplayEnd(u.acts[i - 1]) = u.acts[i].msg.seq
    <3>1. i - 1 > L
      BY <1>3, <1>4, <1>11, <2>6 DEF NoReplay
    <3>2. /\ i - L \in 2..N /\ (i - 1) - L = (i - L) - 1
          /\ i - 1 \in 1..(L + N)
      BY <1>3, <1>4, <2>2, <3>1
    <3>3. u.acts[i - 1] = out[(i - L) - 1]
      BY <1>11, <3>1, <3>2
    <3>4. QED BY ZenonT(30), <1>6, <1>7, <2>3, <3>2, <3>3
  <2>7. QED BY ZenonT(30), <2>4, <2>5, <2>6
<1>14. Covered(c, u, K, R, low)
  BY ZenonT(30), <1>9, <1>12 DEF Good, Covered, Below, LogoutPending
<1>15. Fresh(c, u)
  BY ZenonT(30), <1>9 DEF Good, Fresh
<1>16. Good(c, u, K, R, low)
  BY ZenonT(30), <1>10, <1>11, <1>13, <1>14, <1>15 DEF Good, Whole
<1>17. QED BY <1>1, <1>9, <1>12, <1>16

LEMMA ResendRequestGood ==
  ASSUME NEW c \in Config, NEW t, NEW K, NEW R, NEW low, Good(c, t, K, R, low),
         NoReplay(t), NEW m \in Message
  PROVE  LET u == on_resend_request(c, t, m)
         IN  /\ Good(c, u, K, R, low)
             /\ u.queue = t.queue /\ u.next_in = t.next_in /\ (DidReset(u) <=> DidReset(t))
             /\ t.state = "Disconnected" => u.state = "Disconnected"
<1> DEFINE begin == IF m.num = 0 THEN 1 ELSE m.num
           last == t.next_out - 1
           end == IF m.end <= 0 \/ m.end > last THEN last ELSE m.end
           u == on_resend_request(c, t, m)
<1>1. Whole(t) /\ t.next_out \in Nat \ {0}
  BY WholeTypes DEF Good
<1>2. m.num \in Int /\ m.end \in Int
  BY DEF Message, OptNat, Absent, Malformed
<1>3. begin \in Int /\ end \in Int /\ end < t.next_out
  BY <1>1, <1>2
<1>4. u \in {build_session_reject(c, t), t}
      \/ (~(begin <= 0 \/ begin > end) /\ u = build_resend(c, t, begin, end))
  BY ZenonT(30) DEF on_resend_request
<1> HIDE DEF begin, end, u
<1>5. CASE u = build_session_reject(c, t)
  <2>1. Whole(u) /\ Sends(t, u)
    BY <1>1, <1>5, RejectSends
  <2>2. QED BY ZenonT(30), <1>1, <2>1, SendsGood, SendsReset DEF Sends, SameBook, u
<1>6. CASE u = t
  BY <1>6 DEF u
<1>7. CASE ~(begin <= 0 \/ begin > end) /\ u = build_resend(c, t, begin, end)
  <2>1. begin \in Nat \ {0} /\ end \in Nat
    BY <1>3, <1>7
  <2>2. QED BY <1>3, <1>7, <2>1, BuildResendGood DEF u
<1>8. QED BY <1>4, <1>5, <1>6, <1>7
=============================================================================
