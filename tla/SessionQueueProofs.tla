------------------------- MODULE SessionQueueProofs -------------------------
(***************************************************************************)
(* The queue of a session and its Logon handshake: drain_queue, the        *)
(* handlers of messages in order, ahead and behind, SequenceReset and Logon *)
(* keep Good (SessionStepProofs), whatever is queued.                      *)
(***************************************************************************)
EXTENDS SessionStepProofs

\* The time a leaf may take, in seconds; most take a fraction of one.
USE SMTT(30), ZenonT(30)

\* What a refused message does to a state, as one fact.
Refused(c, t, u, K, R, low) ==
  /\ Good(c, u, K, R, low) /\ Keeps(t, u) /\ u.queue \subseteq t.queue
  /\ c.disconnect_on_error => u.state = "Disconnected"
  /\ c.reset_on_error => u.queue = {}
  /\ Ahead(t) => NotPast(u)

\* RefuseInvalid leaves a state Good, with a shorter queue at most.
LEMMA RefuseInvalidGood ==
  ASSUME NEW c \in Config, NEW t, NEW K, NEW R, NEW low \in Nat, Good(c, t, K, R, low),
         ~DidReset(t), NEW m, m.seq \in K
  PROVE  Refused(c, t, RefuseInvalid(c, t, m), K, R, low)
BY RefuseGood DEF Refused

\* u is t after a resend request was answered: only what is sent differs.
Resent(c, t, u, K, R, low) ==
  /\ Good(c, u, K, R, low)
  /\ u.queue = t.queue /\ u.next_in = t.next_in /\ u.state = t.state

\* build_resend answers from the store and leaves the book alone.
LEMMA ResendGood ==
  ASSUME NEW c, NEW t, NEW K, NEW R, NEW low, Good(c, t, K, R, low), NoReplay(t),
         NEW begin \in Nat \ {0}, NEW end \in Nat, end < t.next_out
  PROVE  Resent(c, t, build_resend(c, t, begin, end), K, R, low)
BY BuildResendGood DEF Resent

\* One queued message handled in its turn keeps the session Good.
LEMMA DrainMessageGood ==
  ASSUME NEW c \in Config, NEW t, NEW K, NEW R, NEW low \in Nat, Good(c, t, K, R, low),
         ~DidReset(t), NEW m \in t.queue, m.seq = t.next_in
  PROVE  LET u == DrainMessage(c, t, m)
         IN  /\ Good(c, u, K, R, low) /\ Keeps(t, u)
             /\ u.queue \subseteq t.queue \ {m}
             /\ Keyed(t) /\ NotPast(t) => NotPast(u)
             /\ c.disconnect_on_error /\ m.type # "SequenceReset" /\ IsInvalid(m)
                  => u.state = "Disconnected"
<1> DEFINE v == [t EXCEPT !.queue = @ \ {m}]
           handled == IF m.type = "ResendRequest" THEN v ELSE process_in_order(c, v, m)
           done == [handled EXCEPT !.next_in = @ + 1]
<1>1. Whole(t) /\ t.next_in \in Nat /\ m \in Message /\ (\A x \in t.queue : x.seq \in Nat)
  BY WholeTypes DEF Good
<1>2. m.num \in OptNat
  BY <1>1 DEF Message
<1>3. m.seq \in K /\ (m.type = "SequenceReset" => t.next_in..(m.num - 1) \subseteq K)
  BY DEF Good, Covered, Accounted
<1>4. /\ Typed(v) /\ v.acts = t.acts /\ v.next_out = t.next_out /\ v.store = t.store
      /\ v.state = t.state /\ v.logon_sent = t.logon_sent
      /\ v.last_disconnect_reason = t.last_disconnect_reason
      /\ v.next_in = t.next_in /\ v.queue = t.queue \ {m}
  BY <1>1 DEF Whole, Sound, Typed
<1> HIDE DEF v
<1>5. Sound(v)
  BY <1>1, <1>4, KeepsSound DEF Whole
<1>6. ~DidReset(v)
  BY <1>4 DEF DidReset
<1>7. Covered(c, v, K, R, low)
  BY <1>4, <1>6 DEF Good, Covered, Below
<1>8. Good(c, v, K, R, low)
  BY <1>4, <1>5, <1>7, MovesGood
<1>9. Keeps(t, v)
  BY <1>4 DEF Keeps, NoReplay, Keyed
<1>10. Keyed(t) /\ NotPast(t) => NotPast(v) /\ Ahead(v)
  BY <1>1, <1>4 DEF Keyed, NotPast, Ahead
<1>11. CASE m.type = "SequenceReset"
  <2> DEFINE u == apply_gap_fill_new_seq(v, m.num)
  <2>1. DrainMessage(c, t, m) = u
    BY <1>11 DEF DrainMessage, v
  <2>2. /\ Good(c, u, K, R, low) /\ Keeps(v, u) /\ u.queue \subseteq v.queue
        /\ NotPast(v) => NotPast(u)
    BY <1>2, <1>3, <1>4, <1>6, <1>8, <1>11, GapFillGood
  <2> HIDE DEF u
  <2>3. Keeps(t, u)
    BY <1>9, <2>2, KeepsTrans
  <2>4. QED BY <1>4, <1>10, <1>11, <2>1, <2>2, <2>3
<1>12. CASE m.type # "SequenceReset" /\ IsInvalid(m)
  <2> DEFINE u == RefuseInvalid(c, v, m)
  <2>1. DrainMessage(c, t, m) = u
    BY <1>12 DEF DrainMessage, v
  <2>2. /\ Good(c, u, K, R, low) /\ Keeps(v, u) /\ u.queue \subseteq v.queue
        /\ Ahead(v) => NotPast(u)
        /\ c.disconnect_on_error => u.state = "Disconnected"
    <3>1. Refused(c, v, u, K, R, low)
      BY ZenonT(30), <1>3, <1>6, <1>8, RefuseInvalidGood
    <3> HIDE DEF u
    <3>2. QED BY <3>1 DEF Refused
  <2> HIDE DEF u
  <2>3. Keeps(t, u)
    BY <1>9, <2>2, KeepsTrans
  <2>4. QED BY <1>4, <1>10, <2>1, <2>2, <2>3
<1>13. CASE m.type # "SequenceReset" /\ ~IsInvalid(m)
  <2>1. DrainMessage(c, t, m) = done
    BY <1>13 DEF DrainMessage, v
  <2>2. /\ Good(c, handled, K, R, low) /\ Keeps(v, handled)
        /\ DidReset(handled) => LogoutPending(c, handled) /\ handled.queue = {}
        /\ ~DidReset(handled) => handled.queue = v.queue /\ handled.next_in = v.next_in
    BY <1>6, <1>8, ProcessGood DEF Keeps
  <2> HIDE DEF handled
  <2>3. /\ Good(c, done, K, R, low) /\ Keeps(handled, done)
        /\ done.next_in = handled.next_in + 1 /\ done.queue = handled.queue
        /\ done.state = handled.state /\ (DidReset(done) <=> DidReset(handled))
    BY <1>3, <1>4, <2>2, CountedGood
  <2> HIDE DEF done
  <2>4. Keeps(t, done)
    BY <1>9, <2>2, <2>3, KeepsTrans
  <2>5. done.queue \subseteq v.queue
    BY <2>2, <2>3
  <2>6. ASSUME Keyed(t), NotPast(t) PROVE NotPast(done)
    <3>1. CASE DidReset(handled)
      BY <2>2, <2>3, <3>1, EmptyOrder
    <3>2. CASE ~DidReset(handled)
      <4>1. done.next_in = t.next_in + 1 /\ done.queue = v.queue
        BY <1>4, <2>2, <2>3, <3>2
      <4>2. done.state # "Disconnected" => v.state # "Disconnected"
        BY <2>2, <2>3 DEF Keeps
      <4>3. QED BY <1>1, <1>4, <1>10, <2>6, <4>1, <4>2 DEF NotPast, Ahead
    <3>3. QED BY <3>1, <3>2
  <2>7. QED BY <1>4, <1>13, <2>1, <2>3, <2>4, <2>5, <2>6
<1>14. QED BY <1>11, <1>12, <1>13

-----------------------------------------------------------------------------
\* The messages that drain_queue would take next.
Due(t) == {m \in t.queue : m.seq = t.next_in}

\* After k of n rounds of drain_queue's loop on t.
Draining(c, t, d, K, R, low, n, k) ==
  /\ Good(c, d.s, K, R, low) /\ Keeps(t, d.s)
  /\ d.s.queue \subseteq t.queue
  /\ Keyed(t) /\ NotPast(t) => NotPast(d.s)
  /\ d.halted => d.s.state = "Disconnected"
  /\ d.halted \/ Due(d.s) = {} \/ Cardinality(d.s.queue) + k <= n

LEMMA DrainStepGood ==
  ASSUME NEW c \in Config, NEW t, NEW d, NEW K, NEW R, NEW low \in Nat,
         NEW n \in Nat, NEW k \in Nat, Draining(c, t, d, K, R, low, n, k)
  PROVE  Draining(c, t, DrainStep(c, d), K, R, low, n, k + 1)
<1> DEFINE e == DrainStep(c, d)
           m == CHOOSE x \in Due(d.s) : TRUE
<1>1. CASE d.halted \/ Due(d.s) = {}
  <2>1. e = d
    BY <1>1 DEF DrainStep, Due
  <2>2. QED BY <1>1, <2>1 DEF Draining
<1>2. CASE ~(d.halted \/ Due(d.s) = {})
  <2>1. m \in Due(d.s)
    BY <1>2
  <2>2. /\ e.s = DrainMessage(c, d.s, m)
        /\ e.halted = (/\ c.disconnect_on_error
                       /\ m.type # "SequenceReset"
                       /\ IsInvalid(m))
    BY <1>2 DEF DrainStep, Due
  <2> HIDE DEF m, e
  <2>3. m \in d.s.queue /\ m.seq = d.s.next_in
    BY <2>1 DEF Due
  <2>4. Good(c, d.s, K, R, low) /\ Keeps(t, d.s) /\ Cardinality(d.s.queue) + k <= n
    BY <1>2 DEF Draining
  <2>5. ~DidReset(d.s)
    BY <2>3, <2>4 DEF Good, Covered
  <2>6. /\ Good(c, e.s, K, R, low) /\ Keeps(d.s, e.s)
        /\ e.s.queue \subseteq d.s.queue \ {m}
        /\ Keyed(d.s) /\ NotPast(d.s) => NotPast(e.s)
        /\ e.halted => e.s.state = "Disconnected"
    BY <2>2, <2>3, <2>4, <2>5, DrainMessageGood
  <2>7. IsFiniteSet(d.s.queue)
    BY <2>4 DEF Good, Whole, Sound
  <2>8. /\ Cardinality(d.s.queue) \in Nat
        /\ IsFiniteSet(d.s.queue \ {m})
        /\ Cardinality(d.s.queue \ {m}) = Cardinality(d.s.queue) - 1
    BY <2>3, <2>7, FS_CardinalityType, FS_RemoveElement
  <2>9. Cardinality(e.s.queue) <= Cardinality(d.s.queue) - 1
        /\ Cardinality(e.s.queue) \in Nat
    BY <2>6, <2>8, FS_Subset, FS_CardinalityType
  <2>10. Cardinality(e.s.queue) + (k + 1) <= n
    BY <2>4, <2>8, <2>9
  <2>11. Keeps(t, e.s) /\ e.s.queue \subseteq t.queue
    BY <2>4, <2>6, KeepsTrans DEF Draining
  <2>12. Keyed(t) /\ NotPast(t) => NotPast(e.s)
    BY <2>4, <2>6 DEF Draining, Keeps
  <2>13. Draining(c, t, e, K, R, low, n, k + 1)
    BY ZenonT(30), <2>6, <2>10, <2>11, <2>12 DEF Draining
  <2>14. QED BY <2>13 DEF e
<1>3. QED BY <1>1, <1>2

LEMMA RunGood ==
  ASSUME NEW c \in Config, NEW t, NEW K, NEW R, NEW low \in Nat, Good(c, t, K, R, low),
         NEW n \in Nat, n = Cardinality(t.queue), NEW r, IsRun(c, t, r, n)
  PROVE  Draining(c, t, r[n], K, R, low, n, n)
<1> DEFINE S == {k \in Nat : k <= n => Draining(c, t, r[k], K, R, low, n, k)}
<1>1. 0 \in S
  <2>1. r[0].s = t /\ r[0].halted = FALSE
    BY DEF IsRun
  <2>2. Cardinality(r[0].s.queue) + 0 <= n
    BY <2>1
  <2>3. QED BY <2>1, <2>2 DEF Draining, Keeps
<1>2. ASSUME NEW k \in S PROVE k + 1 \in S
  <2>1. SUFFICES ASSUME k + 1 <= n
                 PROVE  Draining(c, t, r[k + 1], K, R, low, n, k + 1)
    OBVIOUS
  <2>2. Draining(c, t, r[k], K, R, low, n, k)
    BY <2>1
  <2>3. k + 1 \in 0..n /\ k + 1 # 0 /\ (k + 1) - 1 = k
    BY <2>1
  <2>4. r[k + 1] = DrainStep(c, r[k])
    BY ZenonT(30), <2>3 DEF IsRun
  <2>5. QED BY <2>2, <2>4, DrainStepGood
<1>3. S \subseteq Nat
  OBVIOUS
<1> HIDE DEF S
<1>4. S = Nat
  BY ZenonT(30), <1>1, <1>2, <1>3, SetInduction
<1>5. QED BY <1>4 DEF S

LEMMA DrainGood ==
  ASSUME NEW c \in Config, NEW t, NEW K, NEW R, NEW low \in Nat, Good(c, t, K, R, low)
  PROVE  LET u == drain_queue(c, t)
         IN  /\ Good(c, u, K, R, low) /\ Keeps(t, u)
             /\ u.queue \subseteq t.queue
             /\ Keyed(t) /\ NotPast(t) => Ahead(u)
<1> DEFINE n == Cardinality(t.queue)
           run == CHOOSE r : IsRun(c, t, r, n)
           end == Drained(c, t)
           asked == end.s.resend_requested /\ end.s.queue # {}
           v == [end.s EXCEPT !.resend_requested = asked]
           u == maybe_continue_chunked_resend(c, v)
<1>1. n \in Nat
  BY FS_CardinalityType DEF Good, Whole, Sound
<1>2. end = run[n]
  BY DEF Drained, IsRun
<1>3. drain_queue(c, t) = IF end.halted THEN end.s ELSE u
  BY DEF drain_queue
<1> HIDE DEF n
<1>4. \E r : IsRun(c, t, r, n)
  BY <1>1, RunExists
<1>5. IsRun(c, t, run, n)
  BY <1>4
<1> HIDE DEF run, end
<1>6. Draining(c, t, end, K, R, low, n, n)
  BY <1>1, <1>2, <1>5, RunGood DEF n
<1>7. Good(c, end.s, K, R, low) /\ Whole(end.s) /\ Keeps(t, end.s)
      /\ end.s.queue \subseteq t.queue
  BY <1>6 DEF Draining, Good
<1>8. CASE end.halted
  BY <1>3, <1>6, <1>7, <1>8 DEF Draining, Ahead
<1>9. CASE ~end.halted
  <2>1. Due(end.s) = {}
    <3>1. IsFiniteSet(end.s.queue)
      BY <1>7 DEF Whole, Sound
    <3>2. ASSUME Cardinality(end.s.queue) + n <= n PROVE end.s.queue = {}
      <4>1. Cardinality(end.s.queue) = 0
        BY <1>1, <3>1, <3>2, FS_CardinalityType
      <4>2. QED BY <3>1, <4>1, FS_EmptySet
    <3>3. QED BY ZenonT(30), <1>6, <1>9, <3>2 DEF Draining, Due
  <2>2. Keyed(t) /\ NotPast(t) => Ahead(end.s)
    <3>1. \A x \in end.s.queue : x.seq \in Nat
      BY <1>7, WholeTypes
    <3>2. end.s.next_in \in Nat
      BY <1>7, WholeTypes
    <3>3. QED BY <1>6, <2>1, <3>1, <3>2 DEF Draining, Due, NotPast, Ahead
  <2>3. asked \in BOOLEAN
    OBVIOUS
  <2> HIDE DEF asked
  <2>4. Sound(v)
    BY <1>7, <2>3, RequestedSound DEF Whole
  <2>5. /\ v.acts = end.s.acts /\ v.next_out = end.s.next_out /\ v.store = end.s.store
        /\ SameBook(end.s, v)
    BY <1>7 DEF Whole, Sound, Typed, SameBook
  <2> HIDE DEF v
  <2>6. Whole(v) /\ Sends(end.s, v)
    BY <1>7, <2>4, <2>5, SilentSends
  <2>7. Whole(u) /\ Sends(v, u)
    BY <2>6, ContinueResendSends
  <2> HIDE DEF u
  <2>8. Whole(u) /\ Sends(end.s, u)
    BY <1>7, <2>6, <2>7, ThenSends
  <2>9. /\ Good(c, u, K, R, low) /\ Keeps(end.s, u)
        /\ u.queue = end.s.queue /\ (Ahead(end.s) => Ahead(u))
    BY ZenonT(30), <1>7, <2>8, SendsGood, SendsKeeps, SendsOrder DEF Sends, SameBook
  <2>10. Keeps(t, u)
    BY <1>7, <2>9, KeepsTrans
  <2>11. QED BY <1>3, <1>7, <1>9, <2>2, <2>9, <2>10
<1>10. QED BY <1>8, <1>9

-----------------------------------------------------------------------------
\* The outcome of a handler on message m.
Handled(c, t, u, m, K, R, low) ==
  /\ Good(c, u, K, R, low)
  /\ Keyed(t) => Keyed(u)
  /\ u.queue \subseteq t.queue \cup {m}

LEMMA SendsHandled ==
  ASSUME NEW c, NEW t, NEW u, NEW m, NEW K, NEW R, NEW low, Good(c, t, K, R, low),
         Whole(u), Sends(t, u)
  PROVE  Handled(c, t, u, m, K, R, low) /\ (Ahead(t) => Ahead(u))
<1>1. Whole(t)
  BY DEF Good
<1>2. QED BY ZenonT(30), <1>1, SendsGood, SendsOrder DEF Handled, Sends, SameBook

LEMMA LogoutOnErrorHandled ==
  ASSUME NEW c \in Config, NEW t, NEW m, NEW K, NEW R, NEW low, Good(c, t, K, R, low)
  PROVE  LET u == logout_on_error(c, t)
         IN  Handled(c, t, u, m, K, R, low) /\ Ahead(u)
<1> DEFINE lo == send_logout(t)
           gone == [lo EXCEPT !.state = "Disconnected"]
           r == reset_on_error(c, gone)
           u == Disconnect(r)
<1>1. Whole(t)
  BY DEF Good
<1>2. Whole(lo) /\ Sends(t, lo)
  BY <1>1, SendLogoutSends
<1> HIDE DEF lo
<1>3. Whole(gone) /\ Sends(lo, gone)
  BY <1>2, GoneSends
<1> HIDE DEF gone
<1>4. Sends(t, gone)
  BY <1>1, <1>2, <1>3, ThenSends
<1>5. Good(c, gone, K, R, low) /\ gone.queue = t.queue
  BY ZenonT(30), <1>1, <1>3, <1>4, SendsGood DEF Sends, SameBook
<1>6. Good(c, r, K, R, low) /\ (r.queue = {} \/ r = gone)
  BY ZenonT(30), <1>5, ResetOnErrorGood
<1> HIDE DEF r
<1>7. Whole(u) /\ Sends(r, u)
  BY <1>6, DisconnectSends DEF Good
<1>8. u.queue = r.queue
  BY <1>7 DEF Sends, SameBook
<1>9. u = logout_on_error(c, t)
  BY DEF logout_on_error, r, gone, lo
<1>10. Good(c, u, K, R, low) /\ Keeps(t, u) /\ u.state = "Disconnected"
  BY <1>9, LogoutOnErrorGood
<1> HIDE DEF u
<1>11. u.queue \subseteq t.queue \cup {m}
  BY <1>5, <1>6, <1>8
<1>12. QED BY <1>9, <1>10, <1>11 DEF Handled, Keeps, Ahead

LEMMA InOrderGood ==
  ASSUME NEW c \in Config, NEW t, NEW K, NEW R, NEW low \in Nat, Good(c, t, K, R, low),
         NoReplay(t), ~DidReset(t), NEW m \in Message, m.seq = t.next_in, m.seq \in K
  PROVE  LET u == on_in_order(c, t, m)
         IN  Handled(c, t, u, m, K, R, low) /\ (Keyed(t) /\ Ahead(t) => Ahead(u))
<1> DEFINE u == on_in_order(c, t, m)
<1>1. Whole(t) /\ t.next_in \in Nat /\ (\A x \in t.queue : x.seq \in Nat)
  BY ZenonT(30), WholeTypes DEF Good
<1>2. CASE IsInvalid(m)
  <2> DEFINE v == RefuseInvalid(c, t, m)
             w == drain_queue(c, v)
  <2>1. /\ Good(c, v, K, R, low) /\ Keeps(t, v) /\ v.queue \subseteq t.queue
        /\ c.disconnect_on_error => v.state = "Disconnected"
        /\ Ahead(t) => NotPast(v)
    <3>1. Refused(c, t, v, K, R, low)
      BY ZenonT(30), RefuseInvalidGood
    <3> HIDE DEF v
    <3>2. QED BY <3>1 DEF Refused
  <2>2. u = IF c.disconnect_on_error THEN v ELSE w
    BY <1>2 DEF on_in_order
  <2> HIDE DEF v, u
  <2>3. /\ Good(c, w, K, R, low) /\ Keeps(v, w) /\ w.queue \subseteq v.queue
        /\ Keyed(v) /\ NotPast(v) => Ahead(w)
    BY ZenonT(30), <2>1, DrainGood
  <2> HIDE DEF w
  <2>4. CASE c.disconnect_on_error
    BY ZenonT(30), <2>1, <2>2, <2>4 DEF Handled, Keeps, Ahead, u
  <2>5. CASE ~c.disconnect_on_error
    BY <2>1, <2>2, <2>3, <2>5 DEF Handled, Keeps, u
  <2>6. QED BY ZenonT(30), <2>4, <2>5
<1>3. CASE ~IsInvalid(m)
  <2> DEFINE v == process_in_order(c, t, m)
             k == [v EXCEPT !.next_in = @ + 1]
             w == drain_queue(c, k)
  <2>1. u = w
    BY <1>3 DEF on_in_order
  <2>2. /\ Good(c, v, K, R, low)
        /\ Keyed(t) => Keyed(v)
        /\ t.state = "Disconnected" => v.state = "Disconnected"
        /\ DidReset(v) => LogoutPending(c, v) /\ v.queue = {}
        /\ ~DidReset(v) => v.queue = t.queue /\ v.next_in = t.next_in
    <3>1. CASE m.type = "ResendRequest"
      <4>1. v = on_resend_request(c, t, m)
        BY <3>1 DEF process_in_order
      <4> HIDE DEF v
      <4>2. QED BY <4>1, ResendRequestGood DEF Keyed
    <3>2. CASE m.type # "ResendRequest"
      <4>1. /\ Good(c, v, K, R, low) /\ Keeps(t, v)
            /\ DidReset(v) => LogoutPending(c, v) /\ v.queue = {}
            /\ ~DidReset(v) => v.queue = t.queue /\ v.next_in = t.next_in
        BY <3>2, ProcessGood
      <4> HIDE DEF v
      <4>2. QED BY ZenonT(30), <4>1 DEF Keeps
    <3>3. QED BY ZenonT(30), <3>1, <3>2
  <2> HIDE DEF v
  <2>3. /\ Good(c, k, K, R, low) /\ Keeps(v, k)
        /\ k.next_in = v.next_in + 1 /\ k.queue = v.queue /\ k.state = v.state
    BY <2>2, CountedGood
  <2> HIDE DEF k
  <2>4. /\ Good(c, w, K, R, low) /\ Keeps(k, w) /\ w.queue \subseteq k.queue
        /\ Keyed(k) /\ NotPast(k) => Ahead(w)
    BY ZenonT(30), <2>3, DrainGood
  <2> HIDE DEF w, u
  <2>5. Ahead(t) => NotPast(k)
    <3>1. CASE DidReset(v)
      BY <2>2, <2>3, <3>1, EmptyOrder
    <3>2. CASE ~DidReset(v)
      <4>1. k.next_in = t.next_in + 1 /\ k.queue = t.queue
        BY ZenonT(30), <2>2, <2>3, <3>2
      <4>2. k.state # "Disconnected" => t.state # "Disconnected"
        BY ZenonT(30), <2>2, <2>3
      <4>3. QED BY <1>1, <4>1, <4>2 DEF NotPast, Ahead
    <3>3. QED BY <3>1, <3>2
  <2>6. w.queue \subseteq t.queue
    BY ZenonT(30), <2>2, <2>3, <2>4
  <2>7. QED BY ZenonT(30), <2>1, <2>2, <2>3, <2>4, <2>5, <2>6 DEF Handled, Keeps, u
<1>4. QED BY ZenonT(30), <1>2, <1>3

LEMMA TooHighGood ==
  ASSUME NEW c \in Config, NEW t, NEW K, NEW R, NEW low \in Nat, Good(c, t, K, R, low),
         NoReplay(t), ~DidReset(t), NEW m \in Message, m.seq > t.next_in, Accounted(m, K)
  PROVE  LET u == on_too_high(c, t, m)
         IN  Handled(c, t, u, m, K, R, low) /\ (Ahead(t) => Ahead(u))
<1> DEFINE answered == IF m.type = "ResendRequest" THEN on_resend_request(c, t, m) ELSE t
           target == IF c.chunk_size > 0 THEN MaxOf(answered.resend_target, m.seq)
                                         ELSE answered.resend_target
           waiting == Put(answered.queue, m)
           queued == [answered EXCEPT !.queue = waiting, !.resend_target = target]
           v == StartResend(c, queued, m.seq)
           u == on_too_high(c, t, m)
<1>1. Whole(t) /\ t.next_in \in Nat /\ (\A x \in t.queue : x.seq \in Nat) /\ m.seq \in Nat
  BY ZenonT(30), WholeTypes DEF Good, Message
<1>2. /\ Good(c, answered, K, R, low) /\ answered.queue = t.queue
      /\ answered.next_in = t.next_in /\ ~DidReset(answered)
      /\ t.state = "Disconnected" => answered.state = "Disconnected"
  BY ResendRequestGood
<1>3. Whole(answered)
  BY <1>2 DEF Good
<1>4. (m.type = "Logout" /\ u = on_logout_msg(c, t)) \/ u \in {v, queued}
  <2> HIDE DEF answered
  <2>1. queued = [answered EXCEPT
                    !.queue = Put(@, m),
                    !.resend_target = IF c.chunk_size > 0 THEN MaxOf(@, m.seq) ELSE @]
    BY <1>3 DEF Whole, Sound, Typed
  <2> HIDE DEF queued
  <2>2. QED BY <2>1 DEF on_too_high, answered
<1> HIDE DEF answered
<1>5. answered.resend_target \in Nat \cup {Absent} /\ answered.queue \in SUBSET Message
  BY <1>3 DEF Whole, Sound, Typed
<1>6. target \in Nat \cup {Absent}
  BY <1>1, <1>5 DEF MaxOf, Absent
<1>7. waiting \in SUBSET Message /\ IsFiniteSet(waiting)
  BY ZenonT(30), <1>3, <1>5, PutUnique DEF Whole, Sound
<1>8. waiting = {x \in t.queue : x.seq # m.seq} \cup {m}
  BY ZenonT(30), <1>2 DEF Put
<1> HIDE DEF target, waiting
<1>9. /\ queued.queue = waiting /\ queued.store = answered.store
      /\ queued.next_out = answered.next_out /\ queued.acts = answered.acts
      /\ queued.next_in = answered.next_in /\ queued.state = answered.state
      /\ queued.logon_sent = answered.logon_sent
      /\ queued.last_disconnect_reason = answered.last_disconnect_reason
  BY <1>3 DEF Whole, Sound, Typed
<1>10. Typed(queued)
  BY <1>3, <1>6, <1>7, ZenonT(40) DEF Whole, Sound, Typed
<1> HIDE DEF queued
<1>11. Sound(queued)
  BY ZenonT(30), <1>3, <1>7, <1>9, <1>10 DEF Whole, Sound, InOrder
<1>12. ~DidReset(queued)
  BY ZenonT(30), <1>2, <1>9 DEF DidReset
<1>13. Covered(c, queued, K, R, low)
  <2>1. queued.next_in >= low /\ Below(queued, K)
    BY ZenonT(30), <1>2, <1>9 DEF Good, Covered, Below
  <2>2. \A x \in queued.queue : Accounted(x, K)
    BY ZenonT(30), <1>2, <1>8, <1>9 DEF Good, Covered
  <2>3. QED BY ZenonT(30), <1>12, <2>1, <2>2 DEF Covered
<1>14. Good(c, queued, K, R, low)
  BY <1>2, <1>9, <1>11, <1>13, MovesGood
<1>15. Handled(c, t, queued, m, K, R, low)
  <2>1. Keyed(t) => Keyed(queued)
    BY <1>8, <1>9 DEF Keyed
  <2>2. queued.queue \subseteq t.queue \cup {m}
    BY <1>8, <1>9
  <2>3. QED BY <1>14, <2>1, <2>2 DEF Handled
<1>16. Ahead(t) => Ahead(queued)
  BY ZenonT(30), <1>1, <1>2, <1>8, <1>9 DEF Ahead
<1>17. CASE u = queued
  BY <1>15, <1>16, <1>17 DEF u
<1>18. CASE u = v
  <2>1. Whole(v) /\ Sends(queued, v)
    BY ZenonT(30), <1>1, <1>14, StartResendSends DEF Good
  <2> HIDE DEF v
  <2>2. Handled(c, queued, v, m, K, R, low) /\ (Ahead(queued) => Ahead(v))
    BY <1>14, <2>1, SendsHandled
  <2>3. v.queue = queued.queue
    BY ZenonT(30), <2>1 DEF Sends, SameBook
  <2>4. Handled(c, t, v, m, K, R, low)
    BY ZenonT(30), <1>15, <2>2, <2>3 DEF Handled
  <2>5. QED BY ZenonT(30), <1>16, <1>18, <2>2, <2>4 DEF u
<1>19. CASE u = on_logout_msg(c, t)
  <2> HIDE DEF u
  <2>1. /\ Good(c, u, K, R, low) /\ Keeps(t, u) /\ u.state = "Disconnected"
        /\ DidReset(u) => u.queue = {}
        /\ ~DidReset(u) => u.queue = t.queue
    BY ZenonT(30), <1>19, LogoutMsgGood
  <2>2. u.queue \subseteq t.queue \cup {m}
    BY ZenonT(30), <2>1
  <2>3. QED BY ZenonT(30), <2>1, <2>2 DEF Handled, Keeps, Ahead, u
<1>20. QED BY ZenonT(30), <1>4, <1>17, <1>18, <1>19

LEMMA StaysHandled ==
  ASSUME NEW c, NEW t, NEW m, NEW K, NEW R, NEW low, Good(c, t, K, R, low)
  PROVE  Handled(c, t, t, m, K, R, low)
BY ZenonT(30) DEF Handled

LEMMA TooLowGood ==
  ASSUME NEW c \in Config, NEW t, NEW K, NEW R, NEW low \in Nat, Good(c, t, K, R, low),
         NEW m
  PROVE  LET u == on_too_low(c, t, m)
         IN  Handled(c, t, u, m, K, R, low) /\ (Ahead(t) => Ahead(u))
<1> DEFINE u == on_too_low(c, t, m)
           v == session_reject_before_logout(c, t)
<1>1. Whole(t)
  BY DEF Good
<1>2. Whole(v) /\ Sends(t, v)
  BY <1>1, RejectThenLogoutSends
<1>3. Handled(c, t, v, m, K, R, low) /\ (Ahead(t) => Ahead(v))
  BY <1>2, SendsHandled
<1>4. u \in {logout_on_error(c, t), v, t}
  BY DEF on_too_low
<1>5. QED BY <1>3, <1>4, LogoutOnErrorHandled, StaysHandled

\* The skipped numbers that a SequenceReset declares are all in K, and one that
\* is refused ends the connection or resets the session.
LEMMA SequenceResetGood ==
  ASSUME NEW c \in Config, NEW t, NEW K, NEW R, NEW low \in Nat, Good(c, t, K, R, low),
         NoReplay(t), ~DidReset(t), NEW m \in Message, m.seq \in K,
         t.next_in..(m.num - 1) \subseteq K
  PROVE  LET u == on_sequence_reset(c, t, m)
         IN  /\ Handled(c, t, u, m, K, R, low)
             /\ (/\ Keyed(t) /\ Ahead(t)
                 /\ IsInvalid(m) => c.disconnect_on_error \/ c.reset_on_error)
                => Ahead(u)
<1> DEFINE u == on_sequence_reset(c, t, m)
           refused == RefuseInvalid(c, t, m)
           told == build_session_reject(c, t)
           g == apply_gap_fill_new_seq(t, m.num)
<1>1. Whole(t) /\ m.num \in OptNat /\ t.next_in \in Nat /\ \A x \in t.queue : x.seq \in Nat
  BY ZenonT(30), WholeTypes DEF Good, Message
<1>2. \/ IsInvalid(m) /\ u = refused
      \/ ~IsInvalid(m) /\ u \in {told, drain_queue(c, t), drain_queue(c, g)}
  BY DEF on_sequence_reset
<1> HIDE DEF u
<1>3. Ahead(t) => NotPast(t)
  BY <1>1 DEF Ahead, NotPast
<1>4. CASE IsInvalid(m) /\ u = refused
  <2> HIDE DEF refused
  <2>1. /\ Good(c, refused, K, R, low) /\ Keeps(t, refused)
        /\ refused.queue \subseteq t.queue
        /\ c.disconnect_on_error => refused.state = "Disconnected"
        /\ c.reset_on_error => refused.queue = {}
    <3>1. Refused(c, t, refused, K, R, low)
      BY ZenonT(30), RefuseInvalidGood DEF refused
    <3>2. QED BY ZenonT(30), <3>1 DEF Refused
  <2>2. c.disconnect_on_error \/ c.reset_on_error => Ahead(refused)
    BY ZenonT(30), <2>1 DEF Ahead
  <2>3. QED BY ZenonT(30), <1>4, <2>1, <2>2 DEF Handled, Keeps, u
<1>5. CASE u = told
  <2>1. Whole(told) /\ Sends(t, told)
    BY ZenonT(30), <1>1, RejectSends
  <2>2. QED BY ZenonT(30), <1>5, <2>1, SendsHandled DEF u
<1>6. CASE u = drain_queue(c, t)
  <2>1. /\ Good(c, u, K, R, low) /\ Keeps(t, u) /\ u.queue \subseteq t.queue
        /\ Keyed(t) /\ NotPast(t) => Ahead(u)
    BY ZenonT(30), <1>6, DrainGood
  <2>2. QED BY ZenonT(30), <1>3, <2>1 DEF Handled, Keeps, u
<1>7. CASE u = drain_queue(c, g)
  <2>1. /\ Good(c, g, K, R, low) /\ Keeps(t, g) /\ g.queue \subseteq t.queue
        /\ NotPast(t) => NotPast(g)
    BY ZenonT(30), <1>1, GapFillGood
  <2> HIDE DEF g
  <2>2. /\ Good(c, u, K, R, low) /\ Keeps(g, u) /\ u.queue \subseteq g.queue
        /\ Keyed(g) /\ NotPast(g) => Ahead(u)
    BY ZenonT(30), <1>7, <2>1, DrainGood
  <2>3. QED BY ZenonT(30), <1>3, <2>1, <2>2 DEF Handled, Keeps, u
<1>8. QED BY ZenonT(30), <1>2, <1>4, <1>5, <1>6, <1>7

-----------------------------------------------------------------------------
(***************************************************************************)
(* The Logon handshake.                                                    *)
(***************************************************************************)
LEMMA LoggedOnGood ==
  ASSUME NEW c, NEW t, NEW K, NEW R, NEW low, Good(c, t, K, R, low),
         t.state # "Disconnected",
         NEW u, Sound(u), u.acts = t.acts, u.next_out = t.next_out, u.store = t.store,
         u.queue = t.queue, u.next_in = t.next_in, u.state = "LoggedOn"
  PROVE  /\ Good(c, u, K, R, low) /\ (NoReplay(t) => NoReplay(u))
         /\ DidReset(u) <=> DidReset(t)
<1>1. Whole(u)
  BY DEF Good, Whole
<1>2. DidReset(u) <=> DidReset(t)
  BY ZenonT(30) DEF DidReset
<1>3. Gapless(u)
  BY ZenonT(30), <1>2 DEF Good, Gapless
<1>4. Covered(c, u, K, R, low)
  BY ZenonT(30), <1>2 DEF Good, Covered, Below, LogoutPending
<1>5. QED BY ZenonT(30), <1>1, <1>2, <1>3, <1>4 DEF Good, Fresh, NoReplay

LEMMA CompleteLogonGood ==
  ASSUME NEW c \in Config, NEW t, NEW K, NEW R, NEW low, Good(c, t, K, R, low),
         NoReplay(t), t.state # "Disconnected", NEW m \in Message,
         c.role = "Acceptor" => m.end \in Nat
  PROVE  LET u == CompleteLogon(c, t, m)
         IN  /\ Good(c, u, K, R, low) /\ NoReplay(u)
             /\ u.queue = t.queue /\ u.next_in = t.next_in
<1>1. Whole(t) /\ Sound(t)
  BY DEF Good, Whole
<1>2. CASE c.role = "Initiator"
  <2> DEFINE u == [t EXCEPT !.reset_on_logon_pending = FALSE, !.state = "LoggedOn"]
  <2>1. CompleteLogon(c, t, m) = u
    BY <1>2 DEF CompleteLogon
  <2>2. Sound(u)
    BY <1>2, <1>1, <2>1, CompleteLogonSound
  <2>3. /\ u.acts = t.acts /\ u.next_out = t.next_out /\ u.store = t.store
        /\ u.queue = t.queue /\ u.next_in = t.next_in /\ u.state = "LoggedOn"
    BY <1>1 DEF Sound, Typed
  <2> HIDE DEF u
  <2>4. Good(c, u, K, R, low) /\ NoReplay(u)
    BY <2>2, <2>3, LoggedOnGood
  <2>5. QED BY <2>1, <2>3, <2>4
<1>3. CASE c.role # "Initiator"
  <2> DEFINE v == [t EXCEPT !.heartbeat_interval = m.end, !.state = "LoggedOn",
                            !.logon_sent = TRUE]
             logon == logon_with_reset_flag(m.end, maybe_next_expected(c, t), m.flag)
             u == send_stored(c, v, logon)
  <2>1. m.end \in Nat /\ m.flag \in BOOLEAN
    BY <1>3 DEF Config, Message
  <2>2. logon \in Message
    BY <1>1, <2>1, LogonType DEF OptNat
  <2>3. logon.type = "Logon"
    BY DEF logon_with_reset_flag, base
  <2> HIDE DEF logon
  <2>4. Typed(v)
    BY <1>1, <2>1, ZenonT(40) DEF Sound, Typed, States
  <2>5. /\ v.acts = t.acts /\ v.next_out = t.next_out /\ v.store = t.store
        /\ v.queue = t.queue /\ v.next_in = t.next_in /\ v.state = "LoggedOn"
    BY <1>1 DEF Sound, Typed
  <2> HIDE DEF v
  <2>6. Sound(v)
    BY ZenonT(30), <1>1, <2>4, <2>5, KeepsSound
  <2>7. Good(c, v, K, R, low) /\ NoReplay(v)
    BY <2>5, <2>6, LoggedOnGood
  <2>8. Whole(v)
    BY <2>7 DEF Good
  <2>9. Whole(u) /\ Sends(v, u)
    BY <2>2, <2>3, <2>8, SendStoredSends
  <2>10. CompleteLogon(c, t, m) = u
    BY <1>3 DEF CompleteLogon, v, logon
  <2> HIDE DEF u
  <2>11. Good(c, u, K, R, low) /\ Keeps(v, u) /\ u.queue = v.queue /\ u.next_in = v.next_in
    BY ZenonT(30), <2>7, <2>8, <2>9, SendsGood, SendsKeeps DEF Sends, SameBook
  <2>12. QED BY <2>5, <2>7, <2>10, <2>11 DEF Keeps
<1>4. QED BY ZenonT(30), <1>2, <1>3

\* The rest of an accepted Logon, from the session `stored' in which the
\* numbers are settled.
LEMMA AnswerGood ==
  ASSUME NEW c \in Config, NEW stored, NEW K, NEW R, NEW low \in Nat,
         Good(c, stored, K, R, low), NoReplay(stored), stored.state # "Disconnected",
         NEW m \in Message, c.role = "Acceptor" => m.end \in Nat,
         NEW expected \in BOOLEAN, NEW ahead \in BOOLEAN, ~(expected /\ ahead),
         NEW on, on = CompleteLogon(c, stored, m),
         NEW synced, synced = CASE expected -> drain_queue(c, on)
                                [] ahead /\ ~on.resend_requested -> StartResend(c, on, m.seq)
                                [] OTHER -> on,
         NEW u,
         \/ ahead /\ u \in {StartResend(c, stored, m.seq), stored}
         \/ u = reject_logon([stored EXCEPT !.reset_on_logon_pending = FALSE])
         \/ u = synced
         \/ /\ m.num > 0 /\ m.num < synced.next_out
            /\ u = build_resend(c, synced, m.num, synced.next_out - 1)
  PROVE  /\ Good(c, u, K, R, low)
         /\ Keyed(stored) => Keyed(u)
         /\ u.queue \subseteq stored.queue
         /\ (Keyed(stored) /\ NotPast(stored) /\ (~expected => Ahead(stored))) => Ahead(u)
<1> DEFINE P(v) == /\ Good(c, v, K, R, low)
                   /\ Keyed(stored) => Keyed(v)
                   /\ v.queue \subseteq stored.queue
                   /\ (/\ Keyed(stored) /\ NotPast(stored)
                       /\ ~expected => Ahead(stored)) => Ahead(v)
           settled == [stored EXCEPT !.reset_on_logon_pending = FALSE]
<1>1. Whole(stored) /\ m.seq \in Nat /\ m.num \in Int
  BY DEF Good, Message, OptNat, Absent, Malformed
<1>2. CASE ahead /\ u = stored
  BY <1>2
<1>3. CASE ahead /\ u = StartResend(c, stored, m.seq)
  <2>1. Whole(u) /\ Sends(stored, u)
    BY <1>1, <1>3, StartResendSends
  <2>2. /\ Good(c, u, K, R, low) /\ u.queue = stored.queue
        /\ Keyed(stored) => Keyed(u)
        /\ Ahead(stored) => Ahead(u)
    BY ZenonT(30), <2>1, SendsGood, SendsOrder DEF Sends, SameBook
  <2>3. QED BY <1>3, <2>2
<1>4. CASE u = reject_logon(settled)
  <2>1. /\ Typed(settled) /\ settled.acts = stored.acts /\ settled.store = stored.store
        /\ settled.next_out = stored.next_out /\ SameBook(stored, settled)
        /\ settled.queue = stored.queue
    BY ZenonT(30), <1>1 DEF Whole, Sound, Typed, SameBook
  <2> HIDE DEF settled
  <2>2. Whole(settled) /\ Sends(stored, settled)
    BY ZenonT(30), <1>1, <2>1, KeepsSound, SilentSends DEF Whole
  <2>3. Whole(u) /\ Sends(settled, u) /\ u.state = "Disconnected"
    BY <1>4, <2>2, RejectLogonSends
  <2>4. Sends(stored, u)
    BY <1>1, <2>2, <2>3, ThenSends
  <2>5. QED BY ZenonT(30), <2>3, <2>4, SendsGood, SendsOrder DEF Sends, SameBook, Ahead
<1>5. /\ Good(c, on, K, R, low) /\ NoReplay(on)
      /\ on.queue = stored.queue /\ on.next_in = stored.next_in
  BY CompleteLogonGood
<1>6. Whole(on) /\ stored.state # "Disconnected"
  BY <1>5 DEF Good
<1>7. /\ Keyed(stored) => Keyed(on)
      /\ NotPast(stored) => NotPast(on)
      /\ Ahead(stored) => Ahead(on)
  BY ZenonT(30), <1>5, <1>6 DEF Keyed, NotPast, Ahead
<1>8. P(synced) /\ NoReplay(synced)
  <2>1. CASE expected
    <3>1. synced = drain_queue(c, on)
      BY <2>1
    <3>2. /\ Good(c, synced, K, R, low) /\ Keeps(on, synced)
          /\ synced.queue \subseteq on.queue
          /\ Keyed(on) /\ NotPast(on) => Ahead(synced)
      BY <1>5, <3>1, DrainGood
    <3>3. QED BY ZenonT(30), <1>5, <1>7, <3>2 DEF Keeps
  <2>2. CASE ~expected /\ ahead /\ ~on.resend_requested
    <3>1. synced = StartResend(c, on, m.seq)
      <4> DEFINE w == StartResend(c, on, m.seq)
                 d == drain_queue(c, on)
      <4> HIDE DEF w, d
      <4>1. synced = CASE expected -> d
                       [] ahead /\ ~on.resend_requested -> w
                       [] OTHER -> on
        BY DEF w, d
      <4>2. QED BY <2>2, <4>1 DEF w
    <3>2. Whole(synced) /\ Sends(on, synced)
      <4>1. Whole(StartResend(c, on, m.seq)) /\ Sends(on, StartResend(c, on, m.seq))
        BY <1>1, <1>6, StartResendSends
      <4>2. QED BY <3>1, <4>1, ZenonT(30)
    <3>3. /\ Good(c, synced, K, R, low) /\ Keeps(on, synced)
          /\ Ahead(on) => Ahead(synced)
          /\ synced.queue = on.queue
      <4>1. Good(c, synced, K, R, low)
        BY <1>5, <3>2, SendsGood
      <4>2. Keeps(on, synced) /\ (Ahead(on) => Ahead(synced))
        BY <1>6, <3>2, SendsKeeps, SendsOrder
      <4>3. synced.queue = on.queue
        BY ZenonT(30), <3>2 DEF Sends, SameBook
      <4>4. QED BY <4>1, <4>2, <4>3
    <3>4. QED BY <1>5, <1>7, <2>2, <3>3 DEF Keeps
  <2>3. CASE ~expected /\ ~(ahead /\ ~on.resend_requested)
    <3>1. synced = on
      BY <2>3
    <3>2. QED BY <1>5, <1>7, <2>3, <3>1
  <2>4. QED BY ZenonT(30), <2>1, <2>2, <2>3
<1>9. CASE u = synced
  BY <1>8, <1>9
<1>10. CASE /\ m.num > 0 /\ m.num < synced.next_out
            /\ u = build_resend(c, synced, m.num, synced.next_out - 1)
  <2>1. Whole(synced) /\ synced.next_out \in Nat \ {0}
    BY ZenonT(30), <1>8, WholeTypes DEF Good
  <2>2. /\ m.num \in Nat \ {0} /\ synced.next_out - 1 \in Nat
        /\ synced.next_out - 1 < synced.next_out
    BY <1>1, <1>10, <2>1
  <2>3. /\ Good(c, u, K, R, low) /\ u.queue = synced.queue /\ u.next_in = synced.next_in
        /\ u.state = synced.state
    <3>1. Good(c, synced, K, R, low) /\ NoReplay(synced)
      BY ZenonT(30), <1>8
    <3>2. Resent(c, synced, build_resend(c, synced, m.num, synced.next_out - 1), K, R, low)
      BY ZenonT(30), <2>2, <3>1, ResendGood
    <3>3. Resent(c, synced, u, K, R, low)
      BY ZenonT(30), <1>10, <3>2
    <3>4. QED BY ZenonT(30), <3>3 DEF Resent
  <2>4. (Keyed(synced) => Keyed(u)) /\ (Ahead(synced) => Ahead(u))
    BY ZenonT(30), <2>3 DEF Keyed, Ahead
  <2>5. QED BY ZenonT(30), <1>8, <2>3, <2>4
<1>11. QED BY ZenonT(30), <1>2, <1>3, <1>4, <1>9, <1>10

\* m is counted if it is the expected one.
LEMMA MaybeCountedGood ==
  ASSUME NEW c, NEW t, NEW K, NEW R, NEW low \in Nat, Good(c, t, K, R, low),
         ~DidReset(t), NEW m, m.seq = t.next_in => m.seq \in K
  PROVE  LET u == [t EXCEPT !.next_in = IF m.seq = @ THEN @ + 1 ELSE @]
         IN  /\ Good(c, u, K, R, low) /\ Keeps(t, u) /\ ~DidReset(u)
             /\ u.queue = t.queue /\ u.state = t.state
             /\ Ahead(t) => NotPast(u)
             /\ (Ahead(t) /\ m.seq # t.next_in) => Ahead(u)
<1> DEFINE u == [t EXCEPT !.next_in = IF m.seq = @ THEN @ + 1 ELSE @]
<1>1. Whole(t) /\ t.next_in \in Nat /\ \A x \in t.queue : x.seq \in Nat
  BY ZenonT(30), WholeTypes DEF Good
<1>2. CASE m.seq = t.next_in
  <2> DEFINE v == [t EXCEPT !.next_in = @ + 1]
  <2>1. u = v
    BY <1>2
  <2>2. /\ Good(c, v, K, R, low) /\ Keeps(t, v)
        /\ v.next_in = t.next_in + 1 /\ v.queue = t.queue
        /\ v.state = t.state /\ ~DidReset(v)
    BY ZenonT(30), <1>2, CountedGood
  <2> HIDE DEF v
  <2>3. Ahead(t) => NotPast(v)
    BY <1>1, <2>2 DEF Ahead, NotPast
  <2>4. QED BY <1>2, <2>1, <2>2, <2>3
<1>3. CASE m.seq # t.next_in
  <2>1. u = t
    BY <1>1, <1>3 DEF Whole, Sound, Typed
  <2>2. QED BY <1>1, <2>1 DEF Ahead, NotPast, Keeps
<1>4. QED BY <1>2, <1>3

\* A Logon that resets: the numbers start again, and m counts if it is number 1.
LEMMA ResetSettled ==
  ASSUME NEW c, NEW t, Whole(t), NoReplay(t), Fresh(c, t), ~DidReset(t),
         t.state = "AwaitingLogon", NEW m \in Message,
         NEW K, NEW R, m.seq \in R, NEW low \in Nat,
         t.logon_sent => m.seq \in K /\ low <= 1
  PROVE  LET full == ~t.logon_sent
             r == reset_sequences(t, full)
             counted == [r EXCEPT !.next_in = IF m.seq = r.next_in THEN @ + 1 ELSE @]
             stored == IF full THEN ResetStore(counted) ELSE counted
         IN  /\ Good(c, stored, K, R, low) /\ NoReplay(stored)
             /\ stored.state = "AwaitingLogon" /\ stored.queue = {}
<1> DEFINE full == ~t.logon_sent
           r == reset_sequences(t, full)
           expected == m.seq = r.next_in
           counted == [r EXCEPT !.next_in = IF expected THEN @ + 1 ELSE @]
           a == [op |-> "reset_store", msg |-> base("Logon")]
           stored == ResetStore(counted)
<1>1. t.logon_sent \in BOOLEAN /\ Sound(t) /\ m.seq \in Nat
  BY ZenonT(30) DEF Whole, Sound, Typed, Message
<1>2. Sound(r)
  BY ZenonT(30), <1>1, ResetSequencesSound
<1>3. /\ r.acts = t.acts /\ r.next_in = 1 /\ r.queue = {} /\ r.state = t.state
      /\ r.logon_sent = t.logon_sent
  BY <1>1 DEF reset_sequences, Sound, Typed
<1> HIDE DEF r
<1>4. expected \in BOOLEAN
  OBVIOUS
<1>5. Sound(counted)
  <2> HIDE DEF expected
  <2>1. QED BY ZenonT(30), <1>2, <1>4, CountedSound
<1>6. /\ counted.acts = t.acts /\ counted.queue = {} /\ counted.state = t.state
      /\ counted.next_in = IF m.seq = 1 THEN 2 ELSE 1
      /\ counted.logon_sent = t.logon_sent
  BY <1>2, <1>3 DEF Sound, Typed
<1> HIDE DEF counted
<1>7. Whole(counted) /\ ~DidReset(counted) /\ NoReplay(counted) /\ Fresh(c, counted)
  BY ZenonT(30), <1>5, <1>6 DEF Whole, DidReset, NoReplay, Fresh
<1>8. Below(counted, R)
  BY <1>1, <1>6 DEF Below
<1>9. CASE t.logon_sent
  <2>1. Covered(c, counted, K, R, low)
    BY <1>1, <1>6, <1>7, <1>9 DEF Covered, Below
  <2>2. Good(c, counted, K, R, low)
    BY ZenonT(30), <1>7, <2>1 DEF Good, Gapless, NoReplay
  <2>3. QED BY ZenonT(30), <1>6, <1>7, <1>9, <2>2 DEF counted, r
<1>10. CASE ~t.logon_sent
  <2>1. Sound(stored)
    BY <1>5, EmitSound DEF ResetStore
  <2>2. /\ stored.acts = Append(counted.acts, a) /\ stored.queue = {}
        /\ stored.state = t.state /\ stored.next_in = counted.next_in
        /\ stored.logon_sent = t.logon_sent
    BY <1>5, <1>6 DEF ResetStore, Emit, Sound, Typed
  <2> HIDE DEF stored
  <2>3. base("Logon") \in Message
    BY AdminTyped
  <2>4. a \in Action /\ a.op = "reset_store"
    BY <2>3 DEF Action
  <2> HIDE DEF a
  <2> DEFINE L == Len(counted.acts)
  <2>5. L \in Nat /\ DOMAIN counted.acts = 1..L /\ counted.acts \in Seq(Action)
    BY ZenonT(30), <1>7, WholeTypes DEF Whole
  <2>6. /\ stored.acts \in Seq(Action) /\ DOMAIN stored.acts = 1..(L + 1)
        /\ stored.acts[L + 1] = a
        /\ \A i \in 1..L : stored.acts[i] = counted.acts[i]
    BY <2>2, <2>4, <2>5
  <2> HIDE DEF L
  <2>7. DidReset(stored)
    BY <2>4, <2>5, <2>6 DEF DidReset
  <2>8. NoReplay(stored)
    BY <1>7, <2>4, <2>5, <2>6 DEF NoReplay, Replayed
  <2>9. Below(stored, R)
    BY <1>8, <2>2 DEF Below
  <2>10. Covered(c, stored, K, R, low)
    BY ZenonT(30), <2>2, <2>7, <2>9 DEF Covered
  <2>11. Good(c, stored, K, R, low)
    BY ZenonT(30), <1>10, <2>1, <2>2, <2>6, <2>7, <2>10 DEF Good, Whole, Gapless, Fresh
  <2>12. QED BY ZenonT(30), <1>10, <2>2, <2>8, <2>11 DEF stored, counted, r
<1>11. QED BY ZenonT(30), <1>1, <1>9, <1>10

\* The session after an accepted Logon m: if m carries ResetSeqNumFlag only m
\* is counted from now on.
LEMMA AcceptLogonGood ==
  ASSUME NEW c \in Config, NEW t, NEW K, NEW R, NEW low \in Nat, Good(c, t, K, R, low),
         NoReplay(t), ~DidReset(t), t.state = "AwaitingLogon", NEW m \in Message,
         m.seq \in K, m.seq \in R, c.role = "Acceptor" => m.end \in Nat
  PROVE  LET u == AcceptLogon(c, t, m)
         IN  /\ ~m.flag => Handled(c, t, u, m, K, R, low)
             /\ m.flag => Good(c, u, {m.seq}, {m.seq}, 1) /\ u.queue = {}
             /\ Keyed(t) /\ Ahead(t) => Ahead(u)
<1> DEFINE resets == m.flag \/ acceptor_forces_reset(c)
           full == ~t.logon_sent
           r == IF resets THEN reset_sequences(t, full) ELSE t
           expected == m.seq = r.next_in
           ahead == m.seq > r.next_in
           counted == [r EXCEPT !.next_in = IF expected THEN @ + 1 ELSE @]
           stored == IF resets /\ full THEN ResetStore(counted) ELSE counted
           on == CompleteLogon(c, stored, m)
           synced == CASE expected -> drain_queue(c, on)
                       [] ahead /\ ~on.resend_requested -> StartResend(c, on, m.seq)
                       [] OTHER -> on
           settled == [stored EXCEPT !.reset_on_logon_pending = FALSE]
           u == AcceptLogon(c, t, m)
<1>1. Whole(t) /\ Fresh(c, t) /\ m.seq \in Nat /\ m.flag \in BOOLEAN
      /\ t.logon_sent \in BOOLEAN /\ t.next_in \in Nat
  BY ZenonT(30) DEF Good, Whole, Sound, Typed, Message
<1>2. r.next_in \in Nat
  BY ZenonT(30), <1>1, ResetSequencesSound DEF Whole, Sound, Typed
<1>3. expected \in BOOLEAN /\ ahead \in BOOLEAN /\ ~(expected /\ ahead)
  BY <1>1, <1>2
<1>4. \/ ahead /\ u \in {StartResend(c, stored, m.seq), stored}
      \/ u = reject_logon(settled)
      \/ u = synced
      \/ /\ m.num > 0 /\ m.num < synced.next_out
         /\ u = build_resend(c, synced, m.num, synced.next_out - 1)
  <2> HIDE DEF resets, full, r, expected, ahead, counted, stored, on, synced, settled
  <2>1. QED BY ZenonT(60) DEF AcceptLogon, settled, synced, on, stored, counted, ahead,
                              expected, r, full, resets
<1>5. resets /\ ~m.flag => full
  BY <1>1 DEF Fresh, acceptor_forces_reset
<1>6. ASSUME NEW K1, NEW R1, NEW low1 \in Nat, Good(c, stored, K1, R1, low1),
             NoReplay(stored), stored.state = "AwaitingLogon"
      PROVE  /\ Good(c, u, K1, R1, low1)
             /\ Keyed(stored) => Keyed(u)
             /\ u.queue \subseteq stored.queue
             /\ (Keyed(stored) /\ NotPast(stored) /\ (~expected => Ahead(stored))) => Ahead(u)
  <2>1. on = CompleteLogon(c, stored, m)
    OBVIOUS
  <2>2. synced = CASE expected -> drain_queue(c, on)
                   [] ahead /\ ~on.resend_requested -> StartResend(c, on, m.seq)
                   [] OTHER -> on
    OBVIOUS
  <2>3. stored.state # "Disconnected"
    BY ZenonT(30), <1>6
  <2> HIDE DEF resets, full, r, expected, ahead, counted, stored, on, synced, u
  <2>4. QED BY <1>3, <1>4, <1>6, <2>1, <2>2, <2>3, AnswerGood
<1>7. CASE resets
  <2>1. stored = IF full THEN ResetStore(counted) ELSE counted
    BY <1>7
  <2>2. r = reset_sequences(t, full)
    BY <1>7
  <2>3. ASSUME NEW K1, NEW R1, m.seq \in R1, NEW low1 \in Nat,
               t.logon_sent => m.seq \in K1 /\ low1 <= 1
        PROVE  Good(c, stored, K1, R1, low1) /\ NoReplay(stored)
               /\ stored.state = "AwaitingLogon" /\ stored.queue = {}
    <3> DEFINE fresh == reset_sequences(t, full)
               next == [fresh EXCEPT !.next_in = IF m.seq = fresh.next_in THEN @ + 1 ELSE @]
               end == IF full THEN ResetStore(next) ELSE next
    <3>1. Good(c, end, K1, R1, low1) /\ NoReplay(end)
          /\ end.state = "AwaitingLogon" /\ end.queue = {}
      BY <1>1, <2>3, ResetSettled, ZenonT(30)
    <3>2. r = fresh
      BY ZenonT(30), <2>2
    <3> HIDE DEF r, fresh, full
    <3>3. stored = end
      BY <2>1, <3>2
    <3> HIDE DEF end, stored, counted, next
    <3>4. QED BY ZenonT(30), <3>1, <3>3
  <2>4. ~m.flag => ~t.logon_sent
    BY <1>5, <1>7
  <2> HIDE DEF resets, full, r, expected, ahead, counted, stored, on, synced, settled, u
  <2>5. CASE m.flag
    <3> DEFINE one == {m.seq}
    <3>1. m.seq \in one /\ 1 \in Nat /\ 1 <= 1
      OBVIOUS
    <3> HIDE DEF one
    <3>2. Good(c, stored, one, one, 1) /\ NoReplay(stored)
          /\ stored.state = "AwaitingLogon" /\ stored.queue = {}
      BY ZenonT(30), <2>3, <3>1
    <3>3. Good(c, u, one, one, 1) /\ u.queue \subseteq stored.queue
      BY ZenonT(30), <1>6, <3>1, <3>2
    <3>4. u.queue = {}
      BY ZenonT(30), <3>2, <3>3
    <3>5. QED BY ZenonT(30), <2>5, <3>3, <3>4, EmptyOrder DEF u, one
  <2>6. CASE ~m.flag
    <3>1. Good(c, stored, K, R, low) /\ NoReplay(stored)
          /\ stored.state = "AwaitingLogon" /\ stored.queue = {}
      BY <2>3, <2>4, <2>6, ZenonT(30)
    <3>2. Good(c, u, K, R, low) /\ u.queue \subseteq stored.queue
      BY ZenonT(30), <1>6, <3>1
    <3>3. u.queue = {}
      BY <3>1, <3>2
    <3>4. QED BY ZenonT(30), <2>6, <3>2, <3>3, EmptyOrder DEF u, Handled
  <2>7. QED BY ZenonT(30), <2>5, <2>6
<1>8. CASE ~resets
  <2>1. stored = [t EXCEPT !.next_in = IF m.seq = @ THEN @ + 1 ELSE @]
        /\ ~m.flag /\ (expected <=> m.seq = t.next_in)
    BY <1>8
  <2> HIDE DEF resets, full, r, expected, ahead, counted, stored, on, synced, settled, u
  <2>2. /\ Good(c, stored, K, R, low) /\ Keeps(t, stored)
        /\ stored.queue = t.queue /\ stored.state = t.state
        /\ Ahead(t) => NotPast(stored)
        /\ (Ahead(t) /\ m.seq # t.next_in) => Ahead(stored)
    BY <2>1, MaybeCountedGood
  <2>3. NoReplay(stored) /\ (Keyed(t) => Keyed(stored))
    BY ZenonT(30), <2>2 DEF Keeps
  <2>4. /\ Good(c, u, K, R, low)
        /\ Keyed(stored) => Keyed(u)
        /\ u.queue \subseteq stored.queue
        /\ (Keyed(stored) /\ NotPast(stored) /\ (~expected => Ahead(stored))) => Ahead(u)
    BY ZenonT(30), <1>6, <2>2, <2>3
  <2>5. QED BY <2>1, <2>2, <2>3, <2>4 DEF Handled, u
<1>9. QED BY ZenonT(30), <1>7, <1>8

LEMMA ThenHandled ==
  ASSUME NEW c, NEW t, NEW v, NEW u, NEW m, NEW K, NEW R, NEW low,
         Sends(t, v), Handled(c, v, u, m, K, R, low)
  PROVE  Handled(c, t, u, m, K, R, low)
BY ZenonT(30), SendsOrder DEF Handled, Sends, SameBook

\* What a Logon leaves.
LogonHandled(c, t, u, m, K, R, low) ==
  \/ (~m.flag \/ u.state = "Disconnected") /\ Handled(c, t, u, m, K, R, low)
  \/ m.flag /\ Good(c, u, {m.seq}, {m.seq}, 1) /\ u.queue = {}

LEMMA LogonGood ==
  ASSUME NEW c \in Config, NEW t, NEW K, NEW R, NEW low \in Nat, Good(c, t, K, R, low),
         NoReplay(t), ~DidReset(t), NEW m \in Message, m.seq \in K, m.seq \in R, NEW open
  PROVE  LET u == on_logon(c, t, m, open)
         IN  /\ LogonHandled(c, t, u, m, K, R, low)
             /\ Keyed(t) /\ Ahead(t) => Ahead(u)
<1> DEFINE v == [t EXCEPT !.logon_received = TRUE]
           refused == validate_app(c, v, m)
           counted == [refused EXCEPT !.next_in = IF m.seq = @ THEN @ + 1 ELSE @]
           u == on_logon(c, t, m, open)
<1>1. Whole(t)
  BY DEF Good
<1>2. Typed(v) /\ v.queue = t.queue /\ v.store = t.store /\ v.next_out = t.next_out
      /\ v.acts = t.acts
  BY <1>1, ZenonT(40) DEF Whole, Sound, Typed
<1>3. SameBook(t, v)
  BY <1>1 DEF Whole, Sound, Typed, SameBook
<1>4. \/ u = reject_logon(v)
      \/ u = reject_logon(counted)
      \/ ~LogonRefused(c, v, m, open) /\ u = AcceptLogon(c, v, m)
  BY DEF on_logon
<1> HIDE DEF v, u
<1>5. Whole(v) /\ Sends(t, v)
  BY ZenonT(30), <1>1, <1>2, <1>3, KeepsSound, SilentSends DEF Whole
<1>6. /\ Good(c, v, K, R, low) /\ NoReplay(v) /\ ~DidReset(v)
      /\ Keyed(t) => Keyed(v)
      /\ Ahead(t) => Ahead(v)
  BY ZenonT(30), <1>1, <1>5, SendsGood, SendsKeeps, SendsReset, SendsOrder DEF Keeps
<1>7. CASE u = reject_logon(v)
  <2>1. Whole(u) /\ Sends(v, u) /\ u.state = "Disconnected"
    BY <1>5, <1>7, RejectLogonSends
  <2>2. Handled(c, v, u, m, K, R, low)
    BY ZenonT(30), <1>6, <2>1, SendsHandled
  <2>3. QED BY ZenonT(30), <1>5, <2>1, <2>2, ThenHandled DEF LogonHandled, Ahead, u
<1>8. CASE u = reject_logon(counted)
  <2>1. Whole(refused) /\ Sends(v, refused)
    BY ZenonT(30), <1>5, RejectSends
  <2> HIDE DEF refused
  <2>2. /\ Good(c, refused, K, R, low) /\ ~DidReset(refused)
        /\ Handled(c, v, refused, m, K, R, low)
    BY ZenonT(30), <1>5, <1>6, <2>1, SendsHandled, SendsReset DEF Handled
  <2>3. Good(c, counted, K, R, low) /\ Keeps(refused, counted)
        /\ counted.queue = refused.queue
    BY <2>2, MaybeCountedGood
  <2> HIDE DEF counted
  <2>4. Handled(c, v, counted, m, K, R, low) /\ Whole(counted)
    BY ZenonT(30), <2>2, <2>3 DEF Handled, Keeps, Good
  <2>5. Whole(u) /\ Sends(counted, u) /\ u.state = "Disconnected"
    BY ZenonT(30), <1>8, <2>4, RejectLogonSends
  <2>6. Handled(c, counted, u, m, K, R, low)
    BY ZenonT(30), <2>3, <2>5, SendsHandled
  <2>7. Handled(c, v, u, m, K, R, low)
    BY ZenonT(30), <2>4, <2>6 DEF Handled
  <2>8. QED BY ZenonT(30), <1>5, <2>5, <2>7, ThenHandled DEF LogonHandled, Ahead, u
<1>9. CASE ~LogonRefused(c, v, m, open) /\ u = AcceptLogon(c, v, m)
  <2>1. /\ v.state = "AwaitingLogon" /\ m.end \in OptNat /\ m.end # Malformed
        /\ c.role = "Acceptor" => ~(m.end <= 0)
    BY <1>9 DEF LogonRefused, Message
  <2>2. c.role = "Acceptor" => m.end \in Nat
    BY <2>1 DEF OptNat, Absent, Malformed
  <2>3. /\ ~m.flag => Handled(c, v, u, m, K, R, low)
        /\ m.flag => Good(c, u, {m.seq}, {m.seq}, 1) /\ u.queue = {}
        /\ Keyed(v) /\ Ahead(v) => Ahead(u)
    BY ZenonT(30), <1>6, <1>9, <2>1, <2>2, AcceptLogonGood
  <2>4. QED BY ZenonT(30), <1>5, <1>6, <2>3, ThenHandled DEF LogonHandled, u
<1>10. QED BY <1>4, <1>7, <1>8, <1>9
=============================================================================
