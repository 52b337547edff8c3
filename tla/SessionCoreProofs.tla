-------------------------- MODULE SessionCoreProofs -------------------------
(***************************************************************************)
(* What the functions of state.rs keep of the engine, for every            *)
(* configuration, every inbound message and every state.  Sound says that  *)
(* the engine is well-formed: its fields are typed, its queue is finite and *)
(* its resend store has one message at most per number, all below next_out. *)
(* There is a lemma for each function; on_received, on_tick and the other  *)
(* events come last.  The second part says of the functions that only send *)
(* that they do nothing else (Sends).                                      *)
(***************************************************************************)
EXTENDS Session, FiniteSetTheorems, WellFoundedInduction, TLAPS

\* The time a leaf may take, in seconds; most take a fraction of one.
USE SMTT(30), ZenonT(30)

Typed(e) ==
  e \in [state : States, next_out : Nat \ {0}, next_in : Nat \ {0},
         ticks_since_send : Nat, ticks_since_recv : Nat, ticks_awaiting : Nat,
         test_request_outstanding : BOOLEAN,
         logon_sent : BOOLEAN, logon_received : BOOLEAN,
         resend_requested : BOOLEAN,
         resend_target : Nat \cup {Absent}, resend_chunk_end : Nat \cup {Absent},
         store : SUBSET Message, queue : SUBSET Message,
         heartbeat_interval : Nat, reset_on_logon_pending : BOOLEAN,
         last_disconnect_reason : {"none", "graceful", "other"},
         acts : {e.acts}]

InOrder(e) ==
  /\ \A m \in e.store : m.seq \in 1..(e.next_out - 1)
  /\ \A m, n \in e.store : m.seq = n.seq => m = n

Sound(e) == Typed(e) /\ IsFiniteSet(e.queue) /\ InOrder(e)

-----------------------------------------------------------------------------
LEMMA BaseType ==
  ASSUME NEW type \in MsgTypes
  PROVE  base(type) \in Message
BY DEF base, Message, OptNat, Absent, Malformed, Faults

LEMMA EmitSound ==
  ASSUME NEW e, Sound(e), NEW op, NEW m
  PROVE  Sound(Emit(e, op, m))
<1> DEFINE t == Emit(e, op, m)
<1>1. Typed(t)
  BY ZenonT(30) DEF Sound, Typed, Emit
<1>2. t.queue = e.queue /\ t.store = e.store /\ t.next_out = e.next_out
  BY DEF Sound, Typed, Emit
<1>3. QED BY <1>1, <1>2 DEF Sound, InOrder

LEMMA PutUnique ==
  ASSUME NEW map \in SUBSET Message, NEW m \in Message
  PROVE  /\ Put(map, m) \in SUBSET Message
         /\ \A x \in Put(map, m) : x = m \/ (x \in map /\ x.seq # m.seq)
         /\ IsFiniteSet(map) => IsFiniteSet(Put(map, m))
<1>1. Put(map, m) \subseteq map \cup {m}
  BY DEF Put
<1>2. IsFiniteSet(map) => IsFiniteSet(map \cup {m})
  BY FS_AddElement
<1>3. IsFiniteSet(map) => IsFiniteSet(Put(map, m))
  BY <1>1, <1>2, FS_Subset
<1>4. QED BY <1>1, <1>3 DEF Put

LEMMA SendStoredSound ==
  ASSUME NEW c \in Config, NEW e, Sound(e), NEW m \in Message
  PROVE  Sound(send_stored(c, e, m))
<1> DEFINE t == send_stored(c, e, m)
           out == [m EXCEPT !.seq = e.next_out]
           kept == IF c.persist_messages THEN Put(e.store, out) ELSE e.store
           done == Append(e.acts, [op |-> "send", msg |-> out])
<1>1. e.next_out \in Nat \ {0} /\ e.store \in SUBSET Message
  BY DEF Sound, Typed
<1>2. out \in Message /\ out.seq = e.next_out
  BY <1>1 DEF Message
<1>3. t = [e EXCEPT !.next_out = e.next_out + 1, !.ticks_since_send = 0,
                    !.store = kept, !.acts = done]
  BY DEF send_stored, Sound, Typed
<1> HIDE DEF out, done
<1>4. \A x \in kept : x = out \/ x \in e.store
  BY DEF Put
<1>5. \A x \in kept : x # out => x.seq # out.seq \/ kept = e.store
  BY DEF Put
<1> HIDE DEF kept, t
<1>6. kept \in SUBSET Message
  BY <1>1, <1>2, <1>4
<1>7. Typed(t)
  <2>1. e.next_out + 1 \in Nat \ {0} /\ 0 \in Nat
    BY <1>1
  <2>2. t.acts = done
    BY <1>3 DEF Sound, Typed
  <2>3. QED BY ZenonT(30), <1>3, <1>6, <2>1, <2>2 DEF Sound, Typed
<1>8. t.next_out = e.next_out + 1 /\ t.queue = e.queue /\ t.store = kept
  BY <1>3 DEF Sound, Typed
<1>9. InOrder(t)
  BY <1>1, <1>2, <1>4, <1>5, <1>8 DEF Sound, InOrder
<1>10. Sound(t)
  BY <1>7, <1>8, <1>9 DEF Sound
<1>11. QED BY <1>10 DEF t

LEMMA SendLogoutSound ==
  ASSUME NEW e, Sound(e)
  PROVE  Sound(send_logout(e))
<1> DEFINE t == send_logout(e)
           done == Append(e.acts,
             [op |-> "send", msg |-> [base("Logout") EXCEPT !.seq = e.next_out]])
<1>1. e.next_out \in Nat \ {0} /\ e.next_out + 1 \in Nat \ {0} /\ 0 \in Nat
  BY DEF Sound, Typed
<1>2. t = [e EXCEPT !.next_out = e.next_out + 1, !.ticks_since_send = 0,
                    !.acts = done]
  BY DEF send_logout, Sound, Typed
<1> HIDE DEF t, done
<1>3. t.acts = done /\ t.next_out = e.next_out + 1 /\ t.queue = e.queue
      /\ t.store = e.store
  BY <1>2 DEF Sound, Typed
<1>4. Typed(t)
  BY ZenonT(30), <1>1, <1>2, <1>3 DEF Sound, Typed
<1>5. InOrder(t)
  BY <1>1, <1>3 DEF Sound, InOrder
<1>6. Sound(t)
  BY <1>3, <1>4, <1>5 DEF Sound
<1>7. QED BY <1>6 DEF t

\* A change of fields other than the numbers, the store, the queue and acts.
LEMMA KeepsSound ==
  ASSUME NEW e, Sound(e), NEW t, Typed(t), t.queue \subseteq e.queue,
         t.store = e.store, t.next_out = e.next_out
  PROVE  Sound(t)
<1>1. IsFiniteSet(t.queue)
  BY FS_Subset DEF Sound
<1>2. QED BY <1>1 DEF Sound, InOrder

LEMMA StateSound ==
  ASSUME NEW e, Sound(e), NEW st \in States
  PROVE  /\ Sound([e EXCEPT !.state = st])
         /\ \A r \in {"none", "graceful", "other"} :
              Sound([e EXCEPT !.state = st, !.last_disconnect_reason = r])
         /\ Sound([e EXCEPT !.ticks_awaiting = 0, !.state = st])
         /\ Sound([e EXCEPT !.reset_on_logon_pending = FALSE, !.state = st])
<1>1. Sound([e EXCEPT !.state = st])
  <2> DEFINE t == [e EXCEPT !.state = st]
  <2>1. Typed(t) /\ t.queue = e.queue /\ t.store = e.store /\ t.next_out = e.next_out
    BY DEF Sound, Typed
  <2>2. QED BY ZenonT(30), <2>1, KeepsSound
<1>2. ASSUME NEW r \in {"none", "graceful", "other"}
      PROVE  Sound([e EXCEPT !.state = st, !.last_disconnect_reason = r])
  <2> DEFINE t == [e EXCEPT !.state = st, !.last_disconnect_reason = r]
  <2>1. Typed(t) /\ t.queue = e.queue /\ t.store = e.store /\ t.next_out = e.next_out
    BY ZenonT(40) DEF Sound, Typed
  <2>2. QED BY ZenonT(30), <2>1, KeepsSound
<1>3. Sound([e EXCEPT !.ticks_awaiting = 0, !.state = st])
  <2> DEFINE t == [e EXCEPT !.ticks_awaiting = 0, !.state = st]
  <2>1. Typed(t) /\ t.queue = e.queue /\ t.store = e.store /\ t.next_out = e.next_out
    BY ZenonT(40) DEF Sound, Typed
  <2>2. QED BY ZenonT(30), <2>1, KeepsSound
<1>4. Sound([e EXCEPT !.reset_on_logon_pending = FALSE, !.state = st])
  <2> DEFINE t == [e EXCEPT !.reset_on_logon_pending = FALSE, !.state = st]
  <2>1. Typed(t) /\ t.queue = e.queue /\ t.store = e.store /\ t.next_out = e.next_out
    BY ZenonT(40) DEF Sound, Typed
  <2>2. QED BY ZenonT(30), <2>1, KeepsSound
<1>5. QED BY <1>1, <1>2, <1>3, <1>4

LEMMA NextInSound ==
  ASSUME NEW e, Sound(e), NEW n \in Nat \ {0}
  PROVE  Sound([e EXCEPT !.next_in = n])
<1> DEFINE t == [e EXCEPT !.next_in = n]
<1>1. Typed(t) /\ t.queue = e.queue /\ t.store = e.store /\ t.next_out = e.next_out
  BY DEF Sound, Typed
<1>2. QED BY ZenonT(30), <1>1, KeepsSound

-----------------------------------------------------------------------------
(***************************************************************************)
(* Resets.  A full reset empties the store together with the number; a     *)
(* partial one leaves both.                                                *)
(***************************************************************************)
LEMMA ResetSequencesSound ==
  ASSUME NEW e, Sound(e), NEW full \in BOOLEAN
  PROVE  Sound(reset_sequences(e, full))
<1> DEFINE t == reset_sequences(e, full)
<1>1. Typed(t)
  <2> DEFINE out == IF full THEN 1 ELSE e.next_out
             kept == IF full THEN {} ELSE e.store
  <2>1. out \in Nat \ {0} /\ kept \in SUBSET Message
    BY DEF Sound, Typed
  <2>2. t = [e EXCEPT !.next_in = 1, !.queue = {}, !.resend_requested = FALSE,
                      !.resend_target = Absent, !.resend_chunk_end = Absent,
                      !.test_request_outstanding = FALSE,
                      !.next_out = out, !.store = kept]
    BY DEF reset_sequences, Sound, Typed
  <2> HIDE DEF out, kept, t
  <2>3. t.acts = e.acts
    BY <2>2 DEF Sound, Typed
  <2>4. 1 \in Nat \ {0} /\ {} \in SUBSET Message
    OBVIOUS
  <2>5. QED BY <2>1, <2>2, <2>3, <2>4, ZenonT(60) DEF Sound, Typed
<1>2. t.queue = {}
  BY DEF Sound, Typed, reset_sequences
<1>3. (t.store = {} /\ t.next_out = 1) \/ (t.store = e.store /\ t.next_out = e.next_out)
  BY DEF Sound, Typed, reset_sequences
<1>4. InOrder(t)
  BY <1>3 DEF Sound, InOrder
<1>5. QED BY <1>1, <1>2, <1>4, FS_EmptySet DEF Sound

LEMMA ResetSound ==
  ASSUME NEW e, Sound(e)
  PROVE  Sound(reset(e))
<1> DEFINE r == reset_sequences(e, TRUE)
           t == [r EXCEPT !.logon_sent = FALSE]
<1>1. Sound(r)
  BY ZenonT(30), ResetSequencesSound
<1> HIDE DEF r
<1>2. Typed(t) /\ t.queue = r.queue /\ t.store = r.store /\ t.next_out = r.next_out
  BY <1>1, ZenonT(40) DEF Sound, Typed
<1>3. Sound(t)
  BY ZenonT(30), <1>1, <1>2, KeepsSound
<1>4. QED BY <1>3 DEF reset, r

LEMMA ResetOnErrorSound ==
  ASSUME NEW c \in Config, NEW e, Sound(e)
  PROVE  Sound(reset_on_error(c, e))
BY ResetSound, EmitSound DEF reset_on_error, ResetStore

LEMMA EnterDisconnectedSound ==
  ASSUME NEW c \in Config, NEW e, Sound(e), NEW reason \in {"graceful", "other"}
  PROVE  Sound(enter_disconnected(c, e, reason))
<1> DEFINE gone == [e EXCEPT !.state = "Disconnected",
                             !.last_disconnect_reason = reason]
<1>1. Sound(gone)
  BY ZenonT(30), StateSound DEF States
<1> HIDE DEF gone
<1>2. Sound(ResetStore(reset(gone)))
  BY <1>1, ResetSound, EmitSound DEF ResetStore
<1>3. QED BY <1>1, <1>2 DEF enter_disconnected, gone

-----------------------------------------------------------------------------
(***************************************************************************)
(* Sending and tearing down.                                               *)
(***************************************************************************)
LEMMA RejectSound ==
  ASSUME NEW c \in Config, NEW e, Sound(e)
  PROVE  /\ Sound(build_session_reject(c, e))
         /\ Sound(business_reject(c, e))
         /\ \A m : Sound(validate_app(c, e, m))
         /\ Sound(on_garbled(c, e))
<1>1. base("Reject") \in Message /\ base("BusinessReject") \in Message
  BY BaseType DEF MsgTypes, AdminTypes
<1>2. QED BY <1>1, SendStoredSound
          DEF build_session_reject, business_reject, validate_app, on_garbled

LEMMA SendAppSound ==
  ASSUME NEW c \in Config, NEW e, Sound(e), NEW body \in Nat
  PROVE  Sound(send_app(c, e, body))
<1>1. base("App") \in Message
  BY BaseType DEF MsgTypes
<1>2. [base("App") EXCEPT !.body = body] \in Message
  BY <1>1 DEF Message
<1>3. QED BY <1>2, SendStoredSound DEF send_app

LEMMA RejectLogonSound ==
  ASSUME NEW e, Sound(e)
  PROVE  Sound(reject_logon(e))
<1>1. Sound(send_logout(e))
  BY SendLogoutSound
<1>2. Sound([send_logout(e) EXCEPT !.state = "Disconnected"])
  BY ZenonT(30), <1>1, StateSound DEF States
<1>3. QED BY <1>2, EmitSound DEF reject_logon, Disconnect

LEMMA LogoutOnErrorSound ==
  ASSUME NEW c \in Config, NEW e, Sound(e)
  PROVE  /\ Sound(logout_on_error(c, e))
         /\ Sound(session_reject_before_logout(c, e))
<1>1. Sound([send_logout(e) EXCEPT !.state = "Disconnected"])
  BY ZenonT(30), SendLogoutSound, StateSound DEF States
<1>2. Sound(logout_on_error(c, e))
  BY <1>1, ResetOnErrorSound, EmitSound DEF logout_on_error, Disconnect
<1>3. Sound(session_reject_before_logout(c, e))
  BY RejectSound, RejectLogonSound DEF session_reject_before_logout
<1>4. QED BY <1>2, <1>3

LEMMA LogoutSound ==
  ASSUME NEW c \in Config, NEW e, Sound(e)
  PROVE  /\ Sound(on_logout_msg(c, e))
         /\ Sound(on_start_logout(e))
<1>1. Sound(send_logout(e))
  BY SendLogoutSound
<1>2. Sound(on_logout_msg(c, e))
  BY <1>1, EnterDisconnectedSound, EmitSound DEF on_logout_msg, Disconnect
<1>3. Sound(on_start_logout(e))
  BY ZenonT(30), <1>1, StateSound DEF on_start_logout, States
<1>4. QED BY <1>2, <1>3

-----------------------------------------------------------------------------
(***************************************************************************)
(* Resending and asking for a resend.                                      *)
(***************************************************************************)
LEMMA BuildResendSound ==
  ASSUME NEW c, NEW e, Sound(e), NEW begin, NEW end
  PROVE  Sound(build_resend(c, e, begin, end))
<1> DEFINE t == build_resend(c, e, begin, end)
<1>1. PICK a : t = [e EXCEPT !.ticks_since_send = 0, !.acts = a]
  BY ZenonT(30) DEF build_resend, Sound, Typed
<1> HIDE DEF t
<1>2. t.acts = a /\ t.queue = e.queue /\ t.store = e.store /\ t.next_out = e.next_out
  BY <1>1 DEF Sound, Typed
<1>3. Typed(t)
  BY ZenonT(30), <1>1, <1>2 DEF Sound, Typed
<1>4. Sound(t)
  BY <1>2, <1>3, KeepsSound
<1>5. QED BY <1>4 DEF t

LEMMA ResendRequestSound ==
  ASSUME NEW c \in Config, NEW e, Sound(e), NEW m
  PROVE  Sound(on_resend_request(c, e, m))
BY BuildResendSound, RejectSound DEF on_resend_request

LEMMA RequestResendSound ==
  ASSUME NEW c \in Config, NEW e, Sound(e), NEW begin \in Nat
  PROVE  Sound(request_resend(c, e, begin))
<1> DEFINE capped == begin + c.chunk_size - 1
           chunk_end == IF c.chunk_size = 0 THEN Absent
                        ELSE IF e.resend_target = Absent THEN capped
                        ELSE MinOf(e.resend_target, capped)
           t == [e EXCEPT !.resend_chunk_end = chunk_end]
           req == resend_request(begin, MaxOf(chunk_end, 0))
<1>1. c.chunk_size \in Nat
  BY DEF Config
<1>2. e.resend_target \in Nat \cup {Absent}
  BY DEF Sound, Typed
<1>3. chunk_end \in Nat \cup {Absent}
  BY <1>1, <1>2 DEF MinOf, Absent
<1>4. MaxOf(chunk_end, 0) \in Nat
  BY <1>3 DEF MaxOf, Absent
<1> HIDE DEF chunk_end
<1>5. base("ResendRequest") \in Message
  BY BaseType DEF MsgTypes, AdminTypes
<1>6. req \in Message
  BY ZenonT(30), <1>4, <1>5 DEF resend_request, Message, OptNat
<1>7. Typed(t) /\ t.queue = e.queue /\ t.store = e.store /\ t.next_out = e.next_out
  BY <1>3 DEF Sound, Typed
<1> HIDE DEF req
<1>8. Sound(t)
  BY ZenonT(30), <1>7, KeepsSound
<1> HIDE DEF t
<1>9. Sound(send_stored(c, t, req))
  BY <1>6, <1>8, SendStoredSound
<1>10. QED BY <1>9 DEF request_resend, t, req, chunk_end

LEMMA StartResendSound ==
  ASSUME NEW c \in Config, NEW e, Sound(e), NEW seq \in Nat
  PROVE  Sound(StartResend(c, e, seq))
<1> DEFINE target == IF c.chunk_size > 0 THEN MaxOf(e.resend_target, seq)
                                         ELSE e.resend_target
           t == [e EXCEPT !.resend_requested = TRUE, !.resend_target = target]
<1>1. e.next_in \in Nat /\ e.resend_target \in Nat \cup {Absent}
  BY DEF Sound, Typed
<1>2. target \in Nat \cup {Absent}
  BY <1>1 DEF MaxOf, Absent
<1>3. StartResend(c, e, seq) = request_resend(c, t, e.next_in)
  BY DEF StartResend, Sound, Typed
<1> HIDE DEF target
<1>4. Typed(t) /\ t.queue = e.queue /\ t.store = e.store /\ t.next_out = e.next_out
  BY ZenonT(30), <1>2 DEF Sound, Typed
<1>5. Sound(t)
  BY ZenonT(30), <1>4, KeepsSound
<1>6. QED BY <1>1, <1>3, <1>5, RequestResendSound

LEMMA ContinueResendSound ==
  ASSUME NEW c \in Config, NEW e, Sound(e)
  PROVE  Sound(maybe_continue_chunked_resend(c, e))
<1> DEFINE t == [e EXCEPT !.resend_target = Absent, !.resend_chunk_end = Absent]
<1>1. e.next_in \in Nat
  BY DEF Sound, Typed
<1>2. Typed(t) /\ t.queue = e.queue /\ t.store = e.store /\ t.next_out = e.next_out
  BY ZenonT(30) DEF Sound, Typed
<1>3. Sound(t)
  BY ZenonT(30), <1>2, KeepsSound
<1>4. Sound(request_resend(c, e, e.next_in))
  BY <1>1, RequestResendSound
<1>5. QED BY <1>3, <1>4 DEF maybe_continue_chunked_resend

-----------------------------------------------------------------------------
(***************************************************************************)
(* In-order processing.                                                    *)
(***************************************************************************)
LEMMA CountedSound ==
  ASSUME NEW e, Sound(e)
  PROVE  /\ Sound([e EXCEPT !.next_in = @ + 1])
         /\ \A p \in BOOLEAN : Sound([e EXCEPT !.next_in = IF p THEN @ + 1 ELSE @])
<1>1. e.next_in \in Nat \ {0}
  BY DEF Sound, Typed
<1>2. e.next_in + 1 \in Nat \ {0}
  BY <1>1
<1>3. Sound([e EXCEPT !.next_in = e.next_in + 1]) /\ Sound([e EXCEPT !.next_in = e.next_in])
  BY <1>1, <1>2, NextInSound
<1>4. [e EXCEPT !.next_in = @ + 1] = [e EXCEPT !.next_in = e.next_in + 1]
  BY DEF Sound, Typed
<1>5. ASSUME NEW p \in BOOLEAN
      PROVE  Sound([e EXCEPT !.next_in = IF p THEN @ + 1 ELSE @])
  <2>1. CASE p
    BY <1>3, <1>4, <2>1
  <2>2. CASE ~p
    <3>1. [e EXCEPT !.next_in = IF p THEN @ + 1 ELSE @] = [e EXCEPT !.next_in = e.next_in]
      BY <2>2
    <3>2. QED BY <1>3, <3>1
  <2>3. QED BY <2>1, <2>2
<1>6. QED BY <1>3, <1>4, <1>5

LEMMA ProcessSound ==
  ASSUME NEW c \in Config, NEW e, Sound(e), NEW m
  PROVE  Sound(process_in_order(c, e, m))
<1>1. base("Heartbeat") \in Message
  BY BaseType DEF MsgTypes, AdminTypes
<1>2. Sound(answer_test_request(c, e))
  BY <1>1, SendStoredSound DEF answer_test_request
<1>3. QED BY <1>2, ResendRequestSound, LogoutSound DEF process_in_order

LEMMA RefuseSound ==
  ASSUME NEW c \in Config, NEW e, Sound(e), NEW m
  PROVE  Sound(RefuseInvalid(c, e, m))
<1> DEFINE refused == validate_app(c, e, m)
           counted == [refused EXCEPT !.next_in = IF m.seq = @ THEN @ + 1 ELSE @]
           after == reset_on_error(c, counted)
<1>1. Sound(refused)
  BY RejectSound
<1> HIDE DEF refused
<1>2. Sound(counted)
  BY ZenonT(30), <1>1, CountedSound
<1> HIDE DEF counted
<1>3. Sound(after)
  BY <1>2, ResetOnErrorSound
<1> HIDE DEF after
<1>4. Sound(reject_logon(after))
  BY <1>3, RejectLogonSound
<1>5. QED BY <1>3, <1>4 DEF RefuseInvalid, after, counted, refused

LEMMA GapFillSound ==
  ASSUME NEW e, Sound(e), NEW n \in OptNat
  PROVE  Sound(apply_gap_fill_new_seq(e, n))
<1> DEFINE rest == {m \in e.queue : m.seq >= n}
           t == [e EXCEPT !.next_in = n, !.queue = rest]
<1>1. e.next_in \in Nat \ {0} /\ e.queue \in SUBSET Message
  BY DEF Sound, Typed
<1>2. CASE n >= e.next_in
  <2>1. n \in Nat \ {0}
    BY <1>1, <1>2 DEF OptNat, Absent, Malformed
  <2>2. rest \subseteq e.queue /\ rest \in SUBSET Message
    BY <1>1
  <2> HIDE DEF rest
  <2>3. Typed(t) /\ t.queue = rest /\ t.store = e.store /\ t.next_out = e.next_out
    BY ZenonT(30), <2>1, <2>2 DEF Sound, Typed
  <2>4. Sound(t)
    BY ZenonT(30), <2>2, <2>3, KeepsSound
  <2>5. apply_gap_fill_new_seq(e, n) = t
    BY <1>2 DEF apply_gap_fill_new_seq, rest
  <2>6. QED BY <2>4, <2>5
<1>3. CASE ~(n >= e.next_in)
  BY <1>3 DEF apply_gap_fill_new_seq
<1>4. QED BY <1>2, <1>3

LEMMA DrainMessageSound ==
  ASSUME NEW c \in Config, NEW e, Sound(e), NEW m \in Message
  PROVE  Sound(DrainMessage(c, e, m))
<1> DEFINE t == [e EXCEPT !.queue = @ \ {m}]
           handled == IF m.type = "ResendRequest" THEN t
                                                  ELSE process_in_order(c, t, m)
<1>1. Typed(t) /\ t.queue \subseteq e.queue /\ t.store = e.store /\ t.next_out = e.next_out
  BY DEF Sound, Typed
<1>2. Sound(t)
  BY ZenonT(30), <1>1, KeepsSound
<1> HIDE DEF t
<1>3. Sound(handled)
  BY <1>2, ProcessSound
<1> HIDE DEF handled
<1>4. Sound([handled EXCEPT !.next_in = @ + 1])
  BY <1>3, CountedSound
<1>5. m.num \in OptNat
  BY DEF Message
<1>6. Sound(apply_gap_fill_new_seq(t, m.num))
  BY <1>2, <1>5, GapFillSound
<1>7. Sound(RefuseInvalid(c, t, m))
  BY <1>2, RefuseSound
<1>8. QED BY <1>4, <1>6, <1>7 DEF DrainMessage, t, handled

LEMMA DrainStepSound ==
  ASSUME NEW c \in Config, NEW d, Sound(d.s)
  PROVE  Sound(DrainStep(c, d).s)
<1> DEFINE due == {m \in d.s.queue : m.seq = d.s.next_in}
           m == CHOOSE x \in due : TRUE
<1>1. CASE d.halted \/ due = {}
  BY <1>1 DEF DrainStep
<1>2. CASE ~(d.halted \/ due = {})
  <2>1. m \in due
    BY <1>2
  <2>2. m \in Message
    BY <2>1 DEF Sound, Typed
  <2> HIDE DEF m
  <2>3. Sound(DrainMessage(c, d.s, m))
    BY <2>2, DrainMessageSound
  <2>4. DrainStep(c, d).s = DrainMessage(c, d.s, m)
    BY <1>2 DEF DrainStep, m
  <2>5. QED BY <2>3, <2>4
<1>3. QED BY <1>1, <1>2

-----------------------------------------------------------------------------
(***************************************************************************)
(* drain_queue's loop: the recursive function in Drained exists, and each  *)
(* of its values is sound.                                                 *)
(***************************************************************************)

\* Induction over the natural numbers, for a set.
LEMMA SetInduction ==
  ASSUME NEW S, S \subseteq Nat, 0 \in S, \A n \in S : n + 1 \in S
  PROVE  S = Nat
<1> DEFINE T == Nat \ S
<1>1. SUFFICES ASSUME T # {} PROVE FALSE
  BY ZenonT(30)
<1>2. PICK x \in T : \A y \in T : ~(<<y, x>> \in OpToRel(<, Nat))
  <2>1. T \subseteq Nat
    OBVIOUS
  <2> HIDE DEF T
  <2>2. QED BY ZenonT(30), <1>1, <2>1, WFMin, NatLessThanWellFounded
<1>3. x \in Nat /\ x # 0
  OBVIOUS
<1>4. x - 1 \in Nat
  BY <1>3
<1>5. <<x - 1, x>> \in OpToRel(<, Nat)
  BY <1>3, <1>4 DEF OpToRel
<1>6. x - 1 \in S
  BY ZenonT(30), <1>2, <1>4, <1>5
<1>7. QED BY <1>3, <1>6

\* r holds the first n rounds of drain_queue's loop.
IsRun(c, e, r, n) ==
  r = [i \in 0..n |-> IF i = 0 THEN [s |-> e, halted |-> FALSE]
                               ELSE DrainStep(c, r[i - 1])]

LEMMA RunExists ==
  ASSUME NEW c, NEW e, NEW n \in Nat
  PROVE  \E r : IsRun(c, e, r, n)
<1> DEFINE first == [s |-> e, halted |-> FALSE]
           S == {k \in Nat : \E r : IsRun(c, e, r, k)}
<1>1. 0 \in S
  <2>1. IsRun(c, e, [i \in 0..0 |-> first], 0)
    BY DEF IsRun
  <2>2. QED BY <2>1
<1>2. ASSUME NEW k \in S PROVE k + 1 \in S
  <2>1. PICK r : IsRun(c, e, r, k)
    OBVIOUS
  <2> DEFINE q == [i \in 0..(k + 1) |-> IF i <= k THEN r[i] ELSE DrainStep(c, r[k])]
  <2>2. \A i \in 0..(k + 1) :
          q[i] = IF i = 0 THEN first ELSE DrainStep(c, q[i - 1])
    <3> TAKE i \in 0..(k + 1)
    <3> HIDE DEF first
    <3>1. \A j \in 0..k : r[j] = IF j = 0 THEN first ELSE DrainStep(c, r[j - 1])
      BY <2>1, ZenonT(40) DEF IsRun, first
    <3>2. CASE i = 0
      BY <3>1, <3>2
    <3>3. CASE i # 0
      <4>1. i - 1 \in 0..k /\ q[i - 1] = r[i - 1]
        BY <3>3
      <4>2. q[i] = DrainStep(c, r[i - 1])
        BY <3>1, <3>3
      <4>3. QED BY <3>3, <4>1, <4>2
    <3>4. QED BY <3>2, <3>3
  <2>3. IsRun(c, e, q, k + 1)
    BY ZenonT(30), <2>2 DEF IsRun
  <2>4. QED BY <2>3
<1>3. S \subseteq Nat
  OBVIOUS
<1> HIDE DEF S
<1>4. S = Nat
  BY ZenonT(30), <1>1, <1>2, <1>3, SetInduction
<1>5. QED BY <1>4 DEF S

LEMMA RunSound ==
  ASSUME NEW c \in Config, NEW e, Sound(e), NEW n \in Nat, NEW r, IsRun(c, e, r, n)
  PROVE  Sound(r[n].s)
<1> DEFINE S == {k \in Nat : k <= n => Sound(r[k].s)}
<1>1. 0 \in S
  <2>1. r[0] = [s |-> e, halted |-> FALSE]
    BY DEF IsRun
  <2>2. QED BY <2>1
<1>2. ASSUME NEW k \in S PROVE k + 1 \in S
  <2>1. SUFFICES ASSUME k + 1 <= n PROVE Sound(r[k + 1].s)
    OBVIOUS
  <2>2. Sound(r[k].s)
    BY <2>1
  <2>3. k + 1 \in 0..n /\ k + 1 # 0 /\ (k + 1) - 1 = k
    BY <2>1
  <2>4. r[k + 1] = DrainStep(c, r[k])
    BY ZenonT(30), <2>3 DEF IsRun
  <2>5. QED BY <2>2, <2>4, DrainStepSound
<1>3. S \subseteq Nat
  OBVIOUS
<1> HIDE DEF S
<1>4. S = Nat
  BY ZenonT(30), <1>1, <1>2, <1>3, SetInduction
<1>5. QED BY <1>4 DEF S

LEMMA RequestedSound ==
  ASSUME NEW e, Sound(e), NEW b \in BOOLEAN
  PROVE  Sound([e EXCEPT !.resend_requested = b])
<1> DEFINE t == [e EXCEPT !.resend_requested = b]
<1>1. Typed(t) /\ t.queue = e.queue /\ t.store = e.store /\ t.next_out = e.next_out
  BY DEF Sound, Typed
<1>2. QED BY ZenonT(30), <1>1, KeepsSound

LEMMA DrainSound ==
  ASSUME NEW c \in Config, NEW e, Sound(e)
  PROVE  Sound(drain_queue(c, e))
<1> DEFINE n == Cardinality(e.queue)
           run == CHOOSE r : IsRun(c, e, r, n)
           end == Drained(c, e)
           t == [end.s EXCEPT !.resend_requested = @ /\ end.s.queue # {}]
<1>1. n \in Nat
  BY FS_CardinalityType DEF Sound
<1>2. end = run[n]
  BY DEF Drained, IsRun
<1> HIDE DEF n
<1>3. \E r : IsRun(c, e, r, n)
  BY <1>1, RunExists
<1>4. IsRun(c, e, run, n)
  BY <1>3
<1> HIDE DEF run
<1>5. Sound(run[n].s)
  BY <1>1, <1>4, RunSound
<1> HIDE DEF end
<1>6. Sound(end.s)
  BY <1>2, <1>5
<1> DEFINE b == end.s.resend_requested /\ end.s.queue # {}
<1>7. b \in BOOLEAN
  OBVIOUS
<1>8. t = [end.s EXCEPT !.resend_requested = b]
  OBVIOUS
<1> HIDE DEF b
<1>9. Sound(t)
  <2> HIDE DEF t
  <2>1. QED BY <1>6, <1>7, <1>8, RequestedSound
<1> HIDE DEF t
<1>10. Sound(maybe_continue_chunked_resend(c, t))
  BY <1>9, ContinueResendSound
<1>11. QED BY <1>6, <1>10 DEF drain_queue, t, end

LEMMA InOrderSound ==
  ASSUME NEW c \in Config, NEW e, Sound(e), NEW m
  PROVE  Sound(on_in_order(c, e, m))
<1>1. Sound(RefuseInvalid(c, e, m)) /\ Sound(drain_queue(c, RefuseInvalid(c, e, m)))
  BY RefuseSound, DrainSound
<1> DEFINE p == process_in_order(c, e, m)
<1>2. Sound(p)
  BY ProcessSound
<1> HIDE DEF p
<1>3. Sound([p EXCEPT !.next_in = @ + 1])
  BY <1>2, CountedSound
<1>4. Sound(drain_queue(c, [p EXCEPT !.next_in = @ + 1]))
  BY <1>3, DrainSound
<1>5. QED BY <1>1, <1>4 DEF on_in_order, p

LEMMA TooHighSound ==
  ASSUME NEW c \in Config, NEW e, Sound(e), NEW m \in Message
  PROVE  Sound(on_too_high(c, e, m))
<1> DEFINE answered == IF m.type = "ResendRequest" THEN on_resend_request(c, e, m) ELSE e
           target == IF c.chunk_size > 0 THEN MaxOf(answered.resend_target, m.seq)
                                         ELSE answered.resend_target
           waiting == Put(answered.queue, m)
           queued == [answered EXCEPT !.queue = waiting, !.resend_target = target]
<1>1. Sound(answered)
  BY ResendRequestSound
<1>2. m.seq \in Nat
  BY DEF Message
<1>3. Sound(on_logout_msg(c, e))
  BY LogoutSound
<1>4. on_too_high(c, e, m) \in {on_logout_msg(c, e), StartResend(c, queued, m.seq), queued}
  <2> HIDE DEF answered
  <2>1. queued = [answered EXCEPT
                    !.queue = Put(@, m),
                    !.resend_target = IF c.chunk_size > 0 THEN MaxOf(@, m.seq) ELSE @]
    BY <1>1 DEF Sound, Typed
  <2> HIDE DEF queued
  <2>2. QED BY <2>1 DEF on_too_high, answered
<1> HIDE DEF answered
<1>5. answered.resend_target \in Nat \cup {Absent} /\ answered.queue \in SUBSET Message
  BY <1>1 DEF Sound, Typed
<1>6. target \in Nat \cup {Absent}
  BY <1>2, <1>5 DEF MaxOf, Absent
<1>7. waiting \in SUBSET Message /\ IsFiniteSet(waiting)
  BY <1>1, <1>5, PutUnique DEF Sound
<1> HIDE DEF target, waiting
<1>8. Typed(queued) /\ queued.queue = waiting /\ queued.store = answered.store
      /\ queued.next_out = answered.next_out
  BY <1>1, <1>6, <1>7, ZenonT(40) DEF Sound, Typed
<1> HIDE DEF queued
<1>9. Sound(queued)
  BY <1>1, <1>7, <1>8 DEF Sound, InOrder
<1>10. Sound(StartResend(c, queued, m.seq))
  BY <1>2, <1>9, StartResendSound
<1>11. QED BY <1>3, <1>4, <1>9, <1>10

LEMMA TooLowSound ==
  ASSUME NEW c \in Config, NEW e, Sound(e), NEW m
  PROVE  Sound(on_too_low(c, e, m))
BY LogoutOnErrorSound DEF on_too_low

LEMMA SequenceResetSound ==
  ASSUME NEW c \in Config, NEW e, Sound(e), NEW m \in Message
  PROVE  Sound(on_sequence_reset(c, e, m))
<1>1. m.num \in OptNat
  BY DEF Message
<1>2. Sound(apply_gap_fill_new_seq(e, m.num))
  BY <1>1, GapFillSound
<1>3. Sound(drain_queue(c, apply_gap_fill_new_seq(e, m.num))) /\ Sound(drain_queue(c, e))
  BY <1>2, DrainSound
<1>4. Sound(RefuseInvalid(c, e, m)) /\ Sound(build_session_reject(c, e))
  BY RefuseSound, RejectSound
<1>5. QED BY <1>3, <1>4 DEF on_sequence_reset

-----------------------------------------------------------------------------
(***************************************************************************)
(* The Logon handshake.                                                    *)
(***************************************************************************)
LEMMA LogonType ==
  ASSUME NEW c \in Config, NEW e, Sound(e), NEW hb \in OptNat, NEW flag \in BOOLEAN
  PROVE  logon_with_reset_flag(hb, maybe_next_expected(c, e), flag) \in Message
<1>1. base("Logon") \in Message
  BY BaseType DEF MsgTypes, AdminTypes
<1>2. maybe_next_expected(c, e) \in OptNat
  BY DEF maybe_next_expected, Sound, Typed, OptNat
<1>3. QED BY ZenonT(30), <1>1, <1>2 DEF logon_with_reset_flag, Message

LEMMA ConnectedSound ==
  ASSUME NEW c \in Config, NEW e, Sound(e)
  PROVE  Sound(on_connected(c, e))
<1> DEFINE fresh == [e EXCEPT !.ticks_awaiting = 0,
                              !.ticks_since_recv = 0,
                              !.test_request_outstanding = FALSE,
                              !.resend_target = Absent,
                              !.resend_chunk_end = Absent,
                              !.reset_on_logon_pending = FALSE,
                              !.last_disconnect_reason = "none",
                              !.logon_sent = FALSE,
                              !.logon_received = FALSE,
                              !.resend_requested = FALSE,
                              !.queue = {},
                              !.state = "AwaitingLogon"]
           start == IF c.reset_on_logon THEN ResetStore(reset_sequences(fresh, TRUE))
                                        ELSE fresh
           flag == /\ c.reset_on_logon \/ c.reset_on_logout \/ c.reset_on_disconnect
                   /\ start.next_out = 1
                   /\ start.next_in = 1
           ready == [start EXCEPT !.reset_on_logon_pending = flag, !.logon_sent = TRUE]
           logon == logon_with_reset_flag(e.heartbeat_interval,
                      maybe_next_expected(c, start), flag)
<1>1. Typed(fresh) /\ fresh.queue \subseteq e.queue /\ fresh.store = e.store
      /\ fresh.next_out = e.next_out
  <2>1. fresh.acts = e.acts /\ fresh.queue = {} /\ fresh.store = e.store
        /\ fresh.next_out = e.next_out
    BY DEF Sound, Typed
  <2>2. Typed(fresh)
    BY <2>1, ZenonT(60) DEF Sound, Typed, States
  <2>3. QED BY <2>1, <2>2
<1>2. Sound(fresh)
  BY ZenonT(30), <1>1, KeepsSound
<1> HIDE DEF fresh
<1>3. Sound(start)
  BY ZenonT(30), <1>2, ResetSequencesSound, EmitSound DEF ResetStore
<1>4. flag \in BOOLEAN
  OBVIOUS
<1> HIDE DEF start
<1>5. e.heartbeat_interval \in OptNat
  BY DEF Sound, Typed, OptNat
<1> HIDE DEF flag
<1>6. logon \in Message
  BY <1>3, <1>4, <1>5, LogonType
<1> HIDE DEF logon
<1>7. Typed(ready) /\ ready.queue = start.queue /\ ready.store = start.store
      /\ ready.next_out = start.next_out
  BY <1>3, <1>4, ZenonT(40) DEF Sound, Typed
<1>8. Sound(ready)
  BY ZenonT(30), <1>3, <1>7, KeepsSound
<1> HIDE DEF ready
<1>9. Sound(send_stored(c, ready, logon))
  BY <1>6, <1>8, SendStoredSound
<1>10. QED BY ZenonT(30), <1>2, <1>9 DEF on_connected, ready, logon, flag, start, fresh

LEMMA CompleteLogonSound ==
  ASSUME NEW c \in Config, NEW e, Sound(e), NEW m \in Message,
         c.role = "Acceptor" => m.end \in Nat
  PROVE  Sound(CompleteLogon(c, e, m))
<1>1. CASE c.role = "Initiator"
  BY ZenonT(30), <1>1, StateSound DEF CompleteLogon, States
<1>2. CASE c.role # "Initiator"
  <2> DEFINE t == [e EXCEPT !.heartbeat_interval = m.end, !.state = "LoggedOn",
                            !.logon_sent = TRUE]
             logon == logon_with_reset_flag(m.end, maybe_next_expected(c, e), m.flag)
  <2>1. m.end \in Nat /\ m.flag \in BOOLEAN
    BY <1>2 DEF Config, Message
  <2>2. logon \in Message
    BY <2>1, LogonType DEF OptNat
  <2> HIDE DEF logon
  <2>3. Typed(t) /\ t.queue = e.queue /\ t.store = e.store /\ t.next_out = e.next_out
    BY <2>1, ZenonT(40) DEF Sound, Typed, States
  <2>4. Sound(t)
    BY ZenonT(30), <2>3, KeepsSound
  <2> HIDE DEF t
  <2>5. Sound(send_stored(c, t, logon))
    BY <2>2, <2>4, SendStoredSound
  <2>6. QED BY <1>2, <2>5 DEF CompleteLogon, t, logon
<1>3. QED BY <1>1, <1>2

LEMMA AcceptLogonSound ==
  ASSUME NEW c \in Config, NEW e, Sound(e), NEW m \in Message,
         c.role = "Acceptor" => m.end \in Nat
  PROVE  Sound(AcceptLogon(c, e, m))
<1> DEFINE resets == m.flag \/ acceptor_forces_reset(c)
           full == ~e.logon_sent
           r == IF resets THEN reset_sequences(e, full) ELSE e
           expected == m.seq = r.next_in
           ahead == m.seq > r.next_in
           counted == [r EXCEPT !.next_in = IF expected THEN @ + 1 ELSE @]
           stored == IF resets /\ full THEN ResetStore(counted) ELSE counted
           on == CompleteLogon(c, stored, m)
           synced == CASE expected -> drain_queue(c, on)
                       [] ahead /\ ~on.resend_requested -> StartResend(c, on, m.seq)
                       [] OTHER -> on
           settled == [stored EXCEPT !.reset_on_logon_pending = FALSE]
<1>1. Sound(r)
  BY ZenonT(30), ResetSequencesSound
<1> HIDE DEF r
<1>2. m.seq \in Nat /\ r.next_in \in Nat
  BY <1>1 DEF Message, Sound, Typed
<1>3. expected \in BOOLEAN
  OBVIOUS
<1> HIDE DEF expected, resets, full
<1>4. Sound(counted)
  BY ZenonT(30), <1>1, <1>3, CountedSound
<1> HIDE DEF counted
<1>5. Sound(stored)
  BY <1>4, EmitSound DEF ResetStore
<1> HIDE DEF stored
<1>6. Sound(on)
  BY <1>5, CompleteLogonSound
<1> HIDE DEF on
<1>7. Sound(drain_queue(c, on)) /\ Sound(StartResend(c, on, m.seq))
  BY <1>2, <1>6, DrainSound, StartResendSound
<1>8. ~(expected /\ ahead)
  BY <1>2 DEF expected
<1> HIDE DEF ahead
<1>9. Sound(synced)
  BY <1>6, <1>7, <1>8
<1> HIDE DEF synced
<1>10. Sound(build_resend(c, synced, m.num, synced.next_out - 1))
  BY <1>9, BuildResendSound
<1>11. Sound(StartResend(c, stored, m.seq))
  BY <1>2, <1>5, StartResendSound
<1>12. Sound(reject_logon(settled))
  <2>1. Typed(settled) /\ settled.queue = stored.queue /\ settled.store = stored.store
        /\ settled.next_out = stored.next_out
    BY <1>5, ZenonT(60) DEF Sound, Typed
  <2>2. QED BY ZenonT(30), <1>5, <2>1, KeepsSound, RejectLogonSound
<1> HIDE DEF settled
<1>13. AcceptLogon(c, e, m) \in
         {StartResend(c, stored, m.seq), stored, reject_logon(settled), synced,
          build_resend(c, synced, m.num, synced.next_out - 1)}
  BY ZenonT(60) DEF AcceptLogon, settled, synced, on, stored, counted, ahead, expected, r,
         full, resets
<1>14. QED BY <1>5, <1>9, <1>10, <1>11, <1>12, <1>13

LEMMA LogonSound ==
  ASSUME NEW c \in Config, NEW s0, Sound(s0), NEW m \in Message, NEW open
  PROVE  Sound(on_logon(c, s0, m, open))
<1> DEFINE e == [s0 EXCEPT !.logon_received = TRUE]
           refused == validate_app(c, e, m)
           counted == [refused EXCEPT !.next_in = IF m.seq = @ THEN @ + 1 ELSE @]
<1>1. Typed(e) /\ e.queue = s0.queue /\ e.store = s0.store /\ e.next_out = s0.next_out
  BY ZenonT(40) DEF Sound, Typed
<1>2. Sound(e)
  BY ZenonT(30), <1>1, KeepsSound
<1> HIDE DEF e
<1>3. Sound(refused)
  BY <1>2, RejectSound
<1> HIDE DEF refused
<1>4. Sound(counted)
  BY <1>3, CountedSound, ZenonT(40)
<1> HIDE DEF counted
<1>5. Sound(reject_logon(e)) /\ Sound(reject_logon(counted))
  BY <1>2, <1>4, RejectLogonSound
<1>6. ASSUME ~LogonRefused(c, e, m, open)
      PROVE  Sound(AcceptLogon(c, e, m))
  <2>1. m.end \in OptNat /\ m.end # Malformed /\ (c.role = "Acceptor" => ~(m.end <= 0))
    BY <1>6 DEF LogonRefused, Message
  <2>2. c.role = "Acceptor" => m.end \in Nat
    BY <2>1 DEF OptNat, Absent, Malformed
  <2>3. QED BY <1>2, <2>2, AcceptLogonSound
<1>7. QED BY <1>5, <1>6 DEF on_logon, e, refused, counted

-----------------------------------------------------------------------------
(***************************************************************************)
(* Events.                                                                 *)
(***************************************************************************)
LEMMA ReceivedSound ==
  ASSUME NEW c \in Config, NEW s0, Sound(s0), NEW m \in Message, NEW open
  PROVE  Sound(on_received(c, s0, m, open))
<1> DEFINE e == [s0 EXCEPT !.ticks_since_recv = 0, !.test_request_outstanding = FALSE]
<1>1. Typed(e) /\ e.queue = s0.queue /\ e.store = s0.store /\ e.next_out = s0.next_out
  BY ZenonT(40) DEF Sound, Typed
<1>2. Sound(e)
  BY ZenonT(30), <1>1, KeepsSound
<1> HIDE DEF e
<1>3. Sound(build_session_reject(c, e))
  BY <1>2, RejectSound
<1>4. /\ Sound(logout_on_error(c, e))
      /\ Sound(logout_on_error(c, build_session_reject(c, e)))
      /\ Sound(session_reject_before_logout(c, e))
  BY <1>2, <1>3, LogoutOnErrorSound
<1>5. /\ Sound(on_logon(c, e, m, open))
      /\ Sound(on_sequence_reset(c, e, m))
      /\ Sound(on_too_high(c, e, m))
      /\ Sound(on_too_low(c, e, m))
      /\ Sound(on_in_order(c, e, m))
  BY <1>2, LogonSound, SequenceResetSound, TooHighSound, TooLowSound, InOrderSound
<1>6. on_received(c, s0, m, open) \in
        {logout_on_error(c, e), logout_on_error(c, build_session_reject(c, e)),
         session_reject_before_logout(c, e), build_session_reject(c, e),
         on_logon(c, e, m, open), on_sequence_reset(c, e, m), on_too_high(c, e, m),
         on_too_low(c, e, m), on_in_order(c, e, m)}
  BY DEF on_received, e
<1>7. QED BY <1>3, <1>4, <1>5, <1>6

LEMMA HeartbeatSound ==
  ASSUME NEW c \in Config, NEW e, Sound(e)
  PROVE  Sound(HeartbeatIfDue(c, e))
<1>1. base("Heartbeat") \in Message
  BY BaseType DEF MsgTypes, AdminTypes
<1>2. QED BY <1>1, SendStoredSound DEF HeartbeatIfDue

LEMMA MonitorSound ==
  ASSUME NEW c \in Config, NEW e, Sound(e)
  PROVE  Sound(MonitorPeer(c, e))
<1> DEFINE t == [e EXCEPT !.test_request_outstanding = TRUE]
<1>1. base("TestRequest") \in Message
  BY BaseType DEF MsgTypes, AdminTypes
<1>2. Typed(t) /\ t.queue = e.queue /\ t.store = e.store /\ t.next_out = e.next_out
  BY ZenonT(40) DEF Sound, Typed
<1>3. Sound(t)
  BY ZenonT(30), <1>2, KeepsSound
<1> HIDE DEF t
<1>4. Sound(send_stored(c, t, base("TestRequest")))
  BY <1>1, <1>3, SendStoredSound
<1>5. Sound(HeartbeatIfDue(c, e)) /\ Sound(HeartbeatIfDue(c, send_stored(c, t, base("TestRequest"))))
  BY <1>4, HeartbeatSound
<1>6. Sound(Disconnect(enter_disconnected(c, e, "other")))
  BY EnterDisconnectedSound, EmitSound DEF Disconnect
<1>7. QED BY <1>5, <1>6 DEF MonitorPeer, t

LEMMA TickSound ==
  ASSUME NEW c \in Config, NEW s0, Sound(s0), NEW open
  PROVE  Sound(on_tick(c, s0, open))
<1> DEFINE a == MinOf(s0.ticks_since_send + 1, TickMax)
           b == MinOf(s0.ticks_since_recv + 1, TickMax)
           d == MinOf(s0.ticks_awaiting + 1, TickMax)
           e == [s0 EXCEPT !.ticks_since_send = a, !.ticks_since_recv = b,
                           !.ticks_awaiting = d]
<1>1. a \in Nat /\ b \in Nat /\ d \in Nat
  BY TickMaxAssumption DEF MinOf, Sound, Typed, TickMaxAssumption
<1>2. e = [s0 EXCEPT !.ticks_since_send = MinOf(@ + 1, TickMax),
                     !.ticks_since_recv = MinOf(@ + 1, TickMax),
                     !.ticks_awaiting = MinOf(@ + 1, TickMax)]
  BY DEF Sound, Typed
<1> HIDE DEF a, b, d
<1>3. Typed(e) /\ e.queue = s0.queue /\ e.store = s0.store /\ e.next_out = s0.next_out
  BY ZenonT(30), <1>1 DEF Sound, Typed
<1>4. Sound(e)
  BY ZenonT(30), <1>3, KeepsSound
<1> HIDE DEF e
<1>5. Sound(Disconnect(enter_disconnected(c, e, "other")))
  BY <1>4, EnterDisconnectedSound, EmitSound DEF Disconnect
<1>6. Sound(on_start_logout(e)) /\ Sound(HeartbeatIfDue(c, e)) /\ Sound(MonitorPeer(c, e))
  BY <1>4, LogoutSound, HeartbeatSound, MonitorSound
<1>7. on_tick(c, s0, open) \in
        {Disconnect(enter_disconnected(c, e, "other")), e, on_start_logout(e),
         HeartbeatIfDue(c, e), MonitorPeer(c, e)}
  BY <1>2 DEF on_tick
<1>8. QED BY <1>4, <1>5, <1>6, <1>7

-----------------------------------------------------------------------------
(***************************************************************************)
(* Functions that only send.                                               *)
(***************************************************************************)

\* An action that neither replays a sent message nor resets the store.
Quiet(a) == ~Replayed(a) /\ a.op # "reset_store"

\* What is expected and queued stays; the state may only be left.
SameBook(t, u) ==
  /\ u.queue = t.queue /\ u.next_in = t.next_in
  /\ u.last_disconnect_reason = t.last_disconnect_reason
  /\ u.logon_sent = t.logon_sent
  /\ t.state = "Disconnected" => u.state = "Disconnected"
  /\ u.state = "AwaitingLogon" => t.state = "AwaitingLogon"

\* From t to u the engine only sends (and perhaps leaves its state).
Sends(t, u) ==
  /\ u.acts \in Seq(Action)
  /\ Len(u.acts) >= Len(t.acts)
  /\ \A i \in 1..Len(t.acts) : u.acts[i] = t.acts[i]
  /\ \A i \in 1..Len(u.acts) : i > Len(t.acts) => Quiet(u.acts[i])
  /\ u.next_out >= t.next_out
  /\ \A m \in u.store : m \in t.store \/ m.seq >= t.next_out
  /\ SameBook(t, u)

Whole(t) == Sound(t) /\ t.acts \in Seq(Action)

Gapless(t) ==
  \A i \in DOMAIN t.acts :
    (Replayed(t.acts[i]) /\ ~DidReset(t)) =>
      /\ ReplayEnd(t.acts[i]) <= t.next_out
      /\ \A m \in t.store :
           m.seq \in t.acts[i].msg.seq..(ReplayEnd(t.acts[i]) - 1)
             => is_admin_type(m) \/ t.acts[i].op = "resend"
      /\ i > 1 /\ Replayed(t.acts[i - 1])
           => ReplayEnd(t.acts[i - 1]) = t.acts[i].msg.seq

-----------------------------------------------------------------------------
LEMMA WholeTypes ==
  ASSUME NEW t, Whole(t)
  PROVE  /\ Len(t.acts) \in Nat /\ DOMAIN t.acts = 1..Len(t.acts)
         /\ t.next_out \in Nat \ {0} /\ t.next_in \in Nat \ {0}
         /\ t.queue \in SUBSET Message /\ t.store \in SUBSET Message
         /\ \A x \in t.queue \cup t.store : x.seq \in Nat
<1>1. t.next_out \in Nat \ {0} /\ t.next_in \in Nat \ {0}
      /\ t.queue \in SUBSET Message /\ t.store \in SUBSET Message
  BY DEF Whole, Sound, Typed
<1>2. Len(t.acts) \in Nat /\ DOMAIN t.acts = 1..Len(t.acts)
  BY DEF Whole
<1>3. \A x \in Message : x.seq \in Nat
  BY DEF Message
<1>4. QED BY <1>1, <1>2, <1>3

LEMMA SendsTrans ==
  ASSUME NEW t, NEW u, NEW v, Whole(t), Whole(u), Whole(v), Sends(t, u), Sends(u, v)
  PROVE  Sends(t, v)
<1>1. /\ Len(t.acts) \in Nat /\ Len(u.acts) \in Nat /\ Len(v.acts) \in Nat
      /\ t.next_out \in Nat /\ u.next_out \in Nat /\ v.next_out \in Nat
  BY WholeTypes
<1>2. \A i \in 1..Len(t.acts) : v.acts[i] = t.acts[i]
  BY <1>1 DEF Sends
<1>3. \A i \in 1..Len(v.acts) : i > Len(t.acts) => Quiet(v.acts[i])
  BY <1>1 DEF Sends
<1>4. \A m \in v.store : m \in t.store \/ m.seq >= t.next_out
  <2> TAKE m \in v.store
  <2>1. m.seq \in Nat
    BY WholeTypes
  <2>2. QED BY <1>1, <2>1 DEF Sends
<1>5. Len(v.acts) >= Len(t.acts) /\ v.next_out >= t.next_out
  BY <1>1 DEF Sends
<1>6. QED BY <1>2, <1>3, <1>4, <1>5 DEF Sends, SameBook

LEMMA SendsReset ==
  ASSUME NEW t, NEW u, Whole(t), Sends(t, u)
  PROVE  DidReset(u) <=> DidReset(t)
<1>1. Len(t.acts) \in Nat /\ Len(u.acts) \in Nat /\ DOMAIN t.acts = 1..Len(t.acts)
      /\ DOMAIN u.acts = 1..Len(u.acts)
  BY DEF Whole, Sends
<1>2. ASSUME DidReset(t) PROVE DidReset(u)
  BY <1>1, <1>2 DEF DidReset, Sends
<1>3. ASSUME DidReset(u) PROVE DidReset(t)
  <2>1. PICK i \in 1..Len(u.acts) : u.acts[i].op = "reset_store"
    BY <1>1, <1>3 DEF DidReset
  <2>2. i \in 1..Len(t.acts)
    BY <1>1, <2>1 DEF Sends, Quiet
  <2>3. QED BY <1>1, <2>1, <2>2 DEF DidReset, Sends
<1>4. QED BY <1>2, <1>3

LEMMA SendsGapless ==
  ASSUME NEW t, NEW u, Whole(t), Whole(u), Sends(t, u), Gapless(t)
  PROVE  Gapless(u)
<1>1. Len(t.acts) \in Nat /\ Len(u.acts) \in Nat /\ DOMAIN t.acts = 1..Len(t.acts)
      /\ DOMAIN u.acts = 1..Len(u.acts) /\ t.next_out \in Nat /\ u.next_out \in Nat
  BY WholeTypes
<1>2. SUFFICES ASSUME NEW i \in 1..Len(u.acts), Replayed(u.acts[i]), ~DidReset(u)
               PROVE  /\ ReplayEnd(u.acts[i]) <= u.next_out
                      /\ \A m \in u.store :
                           m.seq \in u.acts[i].msg.seq..(ReplayEnd(u.acts[i]) - 1)
                             => is_admin_type(m) \/ u.acts[i].op = "resend"
                      /\ i > 1 /\ Replayed(u.acts[i - 1])
                           => ReplayEnd(u.acts[i - 1]) = u.acts[i].msg.seq
  BY ZenonT(30), <1>1 DEF Gapless
<1>3. i \in 1..Len(t.acts) /\ u.acts[i] = t.acts[i]
  BY <1>1, <1>2 DEF Sends, Quiet
<1>4. ~DidReset(t)
  BY <1>2, SendsReset
<1>5. /\ ReplayEnd(t.acts[i]) <= t.next_out
      /\ \A m \in t.store :
           m.seq \in t.acts[i].msg.seq..(ReplayEnd(t.acts[i]) - 1)
             => is_admin_type(m) \/ t.acts[i].op = "resend"
      /\ i > 1 /\ Replayed(t.acts[i - 1])
           => ReplayEnd(t.acts[i - 1]) = t.acts[i].msg.seq
  BY ZenonT(30), <1>1, <1>2, <1>3, <1>4 DEF Gapless
<1>6. t.acts[i] \in Action
  BY <1>1, <1>3 DEF Whole
<1>7. t.acts[i].msg.seq \in Nat /\ ReplayEnd(t.acts[i]) \in Int
  BY <1>6 DEF ReplayEnd, Action, Message, OptNat, Absent, Malformed
<1>8. ReplayEnd(u.acts[i]) <= u.next_out
  BY <1>1, <1>3, <1>5, <1>7 DEF Sends
<1>9. ASSUME NEW m \in u.store,
             m.seq \in u.acts[i].msg.seq..(ReplayEnd(u.acts[i]) - 1)
      PROVE  is_admin_type(m) \/ u.acts[i].op = "resend"
  <2>1. m.seq < t.next_out /\ m.seq \in Int
    BY <1>1, <1>3, <1>5, <1>7, <1>9
  <2>2. m \in t.store
    BY <1>1, <2>1 DEF Sends
  <2>3. QED BY <1>3, <1>5, <1>9, <2>2
<1>10. ASSUME i > 1, Replayed(u.acts[i - 1])
       PROVE  ReplayEnd(u.acts[i - 1]) = u.acts[i].msg.seq
  <2>1. i - 1 \in 1..Len(t.acts)
    BY <1>1, <1>3, <1>10
  <2>2. u.acts[i - 1] = t.acts[i - 1]
    BY <2>1 DEF Sends
  <2>3. QED BY ZenonT(30), <1>3, <1>5, <1>10, <2>2
<1>11. QED BY <1>8, <1>9, <1>10

-----------------------------------------------------------------------------
LEMMA OneAction ==
  ASSUME NEW t, Whole(t), NEW u, Sound(u), NEW a \in Action, Quiet(a),
         u.acts = t.acts \/ u.acts = Append(t.acts, a),
         u.next_out >= t.next_out,
         \A m \in u.store : m \in t.store \/ m.seq >= t.next_out,
         SameBook(t, u)
  PROVE  Whole(u) /\ Sends(t, u)
<1>1. t.acts \in Seq(Action) /\ Len(t.acts) \in Nat
  BY DEF Whole
<1>2. CASE u.acts = t.acts
  BY <1>1, <1>2 DEF Sends, Whole
<1>3. CASE u.acts = Append(t.acts, a)
  <2>1. /\ u.acts \in Seq(Action) /\ Len(u.acts) = Len(t.acts) + 1
        /\ u.acts[Len(t.acts) + 1] = a
        /\ \A i \in 1..Len(t.acts) : u.acts[i] = t.acts[i]
    BY <1>1, <1>3
  <2>2. \A i \in 1..Len(u.acts) : i > Len(t.acts) => Quiet(u.acts[i])
    BY <1>1, <2>1
  <2>3. QED BY <1>1, <2>1, <2>2 DEF Sends, Whole
<1>4. QED BY <1>2, <1>3

LEMMA SomeAction ==
  /\ [op |-> "disconnect", msg |-> base("Logout")] \in Action
  /\ Quiet([op |-> "disconnect", msg |-> base("Logout")])
<1>1. base("Logout") \in Message
  BY BaseType DEF MsgTypes, AdminTypes
<1>2. QED BY <1>1 DEF Action, Quiet, Replayed

LEMMA SilentSends ==
  ASSUME NEW t, Whole(t), NEW u, Sound(u), u.acts = t.acts, u.store = t.store,
         u.next_out = t.next_out, SameBook(t, u)
  PROVE  Whole(u) /\ Sends(t, u)
<1>1. u.next_out >= t.next_out
  BY WholeTypes
<1>2. QED BY <1>1, SomeAction, OneAction

LEMMA SendStoredSends ==
  ASSUME NEW c \in Config, NEW t, Whole(t), NEW m \in Message,
         m.type # "SequenceReset"
  PROVE  /\ Whole(send_stored(c, t, m)) /\ Sends(t, send_stored(c, t, m))
         /\ send_stored(c, t, m).state = t.state
<1> DEFINE u == send_stored(c, t, m)
           out == [m EXCEPT !.seq = t.next_out]
           act == [op |-> "send", msg |-> out]
<1>1. Sound(u) /\ t.next_out \in Nat
  BY SendStoredSound, WholeTypes DEF Whole
<1>2. out \in Message /\ out.type = m.type /\ out.seq = t.next_out
  BY <1>1 DEF Message
<1>3. /\ u.acts = Append(t.acts, act) /\ u.next_out = t.next_out + 1
      /\ u.store = IF c.persist_messages THEN Put(t.store, out) ELSE t.store
      /\ u.state = t.state /\ SameBook(t, u)
  BY DEF send_stored, Whole, Sound, Typed, SameBook
<1> HIDE DEF u, out
<1>4. act \in Action /\ Quiet(act)
  BY <1>2 DEF Action, Quiet, Replayed
<1>5. \A x \in u.store : x \in t.store \/ x.seq >= t.next_out
  BY <1>1, <1>2, <1>3 DEF Put
<1> HIDE DEF act
<1>6. Whole(u) /\ Sends(t, u)
  BY <1>1, <1>3, <1>4, <1>5, OneAction
<1>7. QED BY <1>3, <1>6 DEF u

LEMMA SendLogoutSends ==
  ASSUME NEW t, Whole(t)
  PROVE  Whole(send_logout(t)) /\ Sends(t, send_logout(t))
<1> DEFINE u == send_logout(t)
           out == [base("Logout") EXCEPT !.seq = t.next_out]
           act == [op |-> "send", msg |-> out]
<1>1. Sound(u) /\ t.next_out \in Nat
  BY SendLogoutSound, WholeTypes DEF Whole
<1>2. base("Logout") \in Message /\ base("Logout").type = "Logout"
  BY BaseType DEF MsgTypes, AdminTypes, base
<1>3. out \in Message /\ out.type = "Logout"
  BY <1>1, <1>2 DEF Message
<1>4. /\ u.acts = Append(t.acts, act) /\ u.next_out = t.next_out + 1
      /\ u.store = t.store /\ SameBook(t, u)
  BY DEF send_logout, Whole, Sound, Typed, SameBook
<1> HIDE DEF u, out
<1>5. act \in Action /\ Quiet(act)
  BY <1>3 DEF Action, Quiet, Replayed
<1> HIDE DEF act
<1>6. Whole(u) /\ Sends(t, u)
  BY <1>1, <1>4, <1>5, OneAction
<1>7. QED BY <1>6 DEF u

LEMMA DisconnectSends ==
  ASSUME NEW t, Whole(t)
  PROVE  /\ Whole(Disconnect(t)) /\ Sends(t, Disconnect(t))
         /\ Disconnect(t).state = t.state
<1> DEFINE u == Disconnect(t)
           act == [op |-> "disconnect", msg |-> base("Logout")]
<1>1. Sound(u) /\ t.next_out \in Nat
  BY EmitSound, WholeTypes DEF Whole, Disconnect
<1>2. /\ u.acts = Append(t.acts, act) /\ u.next_out = t.next_out
      /\ u.store = t.store /\ u.state = t.state /\ SameBook(t, u)
  BY DEF Disconnect, Emit, Whole, Sound, Typed, SameBook
<1>3. act \in Action /\ Quiet(act)
  BY SomeAction
<1> HIDE DEF u, act
<1>4. Whole(u) /\ Sends(t, u)
  BY <1>1, <1>2, <1>3, OneAction
<1>5. QED BY <1>2, <1>4 DEF u

\* Leaving for good, in silence.
LEMMA GoneSends ==
  ASSUME NEW t, Whole(t)
  PROVE  LET u == [t EXCEPT !.state = "Disconnected"]
         IN  Whole(u) /\ Sends(t, u) /\ u.state = "Disconnected"
<1> DEFINE u == [t EXCEPT !.state = "Disconnected"]
<1>1. Sound(u)
  BY ZenonT(30), StateSound DEF Whole, States
<1>2. /\ u.acts = t.acts /\ u.next_out = t.next_out
      /\ u.store = t.store /\ u.state = "Disconnected" /\ SameBook(t, u)
  BY DEF Whole, Sound, Typed, SameBook
<1> HIDE DEF u
<1>3. Whole(u) /\ Sends(t, u)
  BY <1>1, <1>2, SilentSends
<1>4. QED BY <1>2, <1>3 DEF u

\* Two sendings in a row.
LEMMA ThenSends ==
  ASSUME NEW t, NEW u, NEW v, Whole(t),
         Whole(u) /\ Sends(t, u), Whole(v) /\ Sends(u, v)
  PROVE  Whole(v) /\ Sends(t, v)
BY SendsTrans

LEMMA StaysSends ==
  ASSUME NEW t, Whole(t)
  PROVE  Sends(t, t)
BY WholeTypes DEF Sends, SameBook, Whole

LEMMA AdminTyped ==
  \A type \in {"Reject", "BusinessReject", "Heartbeat", "TestRequest", "ResendRequest",
               "Logon", "App"} :
    base(type) \in Message /\ base(type).type = type /\ type # "SequenceReset"
<1> TAKE type \in {"Reject", "BusinessReject", "Heartbeat", "TestRequest", "ResendRequest",
                   "Logon", "App"}
<1>1. base(type) \in Message
  BY BaseType DEF MsgTypes, AdminTypes
<1>2. QED BY <1>1 DEF base

LEMMA RejectSends ==
  ASSUME NEW c \in Config, NEW t, Whole(t), NEW m
  PROVE  /\ Whole(build_session_reject(c, t)) /\ Sends(t, build_session_reject(c, t))
         /\ Whole(validate_app(c, t, m)) /\ Sends(t, validate_app(c, t, m))
         /\ Whole(on_garbled(c, t)) /\ Sends(t, on_garbled(c, t))
<1>1. /\ base("Reject") \in Message /\ base("Reject").type # "SequenceReset"
      /\ base("BusinessReject") \in Message /\ base("BusinessReject").type # "SequenceReset"
  BY AdminTyped
<1>2. /\ Whole(build_session_reject(c, t)) /\ Sends(t, build_session_reject(c, t))
      /\ Whole(business_reject(c, t)) /\ Sends(t, business_reject(c, t))
  BY <1>1, SendStoredSends DEF build_session_reject, business_reject
<1>3. QED BY <1>2, StaysSends DEF validate_app, on_garbled

LEMMA SendAppSends ==
  ASSUME NEW c \in Config, NEW t, Whole(t), NEW body \in Nat
  PROVE  Whole(send_app(c, t, body)) /\ Sends(t, send_app(c, t, body))
<1>1. base("App") \in Message /\ base("App").type = "App"
  BY AdminTyped
<1>2. [base("App") EXCEPT !.body = body] \in Message
      /\ [base("App") EXCEPT !.body = body].type = "App"
  BY <1>1 DEF Message
<1>3. QED BY ZenonT(30), <1>2, SendStoredSends DEF send_app

LEMMA RejectLogonSends ==
  ASSUME NEW t, Whole(t)
  PROVE  /\ Whole(reject_logon(t)) /\ Sends(t, reject_logon(t))
         /\ reject_logon(t).state = "Disconnected"
<1> DEFINE u == send_logout(t)
           v == [u EXCEPT !.state = "Disconnected"]
<1>1. Whole(u) /\ Sends(t, u)
  BY SendLogoutSends
<1> HIDE DEF u
<1>2. Whole(v) /\ Sends(u, v) /\ v.state = "Disconnected"
  BY <1>1, GoneSends
<1> HIDE DEF v
<1>3. Whole(v) /\ Sends(t, v)
  BY <1>1, <1>2, ThenSends
<1>4. Whole(Disconnect(v)) /\ Sends(v, Disconnect(v)) /\ Disconnect(v).state = "Disconnected"
  BY <1>2, DisconnectSends
<1>5. Whole(Disconnect(v)) /\ Sends(t, Disconnect(v))
  BY <1>3, <1>4, ThenSends
<1>6. QED BY <1>4, <1>5 DEF reject_logon, v, u

LEMMA RejectThenLogoutSends ==
  ASSUME NEW c \in Config, NEW t, Whole(t)
  PROVE  /\ Whole(session_reject_before_logout(c, t))
         /\ Sends(t, session_reject_before_logout(c, t))
         /\ session_reject_before_logout(c, t).state = "Disconnected"
<1> DEFINE u == build_session_reject(c, t)
<1>1. Whole(u) /\ Sends(t, u)
  BY RejectSends
<1> HIDE DEF u
<1>2. Whole(reject_logon(u)) /\ Sends(u, reject_logon(u))
      /\ reject_logon(u).state = "Disconnected"
  BY <1>1, RejectLogonSends
<1>3. QED BY <1>1, <1>2, ThenSends DEF session_reject_before_logout, u

LEMMA StartLogoutSends ==
  ASSUME NEW t, Whole(t)
  PROVE  Whole(on_start_logout(t)) /\ Sends(t, on_start_logout(t))
<1> DEFINE u == send_logout(t)
           v == [u EXCEPT !.ticks_awaiting = 0, !.state = "AwaitingLogout"]
<1>1. Whole(u) /\ Sends(t, u)
  BY SendLogoutSends
<1>2. CASE t.state = "LoggedOn"
  <2>0. u.state = "LoggedOn"
    BY <1>2 DEF send_logout, Whole, Sound, Typed
  <2> HIDE DEF u
  <2>1. Sound(v)
    BY ZenonT(30), <1>1, StateSound DEF Whole, States
  <2>2. /\ v.acts = u.acts /\ v.next_out = u.next_out /\ v.store = u.store
        /\ SameBook(u, v)
    BY <1>1, <2>0 DEF Whole, Sound, Typed, SameBook
  <2> HIDE DEF v
  <2>3. Whole(v) /\ Sends(u, v)
    BY <1>1, <2>1, <2>2, SilentSends
  <2>4. Whole(v) /\ Sends(t, v)
    BY <1>1, <2>3, ThenSends
  <2>5. QED BY <1>2, <2>4 DEF on_start_logout, v, u
<1>3. CASE t.state # "LoggedOn"
  BY <1>3, StaysSends DEF on_start_logout
<1>4. QED BY <1>2, <1>3

LEMMA RequestResendSends ==
  ASSUME NEW c \in Config, NEW t, Whole(t), NEW begin \in Nat
  PROVE  Whole(request_resend(c, t, begin)) /\ Sends(t, request_resend(c, t, begin))
<1> DEFINE capped == begin + c.chunk_size - 1
           chunk_end == IF c.chunk_size = 0 THEN Absent
                        ELSE IF t.resend_target = Absent THEN capped
                        ELSE MinOf(t.resend_target, capped)
           u == [t EXCEPT !.resend_chunk_end = chunk_end]
           req == resend_request(begin, MaxOf(chunk_end, 0))
<1>1. c.chunk_size \in Nat /\ t.resend_target \in Nat \cup {Absent}
  BY DEF Config, Whole, Sound, Typed
<1>2. chunk_end \in Nat \cup {Absent}
  BY <1>1 DEF MinOf, Absent
<1>3. MaxOf(chunk_end, 0) \in Nat
  BY <1>2 DEF MaxOf, Absent
<1> HIDE DEF chunk_end
<1>4. base("ResendRequest") \in Message /\ base("ResendRequest").type = "ResendRequest"
  BY AdminTyped
<1>5. req \in Message /\ req.type # "SequenceReset"
  BY ZenonT(30), <1>3, <1>4 DEF resend_request, Message, OptNat
<1> HIDE DEF req
<1>6. /\ Typed(u) /\ u.queue = t.queue /\ u.store = t.store /\ u.next_out = t.next_out
      /\ u.acts = t.acts /\ SameBook(t, u)
  BY ZenonT(30), <1>2 DEF Whole, Sound, Typed, SameBook
<1> HIDE DEF u
<1>7. Whole(u) /\ Sends(t, u)
  BY <1>6, KeepsSound, SilentSends DEF Whole
<1>8. Whole(send_stored(c, u, req)) /\ Sends(u, send_stored(c, u, req))
  BY <1>5, <1>7, SendStoredSends
<1>9. QED BY <1>7, <1>8, ThenSends DEF request_resend, u, req, chunk_end

LEMMA StartResendSends ==
  ASSUME NEW c \in Config, NEW t, Whole(t), NEW seq \in Nat
  PROVE  Whole(StartResend(c, t, seq)) /\ Sends(t, StartResend(c, t, seq))
<1> DEFINE target == IF c.chunk_size > 0 THEN MaxOf(t.resend_target, seq)
                                         ELSE t.resend_target
           u == [t EXCEPT !.resend_requested = TRUE, !.resend_target = target]
<1>1. t.next_in \in Nat /\ t.resend_target \in Nat \cup {Absent}
  BY DEF Whole, Sound, Typed
<1>2. target \in Nat \cup {Absent}
  BY <1>1 DEF MaxOf, Absent
<1>3. StartResend(c, t, seq) = request_resend(c, u, t.next_in)
  BY DEF StartResend, Whole, Sound, Typed
<1> HIDE DEF target
<1>4. /\ Typed(u) /\ u.queue = t.queue /\ u.store = t.store /\ u.next_out = t.next_out
      /\ u.acts = t.acts /\ SameBook(t, u)
  BY ZenonT(30), <1>2 DEF Whole, Sound, Typed, SameBook
<1> HIDE DEF u
<1>5. Whole(u) /\ Sends(t, u)
  BY <1>4, KeepsSound, SilentSends DEF Whole
<1>6. QED BY <1>1, <1>3, <1>5, RequestResendSends, ThenSends

LEMMA ContinueResendSends ==
  ASSUME NEW c \in Config, NEW t, Whole(t)
  PROVE  /\ Whole(maybe_continue_chunked_resend(c, t))
         /\ Sends(t, maybe_continue_chunked_resend(c, t))
<1> DEFINE u == [t EXCEPT !.resend_target = Absent, !.resend_chunk_end = Absent]
<1>1. t.next_in \in Nat
  BY DEF Whole, Sound, Typed
<1>2. /\ Typed(u) /\ u.queue = t.queue /\ u.store = t.store /\ u.next_out = t.next_out
      /\ u.acts = t.acts /\ SameBook(t, u)
  BY ZenonT(30) DEF Whole, Sound, Typed, SameBook
<1>3. Whole(u) /\ Sends(t, u)
  <2> HIDE DEF u
  <2>1. QED BY <1>2, KeepsSound, SilentSends DEF Whole
<1>4. /\ Whole(request_resend(c, t, t.next_in))
      /\ Sends(t, request_resend(c, t, t.next_in))
  BY <1>1, RequestResendSends
<1>5. QED BY <1>3, <1>4, StaysSends DEF maybe_continue_chunked_resend

LEMMA HeartbeatSends ==
  ASSUME NEW c \in Config, NEW t, Whole(t)
  PROVE  /\ Whole(HeartbeatIfDue(c, t)) /\ Sends(t, HeartbeatIfDue(c, t))
         /\ Whole(answer_test_request(c, t)) /\ Sends(t, answer_test_request(c, t))
<1>1. base("Heartbeat") \in Message /\ base("Heartbeat").type # "SequenceReset"
  BY AdminTyped
<1>2. QED BY <1>1, SendStoredSends, StaysSends DEF HeartbeatIfDue, answer_test_request
=============================================================================
