----------------------------- MODULE SessionCore -----------------------------
(***************************************************************************)
(* The sans-IO session engine of truefix-session/src/state.rs, as pure     *)
(* operators: each takes the configuration c and a session s and returns   *)
(* the session after the call.  The actions the Rust method returns are    *)
(* appended to s.acts in the order in which the transport performs them.   *)
(*                                                                         *)
(* What a message says is kept only as far as the engine looks at it:      *)
(* checks on its contents (SendingTime, CompIDs, dictionary) are the set   *)
(* m.faults of the checks it fails under the session's configuration.      *)
(***************************************************************************)
EXTENDS Integers, Sequences, FiniteSets

\* Where the u32 tick counters saturate (u32::MAX in the code).
CONSTANT TickMax

ASSUME TickMaxAssumption == TickMax \in Nat

-----------------------------------------------------------------------------
(***************************************************************************)
(* Messages.                                                               *)
(***************************************************************************)

Absent == -1      \* an optional tag that is not there
Malformed == -2   \* a numeric tag that is negative or does not parse (a
                  \* HeartBtInt that does not parse is treated as Absent)

AdminTypes == {"Logon", "Logout", "Heartbeat", "TestRequest",
               "ResendRequest", "Reject", "SequenceReset"}
MsgTypes == AdminTypes \cup {"App", "BusinessReject"}

\* The checks a message can fail:
\*   latency       SendingTime outside MaxLatency
\*   begin_string  BeginString of another version
\*   comp_id       SenderCompID / TargetCompID of another session
\*   orig_late     OrigSendingTime later than SendingTime
\*   orig_missing  no OrigSendingTime
\*   dict          dictionary validation, answered with a session Reject
\*   dict_business dictionary validation, answered with a BusinessReject
\*   appl_ver      DefaultApplVerID without a registered dictionary
Faults == {"latency", "begin_string", "comp_id", "orig_late", "orig_missing",
           "dict", "dict_business", "appl_ver"}

OptNat == Nat \cup {Absent, Malformed}

(***************************************************************************)
(* One record for all message types:                                       *)
(*   seq    MsgSeqNum, 0 when it is missing or invalid                     *)
(*   poss   PossDupFlag = Y                                                *)
(*   flag   ResetSeqNumFlag (Logon), GapFillFlag (SequenceReset)           *)
(*   num    NextExpectedMsgSeqNum (Logon), NewSeqNo (SequenceReset),       *)
(*          BeginSeqNo (ResendRequest)                                     *)
(*   end    HeartBtInt (Logon), EndSeqNo (ResendRequest)                   *)
(*   body   the content of an application message                          *)
(***************************************************************************)
Message ==
  [type : MsgTypes, seq : Nat, poss : BOOLEAN, flag : BOOLEAN, num : OptNat,
   end : OptNat, faults : SUBSET Faults, body : Nat]

base(type) ==
  [type |-> type, seq |-> 0, poss |-> FALSE, flag |-> FALSE, num |-> Absent,
   end |-> Absent, faults |-> {}, body |-> 0]

is_admin_type(m) == m.type \in AdminTypes

IsInvalid(m) == m.faults \cap {"dict", "dict_business"} # {}

logon_with_reset_flag(hb, next_expected, reset_flag) ==
  [base("Logon") EXCEPT !.flag = reset_flag, !.num = next_expected, !.end = hb]

resend_request(begin, end) ==
  [base("ResendRequest") EXCEPT !.num = begin, !.end = end]

\* The engine only builds gap fills; they carry PossDupFlag but no
\* OrigSendingTime.
sequence_reset(seq, new_seq_no) ==
  [base("SequenceReset") EXCEPT !.seq = seq, !.poss = TRUE, !.flag = TRUE,
                                !.num = new_seq_no, !.faults = {"orig_missing"}]

prepare_resend(m) == [m EXCEPT !.poss = TRUE]

-----------------------------------------------------------------------------
(***************************************************************************)
(* Configuration and session.                                              *)
(***************************************************************************)

Config ==
  [role : {"Initiator", "Acceptor"},
   reset_on_logon : BOOLEAN, reset_on_logout : BOOLEAN,
   reset_on_disconnect : BOOLEAN, reset_on_error : BOOLEAN,
   disconnect_on_error : BOOLEAN, refresh_on_logon : BOOLEAN,
   persist_messages : BOOLEAN, enable_next_expected : BOOLEAN,
   send_redundant : BOOLEAN, reject_garbled : BOOLEAN,
   requires_orig : BOOLEAN, disable_heart_beat_check : BOOLEAN,
   force_resend : BOOLEAN, has_schedule : BOOLEAN,
   chunk_size : Nat,             \* resend_request_chunk_size
   heartbeat_interval : Nat, logon_timeout : Nat, logout_timeout : Nat,
   hb_timeout_tenths : Nat,      \* heartbeat_timeout_multiplier, in tenths
   test_delay_tenths : Nat]      \* test_request_delay_multiplier, in tenths

States == {"Disconnected", "AwaitingLogon", "LoggedOn", "AwaitingLogout"}

Action == [op : {"send", "resend", "disconnect", "reset_store"}, msg : Message]

\* `store' (sent messages) and `queue' (messages received ahead of a gap) are
\* maps keyed by MsgSeqNum, kept as sets of messages with distinct seq.
Session ==
  [state : States, next_out : Nat \ {0}, next_in : Nat \ {0},
   ticks_since_send : Nat, ticks_since_recv : Nat, ticks_awaiting : Nat,
   test_request_outstanding : BOOLEAN,
   logon_sent : BOOLEAN, logon_received : BOOLEAN,
   resend_requested : BOOLEAN,
   resend_target : Nat \cup {Absent}, resend_chunk_end : Nat \cup {Absent},
   store : SUBSET Message, queue : SUBSET Message,
   heartbeat_interval : Nat, reset_on_logon_pending : BOOLEAN,
   last_disconnect_reason : {"none", "graceful", "other"},
   acts : Seq(Action)]

new(c) ==
  [state |-> "Disconnected", next_out |-> 1, next_in |-> 1,
   ticks_since_send |-> 0, ticks_since_recv |-> 0, ticks_awaiting |-> 0,
   test_request_outstanding |-> FALSE,
   logon_sent |-> FALSE, logon_received |-> FALSE,
   resend_requested |-> FALSE,
   resend_target |-> Absent, resend_chunk_end |-> Absent,
   store |-> {}, queue |-> {},
   heartbeat_interval |-> c.heartbeat_interval,
   reset_on_logon_pending |-> FALSE, last_disconnect_reason |-> "none",
   acts |-> <<>>]

MaxOf(a, b) == IF a >= b THEN a ELSE b
MinOf(a, b) == IF a <= b THEN a ELSE b

\* BTreeMap::insert keyed by MsgSeqNum.
Put(map, m) == {x \in map : x.seq # m.seq} \cup {m}

Emit(s, op, m) == [s EXCEPT !.acts = Append(@, [op |-> op, msg |-> m])]
Disconnect(s) == Emit(s, "disconnect", base("Logout"))
ResetStore(s) == Emit(s, "reset_store", base("Logon"))

-----------------------------------------------------------------------------
(***************************************************************************)
(* Sending.                                                                *)
(***************************************************************************)

\* next_seq + send_stored: take the next MsgSeqNum and keep the message for a
\* resend unless PersistMessages is off.
send_stored(c, s, m) ==
  LET sent == [m EXCEPT !.seq = s.next_out]
  IN  [s EXCEPT !.next_out = @ + 1,
                !.ticks_since_send = 0,
                !.store = IF c.persist_messages THEN Put(@, sent) ELSE @,
                !.acts = Append(@, [op |-> "send", msg |-> sent])]

\* next_seq + send_logout: a Logout takes a MsgSeqNum and is not stored.
send_logout(s) ==
  LET lo == [base("Logout") EXCEPT !.seq = s.next_out]
  IN  [s EXCEPT !.next_out = @ + 1,
                !.ticks_since_send = 0,
                !.acts = Append(@, [op |-> "send", msg |-> lo])]

build_session_reject(c, s) == send_stored(c, s, base("Reject"))

send_app(c, s, body) == send_stored(c, s, [base("App") EXCEPT !.body = body])

business_reject(c, s) == send_stored(c, s, base("BusinessReject"))

on_garbled(c, s) ==
  IF c.reject_garbled /\ s.state = "LoggedOn"
  THEN build_session_reject(c, s)
  ELSE s

discard_sent(s, seq) == [s EXCEPT !.store = {m \in @ : m.seq # seq}]

-----------------------------------------------------------------------------
(***************************************************************************)
(* Sequence numbers from and to the durable store, and resets.             *)
(***************************************************************************)

refresh_sequences(s, next_out, next_in) ==
  [s EXCEPT !.next_out = MaxOf(next_out, 1), !.next_in = MaxOf(next_in, 1)]

seed_sequences(s, next_out, next_in) ==
  IF s.logon_sent THEN s ELSE refresh_sequences(s, next_out, next_in)

seed_sent_messages(c, s, messages) ==
  IF s.logon_sent \/ ~c.persist_messages THEN s
  ELSE [s EXCEPT !.store =
          {m \in @ : \A n \in messages : n.seq # m.seq} \cup messages]

\* Faulty variant: a full reset keeps the sent messages.
reset_keeps_store(s, full) ==
  [s EXCEPT !.next_in = 1,
            !.queue = {},
            !.resend_requested = FALSE,
            !.resend_target = Absent,
            !.resend_chunk_end = Absent,
            !.test_request_outstanding = FALSE,
            !.next_out = IF full THEN 1 ELSE @]

reset_sequences(s, full) ==
  [s EXCEPT !.next_in = 1,
            !.queue = {},
            !.resend_requested = FALSE,
            !.resend_target = Absent,
            !.resend_chunk_end = Absent,
            !.test_request_outstanding = FALSE,
            !.next_out = IF full THEN 1 ELSE @,
            !.store = IF full THEN {} ELSE @]

\* Operational reset (Monitor::reset).
reset(s) == [reset_sequences(s, TRUE) EXCEPT !.logon_sent = FALSE]

reset_on_error(c, s) ==
  IF c.reset_on_error THEN ResetStore(reset(s)) ELSE s

\* Faulty variant: the second call of a teardown does nothing.
enter_disconnected_once(c, s, reason) ==
  LET gone == [s EXCEPT !.state = "Disconnected",
                        !.last_disconnect_reason = reason]
      should_reset == IF reason = "graceful" THEN c.reset_on_logout
                                             ELSE c.reset_on_disconnect
  IN  IF should_reset /\ s.state # "Disconnected"
      THEN ResetStore(reset(gone)) ELSE gone

enter_disconnected(c, s, reason) ==
  LET gone == [s EXCEPT !.state = "Disconnected",
                        !.last_disconnect_reason = reason]
      should_reset == IF reason = "graceful" THEN c.reset_on_logout
                                             ELSE c.reset_on_disconnect
  IN  IF should_reset THEN ResetStore(reset(gone)) ELSE gone

-----------------------------------------------------------------------------
(***************************************************************************)
(* Tearing the session down.                                               *)
(***************************************************************************)

\* Logout and disconnect, without a reset (reject_logon).
reject_logon(s) ==
  Disconnect([send_logout(s) EXCEPT !.state = "Disconnected"])

session_reject_before_logout(c, s) == reject_logon(build_session_reject(c, s))

\* Logout, ResetOnError, disconnect: the latency, identity, too-low and
\* not-logged-on branches of on_received.
logout_on_error(c, s) ==
  Disconnect(reset_on_error(c,
    [send_logout(s) EXCEPT !.state = "Disconnected"]))

on_logout_msg(c, s) ==
  Disconnect(enter_disconnected(c,
    IF s.state = "AwaitingLogout" THEN s ELSE send_logout(s), "graceful"))

on_start_logout(s) ==
  IF s.state = "LoggedOn"
  THEN [send_logout(s) EXCEPT !.ticks_awaiting = 0, !.state = "AwaitingLogout"]
  ELSE s

-----------------------------------------------------------------------------
(***************************************************************************)
(* Resending what the counterparty asks for.                               *)
(***************************************************************************)

\* Faulty variant: the test is the wrong way round.
ResendableAdmin(c, s) == {m \in s.store : is_admin_type(m) \/ c.force_resend}

\* Stored messages that are sent again; everything else in a requested range
\* (admin messages, messages that were never stored) is gap-filled.
Resendable(c, s) == {m \in s.store : ~is_admin_type(m) \/ c.force_resend}

\* Faulty variant: only the run at the beginning is gap-filled.
ResendPointsHoles(c, s, begin, end) ==
  LET kept == {m.seq : m \in Resendable(c, s)}
  IN  {n \in begin..end : n \in kept \/ n = begin}

\* The sequence numbers of begin..end at which a message goes out: one per
\* resendable message, and one gap fill per maximal run of the others.
ResendPoints(c, s, begin, end) ==
  LET kept == {m.seq : m \in Resendable(c, s)}
  IN  {n \in begin..end : n \in kept \/ n = begin \/ n - 1 \in kept}

\* Faulty variant: the last gap fill stops one short of the end.
ResendActionShort(c, s, end, n) ==
  LET kept == {m \in Resendable(c, s) : m.seq \in n..end}
      after == {m.seq : m \in kept} \cup {end}
      new_seq_no == CHOOSE k \in after : \A j \in after : k <= j
  IN  IF \E m \in kept : m.seq = n
      THEN [op |-> "resend",
            msg |-> prepare_resend(CHOOSE m \in kept : m.seq = n)]
      ELSE [op |-> "send", msg |-> sequence_reset(n, new_seq_no)]

ResendAction(c, s, end, n) ==
  LET kept == {m \in Resendable(c, s) : m.seq \in n..end}
      after == {m.seq : m \in kept} \cup {end + 1}
      new_seq_no == CHOOSE k \in after : \A j \in after : k <= j
  IN  IF new_seq_no = n
      THEN [op |-> "resend",
            msg |-> prepare_resend(CHOOSE m \in kept : m.seq = n)]
      ELSE [op |-> "send", msg |-> sequence_reset(n, new_seq_no)]

build_resend(c, s, begin, end) ==
  LET points == ResendPoints(c, s, begin, end)
      nth(i) == CHOOSE n \in points : Cardinality({k \in points : k <= n}) = i
      out == [i \in 1..Cardinality(points) |->
                ResendAction(c, s, end, nth(i))]
  IN  [s EXCEPT !.ticks_since_send = 0, !.acts = @ \o out]

\* EndSeqNo = 0 and any number beyond the last one sent mean "to the end" (so
\* does 999999 up to FIX.4.2, which no bound here reaches).
on_resend_request(c, s, m) ==
  LET begin == IF m.num = 0 THEN 1 ELSE m.num
      last == s.next_out - 1
      end == IF m.end <= 0 \/ m.end > last THEN last ELSE m.end
  IN  IF m.num = Absent \/ m.end = Absent THEN build_session_reject(c, s)
      ELSE IF begin <= 0 \/ begin > end THEN s
      ELSE build_resend(c, s, begin, end)

-----------------------------------------------------------------------------
(***************************************************************************)
(* Asking the counterparty to resend.                                      *)
(***************************************************************************)

request_resend(c, s, begin) ==
  LET capped == begin + c.chunk_size - 1
      chunk_end == IF c.chunk_size = 0 THEN Absent
                   ELSE IF s.resend_target = Absent THEN capped
                   ELSE MinOf(s.resend_target, capped)
  IN  send_stored(c, [s EXCEPT !.resend_chunk_end = chunk_end],
                  resend_request(begin, MaxOf(chunk_end, 0)))

\* Record a gap reaching up to seq and ask for it, from the first missing one.
StartResend(c, s, seq) ==
  request_resend(c,
    [s EXCEPT !.resend_requested = TRUE,
              !.resend_target = IF c.chunk_size > 0 THEN MaxOf(@, seq) ELSE @],
    s.next_in)

maybe_continue_chunked_resend(c, s) ==
  CASE s.resend_target = Absent -> s
    [] s.resend_target # Absent /\ s.next_in > s.resend_target ->
         [s EXCEPT !.resend_target = Absent, !.resend_chunk_end = Absent]
    [] OTHER ->
         IF s.resend_chunk_end # Absent /\ s.next_in > s.resend_chunk_end
         THEN request_resend(c, s, s.next_in)
         ELSE s

-----------------------------------------------------------------------------
(***************************************************************************)
(* In-order processing and the queue of messages received ahead of a gap.  *)
(***************************************************************************)

answer_test_request(c, s) ==
  IF s.state = "LoggedOn" THEN send_stored(c, s, base("Heartbeat")) ELSE s

process_in_order(c, s, m) ==
  CASE m.type = "TestRequest" -> answer_test_request(c, s)
    [] m.type = "ResendRequest" -> on_resend_request(c, s, m)
    [] m.type = "Logout" -> on_logout_msg(c, s)
    [] OTHER -> s

\* validate_app on a message that fails it: a Reject or a BusinessReject.
validate_app(c, s, m) ==
  IF "dict_business" \in m.faults THEN business_reject(c, s)
                                  ELSE build_session_reject(c, s)

\* An expected message that fails validation is refused and counted.
RefuseInvalid(c, s, m) ==
  LET refused == validate_app(c, s, m)
      counted == [refused EXCEPT !.next_in =
                    IF m.seq = @ THEN @ + 1 ELSE @]
      after == reset_on_error(c, counted)
  IN  IF c.disconnect_on_error THEN reject_logon(after) ELSE after

(***************************************************************************)
(* Faulty variants of apply_gap_fill_new_seq: one too far; superseded      *)
(* messages stay queued.                                                   *)
(***************************************************************************)
apply_gap_fill_past(s, new_seq) ==
  IF new_seq >= s.next_in
  THEN [s EXCEPT !.next_in = new_seq + 1,
                 !.queue = {m \in @ : m.seq > new_seq}]
  ELSE s

apply_gap_fill_keeps_queue(s, new_seq) ==
  IF new_seq >= s.next_in THEN [s EXCEPT !.next_in = new_seq] ELSE s

apply_gap_fill_new_seq(s, new_seq) ==
  IF new_seq >= s.next_in
  THEN [s EXCEPT !.next_in = new_seq, !.queue = {m \in @ : m.seq >= new_seq}]
  ELSE s

\* One round of drain_queue's loop, on the message queued at next_in.
DrainMessage(c, s, m) ==
  LET t == [s EXCEPT !.queue = @ \ {m}]
      handled == IF m.type = "ResendRequest" THEN t
                                             ELSE process_in_order(c, t, m)
  IN  CASE m.type = "SequenceReset" -> apply_gap_fill_new_seq(t, m.num)
        [] m.type # "SequenceReset" /\ IsInvalid(m) -> RefuseInvalid(c, t, m)
        [] OTHER -> [handled EXCEPT !.next_in = @ + 1]

\* A refusal that disconnects leaves drain_queue at once.
DrainStep(c, d) ==
  LET due == {m \in d.s.queue : m.seq = d.s.next_in}
      m == CHOOSE x \in due : TRUE
  IN  IF d.halted \/ due = {} THEN d
      ELSE [s |-> DrainMessage(c, d.s, m),
            halted |-> /\ c.disconnect_on_error
                       /\ m.type # "SequenceReset"
                       /\ IsInvalid(m)]

\* Every round takes a message out of the queue, so Cardinality(s.queue)
\* rounds reach the end of the loop.
Drained(c, s) ==
  LET run[i \in 0..Cardinality(s.queue)] ==
        IF i = 0 THEN [s |-> s, halted |-> FALSE]
                 ELSE DrainStep(c, run[i - 1])
  IN  run[Cardinality(s.queue)]

drain_queue(c, s) ==
  LET end == Drained(c, s)
      t == [end.s EXCEPT !.resend_requested = @ /\ end.s.queue # {}]
  IN  IF end.halted THEN end.s ELSE maybe_continue_chunked_resend(c, t)

on_in_order(c, s, m) ==
  IF IsInvalid(m)
  THEN LET refused == RefuseInvalid(c, s, m)
       IN  IF c.disconnect_on_error THEN refused ELSE drain_queue(c, refused)
  ELSE drain_queue(c, [process_in_order(c, s, m) EXCEPT !.next_in = @ + 1])

on_too_high(c, s, m) ==
  LET answered == IF m.type = "ResendRequest" THEN on_resend_request(c, s, m)
                                              ELSE s
      queued == [answered EXCEPT
                   !.queue = Put(@, m),
                   !.resend_target = IF c.chunk_size > 0 THEN MaxOf(@, m.seq)
                                                         ELSE @]
  IN  CASE m.type = "Logout" -> on_logout_msg(c, s)
        [] /\ m.type # "Logout"
           /\ s.state = "LoggedOn"
           /\ ~s.resend_requested \/ c.send_redundant ->
             StartResend(c, queued, m.seq)
        [] OTHER -> queued

on_too_low(c, s, m) ==
  CASE ~m.poss -> logout_on_error(c, s)
    [] m.poss /\ "orig_missing" \in m.faults /\ c.requires_orig ->
         session_reject_before_logout(c, s)
    [] OTHER -> s

on_sequence_reset(c, s, m) ==
  CASE IsInvalid(m) -> RefuseInvalid(c, s, m)
    [] ~IsInvalid(m) /\ m.num = Absent -> build_session_reject(c, s)
    [] ~IsInvalid(m) /\ m.num # Absent /\ ~m.flag ->
         IF m.num = Malformed THEN drain_queue(c, s)
         ELSE IF m.num < s.next_in THEN build_session_reject(c, s)
         ELSE drain_queue(c, apply_gap_fill_new_seq(s, m.num))
    [] OTHER -> drain_queue(c, apply_gap_fill_new_seq(s, m.num))

-----------------------------------------------------------------------------
(***************************************************************************)
(* The Logon handshake.                                                    *)
(***************************************************************************)

maybe_next_expected(c, s) ==
  IF c.enable_next_expected THEN s.next_in ELSE Absent

on_connected(c, s) ==
  LET fresh == [s EXCEPT !.ticks_awaiting = 0,
                         !.ticks_since_recv = 0,
                         !.test_request_outstanding = FALSE,
                         !.resend_target = Absent,
                         !.resend_chunk_end = Absent,
                         !.reset_on_logon_pending = FALSE,
                         !.last_disconnect_reason = "none",
                         !.logon_sent = FALSE,
                         !.logon_received = FALSE,
                         !.resend_requested = FALSE,
                         !.queue = {},
                         !.state = "AwaitingLogon"]
      start == IF c.reset_on_logon
               THEN ResetStore(reset_sequences(fresh, TRUE))
               ELSE fresh
      should_send_reset ==
        /\ c.reset_on_logon \/ c.reset_on_logout \/ c.reset_on_disconnect
        /\ start.next_out = 1
        /\ start.next_in = 1
      logon == logon_with_reset_flag(s.heartbeat_interval,
                 maybe_next_expected(c, start), should_send_reset)
  IN  IF c.role = "Acceptor" THEN fresh
      ELSE send_stored(c,
             [start EXCEPT !.reset_on_logon_pending = should_send_reset,
                           !.logon_sent = TRUE],
             logon)

acceptor_forces_reset(c) == c.role = "Acceptor" /\ c.reset_on_logon

\* The refusals of on_logon before the dictionary is consulted.  `open' is
\* whether the configured schedule is in session now.
LogonRefused(c, s, m, open) ==
  \/ s.state # "AwaitingLogon"
  \/ /\ m.seq < s.next_in
     /\ ~m.poss /\ ~m.flag /\ ~acceptor_forces_reset(c)
  \/ m.seq = 0
  \/ m.end = Malformed
  \/ c.role = "Acceptor" /\ m.end <= 0
  \/ m.num > s.next_out
  \/ c.has_schedule /\ ~open

\* The session after the Logon took effect and, on the acceptor, its answer.
CompleteLogon(c, s, m) ==
  IF c.role = "Initiator"
  THEN [s EXCEPT !.reset_on_logon_pending = FALSE, !.state = "LoggedOn"]
  ELSE send_stored(c,
         [s EXCEPT !.heartbeat_interval = m.end,
                   !.state = "LoggedOn",
                   !.logon_sent = TRUE],
         logon_with_reset_flag(m.end, maybe_next_expected(c, s), m.flag))

\* A Logon that passed every check.
AcceptLogon(c, s, m) ==
  LET resets == m.flag \/ acceptor_forces_reset(c)
      full == ~s.logon_sent
      r == IF resets THEN reset_sequences(s, full) ELSE s
      expected == m.seq = r.next_in
      ahead == m.seq > r.next_in
      counted == [r EXCEPT !.next_in = IF expected THEN @ + 1 ELSE @]
      stored == IF resets /\ full THEN ResetStore(counted) ELSE counted
      on == CompleteLogon(c, stored, m)
      synced == CASE expected -> drain_queue(c, on)
                  [] ahead /\ ~on.resend_requested -> StartResend(c, on, m.seq)
                  [] OTHER -> on
      unacknowledged == /\ c.role = "Initiator"
                        /\ s.reset_on_logon_pending
                        /\ ~m.flag /\ m.seq # 1
  IN  CASE c.role = "Acceptor" /\ ahead ->
             IF ~stored.resend_requested \/ c.send_redundant
             THEN StartResend(c, stored, m.seq)
             ELSE stored
        [] unacknowledged ->
             reject_logon([stored EXCEPT !.reset_on_logon_pending = FALSE])
        [] OTHER ->
             IF m.num > 0 /\ m.num < synced.next_out
             THEN build_resend(c, synced, m.num, synced.next_out - 1)
             ELSE synced

on_logon(c, s0, m, open) ==
  LET s == [s0 EXCEPT !.logon_received = TRUE]
      refused == validate_app(c, s, m)
  IN  IF LogonRefused(c, s, m, open) THEN reject_logon(s)
      ELSE IF IsInvalid(m)
      THEN reject_logon([refused EXCEPT !.next_in =
                           IF m.seq = @ THEN @ + 1 ELSE @])
      ELSE IF "appl_ver" \in m.faults THEN reject_logon(s)
      ELSE AcceptLogon(c, s, m)

-----------------------------------------------------------------------------
(***************************************************************************)
(* Events.                                                                 *)
(***************************************************************************)

on_received(c, s0, m, open) ==
  LET s == [s0 EXCEPT !.ticks_since_recv = 0,
                      !.test_request_outstanding = FALSE]
      foreign == m.faults \cap {"latency", "begin_string", "comp_id"}
      reject_first == /\ m.type # "Logon"
                      /\ "latency" \in foreign \/ "begin_string" \notin foreign
  IN  IF foreign # {}
      THEN logout_on_error(c, IF reject_first THEN build_session_reject(c, s)
                                              ELSE s)
      ELSE IF /\ s.state # "LoggedOn"
              /\ m.type \notin {"Logon", "Logout", "SequenceReset", "Reject"}
      THEN logout_on_error(c, s)
      ELSE IF m.type = "Logon" THEN on_logon(c, s, m, open)
      ELSE IF m.seq = 0 THEN build_session_reject(c, s)
      ELSE IF m.poss /\ "orig_late" \in m.faults
      THEN session_reject_before_logout(c, s)
      ELSE IF m.type = "SequenceReset" /\ ~m.flag THEN on_sequence_reset(c, s, m)
      ELSE IF m.seq > s.next_in THEN on_too_high(c, s, m)
      ELSE IF m.seq < s.next_in THEN on_too_low(c, s, m)
      ELSE IF m.type = "SequenceReset" THEN on_sequence_reset(c, s, m)
      ELSE on_in_order(c, s, m)

\* The checks the transport makes before it hands a message to the application.
would_reject_before_processing(s, m) ==
  \/ m.faults \cap {"latency", "begin_string", "comp_id"} # {}
  \/ /\ m.type \notin {"Logon", "SequenceReset"}
     /\ m.seq # 0 /\ ~m.poss /\ m.seq < s.next_in

HeartbeatIfDue(c, s) ==
  IF s.ticks_since_send >= MaxOf(s.heartbeat_interval, 1)
  THEN send_stored(c, s, base("Heartbeat"))
  ELSE s

\* Faulty variant: no time for an answer to the TestRequest.
MonitorPeerHasty(c, s) ==
  LET hb == MaxOf(s.heartbeat_interval, 1)
      dead == 10 * s.ticks_since_recv >= hb * MaxOf(c.hb_timeout_tenths, 10)
  IN  IF dead THEN Disconnect(enter_disconnected(c, s, "other"))
              ELSE HeartbeatIfDue(c, s)

\* The heartbeat monitor of a logged-on session (multipliers are in tenths).
MonitorPeer(c, s) ==
  LET hb == MaxOf(s.heartbeat_interval, 1)
      dead == 10 * s.ticks_since_recv >= hb * MaxOf(c.hb_timeout_tenths, 10) + 20
      silent == 10 * s.ticks_since_recv > hb * c.test_delay_tenths
      probed == IF silent /\ ~s.test_request_outstanding
                THEN send_stored(c, [s EXCEPT !.test_request_outstanding = TRUE],
                                 base("TestRequest"))
                ELSE s
  IN  IF dead THEN Disconnect(enter_disconnected(c, s, "other"))
              ELSE HeartbeatIfDue(c, probed)

Expired(s, timeout) == s.ticks_awaiting >= MaxOf(timeout, 1)

on_tick(c, s0, open) ==
  LET s == [s0 EXCEPT !.ticks_since_send = MinOf(@ + 1, TickMax),
                      !.ticks_since_recv = MinOf(@ + 1, TickMax),
                      !.ticks_awaiting = MinOf(@ + 1, TickMax)]
      expired == Disconnect(enter_disconnected(c, s, "other"))
  IN  CASE s.state = "AwaitingLogon" ->
             IF Expired(s, c.logon_timeout) THEN expired ELSE s
        [] s.state = "LoggedOn" ->
             IF c.has_schedule /\ ~open THEN on_start_logout(s)
             ELSE IF c.disable_heart_beat_check THEN HeartbeatIfDue(c, s)
             ELSE MonitorPeer(c, s)
        [] s.state = "AwaitingLogout" ->
             IF Expired(s, c.logout_timeout) THEN expired
                                             ELSE HeartbeatIfDue(c, s)
        [] OTHER -> s
=============================================================================
