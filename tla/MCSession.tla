------------------------------ MODULE MCSession ------------------------------
(***************************************************************************)
(* Model checking of Session: configurations and the counterparty's        *)
(* messages.                                                               *)
(***************************************************************************)
EXTENDS Session

CONSTANT MaxSeq   \* largest MsgSeqNum the counterparty uses

BaseCfg ==
  [role |-> "Acceptor",
   reset_on_logon |-> FALSE, reset_on_logout |-> FALSE,
   reset_on_disconnect |-> FALSE, reset_on_error |-> FALSE,
   disconnect_on_error |-> FALSE, refresh_on_logon |-> FALSE,
   persist_messages |-> TRUE, enable_next_expected |-> FALSE,
   send_redundant |-> FALSE, reject_garbled |-> FALSE,
   requires_orig |-> FALSE, disable_heart_beat_check |-> FALSE,
   force_resend |-> FALSE, has_schedule |-> FALSE,
   chunk_size |-> 0, heartbeat_interval |-> 1,
   logon_timeout |-> 1, logout_timeout |-> 1,
   hb_timeout_tenths |-> 10, test_delay_tenths |-> 5]

AcceptorCfg == BaseCfg

\* Chunked resends, NextExpectedMsgSeqNum, resets at logout.
InitiatorCfg ==
  [BaseCfg EXCEPT !.role = "Initiator", !.reset_on_logout = TRUE,
                  !.enable_next_expected = TRUE, !.chunk_size = 1,
                  !.reject_garbled = TRUE]

\* Every check on, and every error resets and disconnects.
StrictCfg ==
  [BaseCfg EXCEPT !.reset_on_error = TRUE, !.disconnect_on_error = TRUE,
                  !.requires_orig = TRUE, !.reset_on_disconnect = TRUE,
                  !.reset_on_logon = TRUE, !.send_redundant = TRUE]

\* Every check on; errors are answered and the session goes on.
LenientCfg ==
  [BaseCfg EXCEPT !.requires_orig = TRUE, !.enable_next_expected = TRUE,
                  !.chunk_size = 2, !.force_resend = TRUE]

\* For the timers (MCInitiators): a schedule that opens and closes, and
\* timeouts of 0.
TimerCfg ==
  [BaseCfg EXCEPT !.has_schedule = TRUE, !.logon_timeout = 0,
                  !.logout_timeout = 0, !.persist_messages = FALSE]

Seqs == 1..MaxSeq

At(type, seq) == [base(type) EXCEPT !.seq = seq]

Logons ==
  {[At("Logon", n) EXCEPT !.flag = f, !.end = 1] : n \in Seqs, f \in BOOLEAN}

Resets ==
  {[At("SequenceReset", n) EXCEPT !.flag = f, !.num = k] :
     n \in Seqs, f \in BOOLEAN, k \in {Absent} \cup 1..MaxSeq}

Plain ==
  {At(type, n) : type \in {"App", "TestRequest", "Logout"}, n \in Seqs}

ResendRequests ==
  {[At("ResendRequest", n) EXCEPT !.num = 1, !.end = 0] : n \in Seqs}

Replays == {[At("App", n) EXCEPT !.poss = TRUE] : n \in Seqs}

CorePeer == Logons \cup Resets \cup Plain \cup ResendRequests \cup Replays

\* A counterparty that also says which number it expects next.
ExpectingPeer ==
  {[At("Logon", n) EXCEPT !.num = k, !.end = 1] :
     n \in Seqs, k \in {Absent} \cup 1..3}
  \cup {[At("SequenceReset", n) EXCEPT !.flag = TRUE, !.num = n + 1] :
          n \in Seqs}
  \cup Plain \cup ResendRequests

\* Messages that fail one of the checks, beside good ones.
FaultyPeer ==
  {[At("App", n) EXCEPT !.faults = {f}] :
     n \in Seqs, f \in {"latency", "begin_string", "comp_id", "dict",
                        "dict_business"}}
  \cup {[At("App", n) EXCEPT !.poss = TRUE, !.faults = {f}] :
          n \in Seqs, f \in {"orig_late", "orig_missing"}}
  \cup {[At("Logon", n) EXCEPT !.end = 1, !.faults = fs] :
          n \in Seqs, fs \in {{}, {"dict"}, {"appl_ver"}, {"comp_id"}}}
  \cup {At("Logon", 1), [At("Logon", 1) EXCEPT !.end = Malformed],
        [At("Logon", 1) EXCEPT !.end = 1, !.num = 9], At("Heartbeat", 0)}
  \cup {[At("ResendRequest", n) EXCEPT !.num = 1, !.end = e] :
          n \in Seqs, e \in {Absent, 0}}
  \cup {At(type, n) : type \in {"App", "Logout", "Reject"}, n \in Seqs}

\* A SequenceReset that fails dictionary validation, behind a gap.
InvalidResetPeer ==
  {[At("Logon", 1) EXCEPT !.end = 1]}
  \cup {At("App", n) : n \in Seqs}
  \cup {[At("SequenceReset", n) EXCEPT !.flag = TRUE, !.num = n + 1,
                                      !.faults = {"dict"}] : n \in Seqs}

\* Little traffic, for the timers.
QuietPeer ==
  {[At("Logon", 1) EXCEPT !.end = 1], At("Heartbeat", 2), At("Logout", 2),
   At("Reject", 1)}

\* What each session is, and how far it counts.
CfgFor ==
  [acceptor |-> AcceptorCfg, initiator |-> InitiatorCfg, strict |-> StrictCfg,
   lenient |-> LenientCfg, invalid_reset |-> AcceptorCfg]

PeerFor ==
  [acceptor |-> CorePeer, initiator |-> ExpectingPeer, strict |-> FaultyPeer,
   lenient |-> FaultyPeer, invalid_reset |-> InvalidResetPeer]

MaxOutFor ==
  [acceptor |-> 4, initiator |-> 4, strict |-> 5, lenient |-> 3,
   invalid_reset |-> 4]

Pick(f) == [n \in Setups |-> f[n]]
ChosenCfgs == Pick(CfgFor)
ChosenPeers == Pick(PeerFor)
ChosenBounds == Pick(MaxOutFor)
=============================================================================
