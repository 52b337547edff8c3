---------------------------- MODULE MCConnection ----------------------------
(***************************************************************************)
(* Model checking of Connection: configurations and the counterparty's     *)
(* messages.                                                               *)
(***************************************************************************)
EXTENDS Connection

CONSTANT MaxSeq   \* largest MsgSeqNum the counterparty uses

BaseCfg ==
  [role |-> "Acceptor",
   reset_on_logon |-> FALSE, reset_on_logout |-> FALSE,
   reset_on_disconnect |-> FALSE, reset_on_error |-> FALSE,
   disconnect_on_error |-> FALSE, refresh_on_logon |-> FALSE,
   persist_messages |-> TRUE, enable_next_expected |-> FALSE,
   send_redundant |-> FALSE, reject_garbled |-> TRUE,
   requires_orig |-> FALSE, disable_heart_beat_check |-> FALSE,
   force_resend |-> FALSE, has_schedule |-> FALSE,
   chunk_size |-> 0, heartbeat_interval |-> 1,
   logon_timeout |-> 1, logout_timeout |-> 1,
   hb_timeout_tenths |-> 10, test_delay_tenths |-> 5]

AcceptorCfg == BaseCfg
InitiatorCfg ==
  [BaseCfg EXCEPT !.role = "Initiator", !.reset_on_logout = TRUE]
RefreshCfg == [BaseCfg EXCEPT !.refresh_on_logon = TRUE]

Pick(f) == [x \in Setups |-> f[x]]
ChosenCfgs ==
  Pick([acceptor |-> AcceptorCfg, initiator |-> InitiatorCfg,
        refresh |-> RefreshCfg])
ChosenVetoes ==
  Pick([acceptor |-> TRUE, initiator |-> FALSE, refresh |-> FALSE])
ChosenCrashes ==
  Pick([acceptor |-> 0, initiator |-> 2, refresh |-> 0])
OneCrash == [x \in Setups |-> 1]

At(type, seq) == [base(type) EXCEPT !.seq = seq]

\* Logons (one that resets), application messages in and out of order, a
\* ResendRequest for everything, Logouts.
Peer ==
  {[At("Logon", n) EXCEPT !.end = 1] : n \in 1..MaxSeq}
  \cup {[At("Logon", 1) EXCEPT !.end = 1, !.flag = TRUE]}
  \cup {At(type, n) : type \in {"App", "Logout"}, n \in 1..MaxSeq}
  \cup {[At("ResendRequest", n) EXCEPT !.num = 1, !.end = 0] : n \in 1..MaxSeq}
=============================================================================
