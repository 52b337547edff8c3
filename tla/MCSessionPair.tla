---------------------------- MODULE MCSessionPair ----------------------------
(***************************************************************************)
(* Model checking of SessionPair: configurations of the two sides.         *)
(***************************************************************************)
EXTENDS SessionPair

PairCfg(role) ==
  [role |-> role,
   reset_on_logon |-> FALSE, reset_on_logout |-> FALSE,
   reset_on_disconnect |-> FALSE, reset_on_error |-> FALSE,
   disconnect_on_error |-> FALSE, refresh_on_logon |-> FALSE,
   persist_messages |-> TRUE, enable_next_expected |-> FALSE,
   send_redundant |-> FALSE, reject_garbled |-> FALSE,
   requires_orig |-> FALSE, disable_heart_beat_check |-> FALSE,
   force_resend |-> FALSE, has_schedule |-> FALSE,
   chunk_size |-> 0, heartbeat_interval |-> 30,
   logon_timeout |-> 1, logout_timeout |-> 1,
   hb_timeout_tenths |-> 10, test_delay_tenths |-> 5]

PlainCfg == [p \in Side |-> PairCfg(IF p = "I" THEN "Initiator" ELSE "Acceptor")]

\* NextExpectedMsgSeqNum on both sides.
ExpectCfg == [p \in Side |-> [PlainCfg[p] EXCEPT !.enable_next_expected = TRUE]]

\* Gaps are asked for one message at a time.
ChunkCfg == [p \in Side |-> [PlainCfg[p] EXCEPT !.chunk_size = 1]]

CfgsFor == [plain |-> PlainCfg, leaving |-> PlainCfg, expect |-> ExpectCfg, chunks |-> ChunkCfg]
Bound(a, c, l) == [apps |-> a, conns |-> c, logouts |-> l]
PairBounds == [plain |-> Bound(2, 3, 0), leaving |-> Bound(1, 3, 1), expect |-> Bound(2, 3, 0),
               chunks |-> Bound(2, 3, 0)]
RecoveryBounds == [leaving |-> Bound(1, 2, 1), chunks |-> Bound(2, 2, 0)]

ChosenCfgs == [n \in Setups |-> CfgsFor[n]]
ChosenBounds == [n \in Setups |-> PairBounds[n]]
ChosenRecoveryBounds == [n \in Setups |-> RecoveryBounds[n]]
=============================================================================
