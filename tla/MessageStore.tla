---------------------------- MODULE MessageStore ----------------------------
(***************************************************************************)
(* What the MessageStore trait promises the session that uses a store: the *)
(* two next numbers and the sent messages of each session, which change by *)
(* whole operations only.  save_and_advance_sender is one of them: there   *)
(* is no state between storing a message and moving past its number.       *)
(* (Plain save() is never called by the transport.)                        *)
(***************************************************************************)
EXTENDS Naturals

CONSTANTS StoreSids, StoreNumbers

VARIABLES
  traits,  \* [volatile, bodies]: lives in memory; keeps messages.  Constant.
  stored   \* for each session: sender, target and the numbers of its messages

Fresh == [sender |-> 1, target |-> 1, messages |-> {}]

MessageStoreInit ==
  /\ traits \in [volatile: BOOLEAN, bodies: BOOLEAN]
  /\ stored = [s \in StoreSids |-> Fresh]

set_next_sender_seq(s, n) ==
  stored' = [stored EXCEPT ![s].sender = n] /\ UNCHANGED traits

set_next_target_seq(s, n) ==
  stored' = [stored EXCEPT ![s].target = n] /\ UNCHANGED traits

save_and_advance_sender(s, n) ==
  /\ stored' = [stored EXCEPT ![s].sender = n + 1,
                              ![s].messages = IF traits.bodies THEN @ \cup {n} ELSE @]
  /\ UNCHANGED traits

reset(s) == stored' = [stored EXCEPT ![s] = Fresh] /\ UNCHANGED traits

\* A store that lives in memory is gone with its process.
Lose ==
  traits.volatile /\ stored' = [s \in StoreSids |-> Fresh] /\ UNCHANGED traits

MessageStoreNext ==
  \/ \E s \in StoreSids, n \in StoreNumbers :
       \/ set_next_sender_seq(s, n)
       \/ set_next_target_seq(s, n)
       \/ save_and_advance_sender(s, n)
  \/ \E s \in StoreSids : reset(s)
  \/ Lose

MessageStoreSpec ==
  MessageStoreInit /\ [][MessageStoreNext]_<<traits, stored>>
=============================================================================
