----------------------------- MODULE Connection -----------------------------
(***************************************************************************)
(* One side of a FIX connection as truefix-transport runs it               *)
(* (run_connection, handle_inbound, dispatch, perform_actions): the        *)
(* session engine, the application's callbacks, the socket and the durable *)
(* message store.  Each await between an effect and the next one is a      *)
(* point where the process may die or a write may fail.                    *)
(*                                                                         *)
(* The store is the MessageStore trait with atomic operations (what the    *)
(* SQL and redb backends promise); FileStore has the file backend.         *)
(***************************************************************************)
EXTENDS SessionCore

CONSTANTS
  Setups,       \* the sessions considered, by name
  CfgOf,        \* the configuration of each
  Inbound,      \* the messages the counterparty may send
  VetoesOf,     \* whether the application may refuse messages
  MaxOut,       \* bound: no new work is started once next_out exceeds it
  MaxConns,     \* bound: connections
  MaxFails,     \* bound: failing writes
  MaxCrashesOf  \* bound: crashes of the process

ASSUME ConnectionAssumption ==
  /\ CfgOf \in [Setups -> Config]
  /\ Inbound \subseteq Message
  /\ VetoesOf \in [Setups -> BOOLEAN]
  /\ MaxOut \in Nat /\ MaxConns \in Nat /\ MaxFails \in Nat
  /\ MaxCrashesOf \in [Setups -> Nat]

VARIABLES
  setup,      \* the session that is run; it never changes
  s,          \* the Session; s.acts are the actions still to be performed
  pc,         \* what the connection's task does next:
              \*   down     there is no connection
              \*   idle     waits in the select loop
              \*   act      performs the actions
              \*   save     has written the first action's message
              \*   sender   stores the next outbound number
              \*   target   stores the next inbound number
              \*   closing  has left the loop
  then,       \* what follows the actions: "dispatch" (numbers, then the loop),
              \* "send" (outbound number only), "received" (pending is
              \* dispatched), "close" (teardown) or "end" (last dispatch)
  pending,    \* the message whose business reject goes out first
  logged_on,  \* run_connection's flag
  closed,     \* a Disconnect action was performed
  db,         \* the durable store
  used,       \* history: numbers of the original messages written since the
              \* numbering last started at 1
  handed,     \* history: inbound numbers the application has seen or the
              \* engine answered since the last reset
  died,       \* history: the last connection ended with the process
  lost,       \* history: the process died between the write of a message and
              \* the storing of its number
  conns, fails, crashes

vars == <<setup, s, pc, then, pending, logged_on, closed, db, used, handed,
          died, lost, conns, fails, crashes>>

Cfg == CfgOf[setup]
Vetoes == VetoesOf[setup]
MaxCrashes == MaxCrashesOf[setup]

NewDb == [next_out |-> 1, next_in |-> 1, msgs |-> {}]

TypeOK ==
  /\ setup \in Setups
  /\ s \in Session
  /\ pc \in {"down", "idle", "act", "save", "sender", "target", "closing"}
  /\ then \in {"dispatch", "send", "received", "close", "end"}
  /\ pending \in Message
  /\ logged_on \in BOOLEAN /\ closed \in BOOLEAN
  /\ db \in [next_out : Nat \ {0}, next_in : Nat \ {0}, msgs : SUBSET Message]
  /\ used \subseteq Nat /\ handed \subseteq Nat
  /\ died \in BOOLEAN /\ lost \in BOOLEAN
  /\ conns \in 0..MaxConns /\ fails \in 0..MaxFails /\ crashes \in 0..MaxCrashes

Init ==
  /\ setup \in Setups
  /\ s = new(Cfg)
  /\ pc = "down" /\ then = "dispatch"
  /\ pending = base("App")
  /\ logged_on = FALSE /\ closed = FALSE
  /\ db = NewDb
  /\ used = {} /\ handed = {}
  /\ died = FALSE /\ lost = FALSE
  /\ conns = 0 /\ fails = 0 /\ crashes = 0

-----------------------------------------------------------------------------
(***************************************************************************)
(* dispatch: the engine has handled an event and is now t.  At the moment  *)
(* the session becomes logged on, RefreshOnLogon takes the numbers from    *)
(* the store.                                                              *)
(***************************************************************************)
Dispatched(t, next) ==
  LET logon == ~logged_on /\ t.state = "LoggedOn"
  IN  /\ s' = IF logon /\ Cfg.refresh_on_logon
              THEN refresh_sequences(t, db.next_out, db.next_in) ELSE t
      /\ logged_on' = (logged_on \/ logon)
      /\ pc' = "act"
      /\ then' = next

Counters == UNCHANGED <<setup, died, lost, conns, fails, crashes>>
History == UNCHANGED <<used, handed>>

\* Faulty variant: the session is not given the numbers of the store.
StartUnseeded ==
  /\ pc = "down"
  /\ conns < MaxConns /\ db.next_out <= MaxOut
  /\ s' = on_connected(Cfg, new(Cfg))
  /\ pc' = "act" /\ then' = "dispatch"
  /\ logged_on' = FALSE /\ closed' = FALSE
  /\ conns' = conns + 1
  /\ died' = FALSE
  /\ UNCHANGED <<setup, pending, db, lost, fails, crashes>> /\ History

\* run_connection up to its loop: a new Session, the numbers and messages of the
\* store, Event::Connected.
Start ==
  /\ pc = "down"
  /\ conns < MaxConns /\ db.next_out <= MaxOut
  /\ LET seeded == seed_sequences(new(Cfg), db.next_out, db.next_in)
         restored == seed_sent_messages(Cfg, seeded,
                       {m \in db.msgs : m.seq < db.next_out})
     IN  s' = on_connected(Cfg, restored)
  /\ pc' = "act" /\ then' = "dispatch"
  /\ logged_on' = FALSE /\ closed' = FALSE
  /\ conns' = conns + 1
  /\ died' = FALSE
  /\ UNCHANGED <<setup, pending, db, lost, fails, crashes>> /\ History

Idle == pc = "idle" /\ s.next_out <= MaxOut

\* handle_inbound.  The application sees a message before the engine does; it
\* may refuse an application message (BusinessMessageReject, then the message
\* is processed all the same) or an administrative one (Logout, teardown).
HandleInbound(m) ==
  /\ Idle
  /\ \/ /\ Dispatched(on_received(Cfg, s, m, TRUE), "dispatch")
        /\ handed' = IF would_reject_before_processing(s, m)
                     THEN handed ELSE handed \cup {m.seq}
        /\ UNCHANGED pending
     \/ /\ ~would_reject_before_processing(s, m)
        /\ Vetoes /\ is_admin_type(m)
        /\ s' = reject_logon(s)
        /\ pc' = "act" /\ then' = "close"
        /\ handed' = handed \cup {m.seq}
        /\ UNCHANGED <<pending, logged_on>>
     \/ /\ ~would_reject_before_processing(s, m)
        /\ Vetoes /\ ~is_admin_type(m)
        /\ s' = business_reject(Cfg, s)
        /\ pc' = "act" /\ then' = "received"
        /\ pending' = m
        /\ handed' = handed \cup {m.seq}
        /\ UNCHANGED logged_on
  /\ UNCHANGED <<closed, db, used>> /\ Counters

\* The dispatch that follows an application's business reject.
DispatchPending ==
  /\ pc = "act" /\ then = "received" /\ s.acts = <<>>
  /\ Dispatched(on_received(Cfg, s, pending, TRUE), "dispatch")
  /\ pending' = base("App")
  /\ UNCHANGED <<closed, db>> /\ Counters /\ History

\* A frame that does not parse.
Garbled ==
  /\ Idle
  /\ Dispatched(on_garbled(Cfg, s), "dispatch")
  /\ UNCHANGED <<pending, closed, db>> /\ Counters /\ History

Tick ==
  /\ Idle
  /\ Dispatched(on_tick(Cfg, s, TRUE), "dispatch")
  /\ UNCHANGED <<pending, closed, db>> /\ Counters /\ History

Logout ==
  /\ Idle
  /\ Dispatched(on_start_logout(s), "dispatch")
  /\ UNCHANGED <<pending, closed, db>> /\ Counters /\ History

SendApp ==
  /\ Idle
  /\ s' = send_app(Cfg, s, 1)
  /\ pc' = "act" /\ then' = "send"
  /\ UNCHANGED <<pending, logged_on, closed, db>> /\ Counters /\ History

\* An operator's reset: the session and the store.
Reset ==
  /\ Idle
  /\ s' = reset(s)
  /\ db' = NewDb
  /\ used' = {} /\ handed' = {}
  /\ UNCHANGED <<pc, then, pending, logged_on, closed>> /\ Counters

-----------------------------------------------------------------------------
(***************************************************************************)
(* perform_actions, one action after the other.                            *)
(***************************************************************************)
Acting(ops) == pc = "act" /\ s.acts # <<>> /\ Head(s.acts).op \in ops

Rest(t) == [t EXCEPT !.acts = Tail(@)]

\* The message is on the wire; an original one is then saved.
Write ==
  /\ Acting({"send", "resend"})
  /\ LET m == Head(s.acts).msg
     IN  /\ used' = IF m.poss THEN used ELSE used \cup {m.seq}
         /\ IF m.poss \/ ~Cfg.persist_messages
            THEN s' = Rest(s) /\ pc' = "act"
            ELSE UNCHANGED s /\ pc' = "save"
  /\ UNCHANGED <<then, pending, logged_on, closed, db, handed>> /\ Counters

\* Faulty variant: the task returns without the last dispatch.
WriteFailsEnds ==
  /\ Acting({"send", "resend"})
  /\ fails < MaxFails
  /\ fails' = fails + 1
  /\ s' = [s EXCEPT !.acts = <<>>]
  /\ pc' = IF then = "received" THEN "act" ELSE "down"
  /\ UNCHANGED <<setup, then, pending, logged_on, closed, db, died, lost, conns,
                 crashes>> /\ History

\* The write fails or times out: the remaining actions are dropped, the numbers
\* are not stored, the loop is left.
WriteFails ==
  /\ Acting({"send", "resend"})
  /\ fails < MaxFails
  /\ fails' = fails + 1
  /\ s' = [s EXCEPT !.acts = <<>>]
  \* The result of a business reject's batch is ignored.
  /\ pc' = IF then = "received" THEN "act" ELSE "closing"
  /\ used' = IF \E i \in DOMAIN s.acts : s.acts[i].op = "reset_store"
             THEN {} ELSE used
  /\ UNCHANGED <<setup, then, pending, logged_on, closed, db, handed, died, lost,
                 conns, crashes>>

\* persist_sent: the body and the number after it, in one transaction.
PersistSent ==
  /\ pc = "save"
  /\ LET m == Head(s.acts).msg
     IN  db' = [db EXCEPT !.msgs = Put(@, m), !.next_out = m.seq + 1]
  /\ s' = Rest(s)
  /\ pc' = "act"
  /\ UNCHANGED <<then, pending, logged_on, closed>> /\ Counters /\ History

\* to_app refuses a message: a new one is forgotten, one that is sent again is
\* replaced by a gap fill.
Veto ==
  /\ Acting({"send", "resend"})
  /\ Vetoes
  /\ LET m == Head(s.acts).msg
         forgotten == discard_sent(Rest(s), m.seq)
     IN  /\ Head(s.acts).op = "resend" \/ ~is_admin_type(m)
         /\ s' = IF Head(s.acts).op = "send" THEN forgotten
                 ELSE [forgotten EXCEPT
                         !.ticks_since_send = 0,
                         !.acts = <<[op |-> "send",
                                     msg |-> sequence_reset(m.seq, m.seq + 1)]>>
                                  \o @]
  /\ UNCHANGED <<pc, then, pending, logged_on, closed, db>> /\ Counters /\ History

Disconnecting ==
  /\ Acting({"disconnect"})
  /\ s' = Rest(s)
  /\ closed' = TRUE
  /\ UNCHANGED <<pc, then, pending, logged_on, db>> /\ Counters /\ History

ResettingStore ==
  /\ Acting({"reset_store"})
  /\ s' = Rest(s)
  /\ db' = NewDb
  /\ used' = {} /\ handed' = {n \in handed : n < s.next_in}
  /\ UNCHANGED <<pc, then, pending, logged_on, closed>> /\ Counters

Performed ==
  /\ pc = "act" /\ s.acts = <<>> /\ then # "received"
  /\ pc' = IF then = "close" THEN "closing" ELSE "sender"
  /\ UNCHANGED <<s, then, pending, logged_on, closed, db>> /\ Counters /\ History

-----------------------------------------------------------------------------
(***************************************************************************)
(* The rest of dispatch, and the end of the connection.                    *)
(***************************************************************************)
StoreSender ==
  /\ pc = "sender"
  /\ db' = [db EXCEPT !.next_out = s.next_out]
  /\ pc' = IF then = "send" THEN "idle" ELSE "target"
  /\ UNCHANGED <<s, then, pending, logged_on, closed>> /\ Counters /\ History

StoreTarget ==
  /\ pc = "target"
  /\ db' = [db EXCEPT !.next_in = s.next_in]
  /\ pc' = IF then = "end" THEN "down"
           ELSE IF closed \/ s.state = "Disconnected" THEN "closing" ELSE "idle"
  /\ UNCHANGED <<s, then, pending, logged_on, closed>> /\ Counters /\ History

\* The peer closes the connection.
Eof ==
  /\ pc = "idle"
  /\ pc' = "closing"
  /\ UNCHANGED <<s, then, pending, logged_on, closed, db>> /\ Counters /\ History

\* Event::Disconnected, with the reason the engine recorded if it did.
LastDispatch ==
  /\ pc = "closing"
  /\ LET reason == s.last_disconnect_reason
     IN  s' = enter_disconnected(Cfg, s,
                IF reason = "none" THEN "other" ELSE reason)
  /\ pc' = "act" /\ then' = "end"
  /\ UNCHANGED <<pending, logged_on, closed, db>> /\ Counters /\ History

\* The process dies.
Crash ==
  /\ pc # "down"
  /\ crashes < MaxCrashes
  /\ crashes' = crashes + 1
  /\ pc' = "down"
  /\ died' = TRUE
  /\ lost' = (lost \/ pc = "save" \/ ~Cfg.persist_messages)
  /\ UNCHANGED <<setup, s, then, pending, logged_on, closed, db, conns, fails>>
  /\ History

Next ==
  \/ Start
  \/ \E m \in Inbound : HandleInbound(m)
  \/ DispatchPending
  \/ Garbled
  \/ Tick
  \/ Logout
  \/ SendApp
  \/ Reset
  \/ Write
  \/ WriteFails
  \/ PersistSent
  \/ Veto
  \/ Disconnecting
  \/ ResettingStore
  \/ Performed
  \/ StoreSender
  \/ StoreTarget
  \/ Eof
  \/ LastDispatch
  \/ Crash

Spec == Init /\ [][Next]_vars

-----------------------------------------------------------------------------
(***************************************************************************)
(* Properties.                                                             *)
(***************************************************************************)

Fresh ==
  \A n \in used : /\ pc = "idle" => n < s.next_out
                  /\ pc = "down" => n < db.next_out

\* A MsgSeqNum that went out on an original message is never given to another
\* one, in this connection or after a restart from the store: the counterparty
\* would drop the second one as a duplicate or throw us out.  The exception is a
\* crash between the write and persist_sent.
NumbersFresh == ~lost => Fresh

\* The same whenever the process dies.
NumbersFreshAfterCrash == Fresh

\* A connection that ends, whether by Logout, EOF or a failed write in the
\* middle of a batch, leaves in the store the numbers the session had reached.
Continuity ==
  (pc = "down" /\ ~died) => db.next_out = s.next_out /\ db.next_in = s.next_in

\* The store never says that an inbound message was received which neither the
\* application nor the engine has seen: after a crash such a message would not
\* be asked for again.
NothingSkipped ==
  \A n \in 1..(db.next_in - 1) : n \in handed

\* Between connections the store holds no message under a number that is still
\* to be used; a later ResendRequest would be answered with it.
NoStaleBodies ==
  pc = "down" => \A m \in db.msgs : m.seq < db.next_out

\* The store agrees with the session it is kept for, whenever another process
\* could read it.
StoreAgrees == TypeOK /\ Continuity /\ NothingSkipped /\ NoStaleBodies
=============================================================================
