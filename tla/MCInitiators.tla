---------------------------- MODULE MCInitiators ----------------------------
(***************************************************************************)
(* Model checking of what an initiating side runs, in one run: the loop    *)
(* that reconnects with its rotation over endpoints (Reconnect), the one   *)
(* that follows a schedule (ScheduledInitiator), the timers of a session   *)
(* (Session, with little traffic), the TWS client (TwsClient) and the Futu *)
(* client (FutuClient).  `part' says which one a behaviour is about.       *)
(***************************************************************************)
EXTENDS Initiator, MCTws

VARIABLES part, setup, s, link, seen, probed
VARIABLES program, task, actors, in_use, conn_id, packet_serial, reconnect_lock, replay,
          closed, signals, chances, stale, sent

SessionVars == <<setup, s, link, seen, probed>>

Book == INSTANCE MCFutu
Futu == INSTANCE FutuClient WITH
  Callers <- {"a", "b"}, U32Max <- Book!MaxSerial, MaxConns <- 3, Programs <- Book!ShortPrograms,
  conn <- actors, current <- in_use
FutuVars == <<program, task, actors, in_use, conn_id, packet_serial, reconnect_lock, replay,
              closed, signals, chances, stale, sent>>

allVars == <<part, vars, ScheduledVars, SessionVars, TwsVars, FutuVars>>

Peer == INSTANCE MCSession WITH
  TickMax <- 4, MaxSeq <- 1, Setups <- {}, CfgOf <- <<>>, InboundOf <- <<>>, MaxOutOf <- <<>>
Timed == INSTANCE Session WITH
  TickMax <- 4, Setups <- {"timers"}, CfgOf <- [timers |-> Peer!TimerCfg],
  InboundOf <- [timers |-> Peer!QuietPeer], MaxOutOf <- [timers |-> 3]

\* Days of 4 units, weeks of 2 days; the horizon is a week and a half, so that
\* every kind of window opens and closes at least once after a restart.
Instants == 0..(Horizon + 1)
Plain ==
  [non_stop |-> FALSE, start_time |-> None, end_time |-> None, weekdays |-> {},
   start_day |-> None, end_day |-> None, offset |-> [t \in Instants |-> 0]]
Daily == [Plain EXCEPT !.start_time = 1, !.end_time = 3]
MCSchedules ==
  [daily   |-> Daily,
   \* over midnight, in a zone whose offset changes at 7
   night   |-> [Plain EXCEPT !.start_time = 3, !.end_time = 1,
                             !.offset = [t \in Instants |-> IF t < 7 THEN 1 ELSE 0]],
   weekday |-> [Daily EXCEPT !.weekdays = {1}],
   \* over the end of the week
   weekly  |-> [Plain EXCEPT !.start_time = 2, !.end_time = 1,
                             !.start_day = 1, !.end_day = 0],
   always  |-> [Daily EXCEPT !.non_stop = TRUE]]

MCInit ==
  /\ part \in {"reconnect", "scheduled", "timers", "tws", "futu"}
  /\ \/ part = "scheduled"
     \/ part # "scheduled" /\ plan = "always"
  /\ \/ part = "tws"
     \/ part # "tws" /\ script = QuietScript
  /\ \/ part = "futu"
     \/ part # "futu" /\ program = Book!QuietProgram
  /\ Init /\ ScheduledInit /\ Timed!Init /\ TwsInit /\ Futu!FutuInit

R == part = "reconnect" /\ UNCHANGED <<part, ScheduledVars, SessionVars, TwsVars, FutuVars>>
S == part = "scheduled" /\ UNCHANGED <<part, vars, SessionVars, TwsVars, FutuVars>>
T == part = "timers" /\ UNCHANGED <<part, vars, ScheduledVars, TwsVars, FutuVars>>
W == part = "tws" /\ UNCHANGED <<part, vars, ScheduledVars, SessionVars, FutuVars>>
F == part = "futu" /\ UNCHANGED <<part, vars, ScheduledVars, SessionVars, TwsVars>>

MCNext ==
  \/ R /\ LeaveAtTop
  \/ R /\ StartAttempt
  \/ R /\ ConnectFails
  \/ R /\ ConnectSucceeds
  \/ R /\ PublishHandle
  \/ R /\ ConnectionOver
  \/ R /\ CheckStopAfterAttempt
  \/ R /\ WakeUp
  \/ R /\ ConnectionEnds
  \/ R /\ StopSetFlag
  \/ R /\ StopAbortCurrent
  \/ S /\ Tick
  \/ S /\ Poll
  \/ S /\ ConnectOk
  \/ S /\ ConnectErr
  \/ S /\ RetryDue
  \/ S /\ Abandon
  \/ S /\ ConnectionDrops
  \/ S /\ LoggedOut
  \/ S /\ StopScheduled
  \/ S /\ LoopEnds
  \/ S /\ ProcessDies
  \/ S /\ ProcessStarts
  \/ T /\ Timed!Connected
  \/ T /\ \E m \in Timed!Inbound, open \in Timed!Clock : Timed!Received(m, open)
  \/ T /\ \E open \in Timed!Clock : Timed!Tick(open)
  \/ T /\ Timed!StartLogout
  \/ T /\ Timed!Garbled
  \/ T /\ Timed!SendApp
  \/ T /\ Timed!Reset
  \/ T /\ Timed!Disconnected
  \/ W /\ Call
  \/ W /\ Disconnect
  \/ W /\ ReadHandshake
  \/ W /\ QueueEarly
  \/ W /\ ReadPending
  \/ W /\ ReadEvent
  \/ W /\ ReadFails
  \/ F /\ \E p \in {"a", "b"} : Futu!Begin(p)
  \/ F /\ \E p \in {"a", "b"} : Futu!BeginReconnect(p)
  \/ F /\ \E p \in {"a", "b"} : Futu!Close(p)
  \/ F /\ \E p \in {"a", "b"} : Futu!TakeHandle(p)
  \/ F /\ \E p \in {"a", "b"} : Futu!Send(p)
  \/ F /\ \E p \in {"a", "b"} : Futu!Return(p)
  \/ F /\ \E p \in {"a", "b"} : Futu!Remember(p)
  \/ F /\ \E p \in Futu!Tasks : Futu!TimeOut(p)
  \/ F /\ \E p \in Futu!Tasks : Futu!CheckClosed(p)
  \/ F /\ \E p \in Futu!Tasks : Futu!TakeLock(p)
  \/ F /\ \E p \in Futu!Tasks : Futu!ConnectFails(p)
  \/ F /\ \E p \in Futu!Tasks : Futu!ConnectOk(p)
  \/ F /\ \E p \in Futu!Tasks : Futu!Install(p)
  \/ F /\ \E p \in Futu!Tasks : Futu!CloneReplay(p)
  \/ F /\ \E p \in Futu!Tasks : Futu!ReplaySend(p)
  \/ F /\ \E p \in Futu!Tasks : Futu!ReplayReturn(p)
  \/ F /\ \E p \in Futu!Tasks : Futu!ReplayDone(p)
  \/ F /\ Futu!LoopSignal
  \/ F /\ Futu!LoopAgain
  \/ F /\ \E n \in DOMAIN actors : Futu!OnCommand(n)
  \/ F /\ \E n \in DOMAIN actors : Futu!OnShutdown(n)
  \/ F /\ \E n \in DOMAIN actors : Futu!OnFrame(n)
  \/ F /\ \E n \in DOMAIN actors : Futu!ReadFails(n)
  \/ F /\ \E n \in DOMAIN actors : Futu!KeepAlive(n)
  \/ F /\ \E n \in DOMAIN actors : Futu!OpenDAnswers(n)
  \/ F /\ \E n \in DOMAIN actors : Futu!OpenDPushes(n)
  \/ F /\ \E n \in DOMAIN actors : Futu!PartArrives(n)
  \/ F /\ \E n \in DOMAIN actors : Futu!SocketFails(n)

(***************************************************************************)
(* The fairness of Reconnect's FairSpec, and for the scheduled loop: it is *)
(* polled, a delay is over some time, a connection that was told to log    *)
(* out goes (logout_timeout).  No connect attempt need ever end.  For the  *)
(* timers that of Session's FairSpec.  For the TWS client run_with reads.  *)
(* For the Futu client every task runs, requests time out, the lock is     *)
(* given out in turn (a tokio Mutex is fair: strong fairness), an actor    *)
(* serves its queue and its socket; OpenD answers only where the program   *)
(* is a patient one.  `part' never changes, so one fairness condition on a *)
(* disjunction serves one action of each part.                             *)
(***************************************************************************)
Runs(n) ==
  \/ F /\ n \in {"a", "b", "loop"} /\ Futu!TaskStep(n)
  \/ n = "a" /\ R /\ LoopStep
  \/ n = "a" /\ S /\ LoopRuns
  \/ n = "a" /\ T /\ \E open \in Timed!Clock : Timed!Tick(open)
  \/ n = "a" /\ W /\ TwsRead
  \/ n = "b" /\ R /\ StopAbortCurrent
  \/ n = "b" /\ S /\ RetryDue
  \/ n = "b" /\ T /\ s.state = "Disconnected" /\ Timed!Disconnected
  \/ n = "loop" /\ S /\ LoggedOut
  \/ n = "actors" /\ S /\ ProcessStarts
  \/ n = "actors" /\ F /\ \E m \in DOMAIN actors : Futu!ActorServes(m)
  \/ n = "OpenD" /\ F /\ program.patient /\ \E m \in DOMAIN actors : Futu!OpenDAnswers(m)
MCSpec ==
  /\ MCInit /\ [][MCNext]_allVars
  /\ (\A n \in {"a", "b", "loop", "actors", "OpenD"} : WF_allVars(Runs(n)))
  /\ (\A q \in {"a", "b", "loop"} : SF_allVars(F /\ Futu!TakeLock(q)))

-----------------------------------------------------------------------------
\* The session's timers (on_tick) deal with a silent peer.
SilenceHandled == Timed!SilenceHandled

\* No call hangs: what the TWS client has queued is delivered, every call of the
\* Futu client returns, its reconnect loop goes on until it succeeds, and close
\* ends it.
CallsReturn == QueueIsDelivered /\ Futu!ClosedEnds /\ Futu!CallsEnd /\ Futu!LoopReconnects
=============================================================================
