-------------------------- MODULE TransportProofs --------------------------
(***************************************************************************)
(* Proofs about what makes and accepts connections: the two loops of an    *)
(* initiator, the accept loops with the registry of active sessions, and the *)
(* dialogues that look for a header.                                       *)
(***************************************************************************)
EXTENDS Initiator, Acceptor, ProxyPeek, TLAPS

\* The time a leaf may take, in seconds; most take a fraction of one.
USE SMTT(30), ZenonT(30)

(***************************************************************************)
(* The reconnecting initiator, for any number of endpoints and backoff     *)
(* steps.  The inductive invariant IInv relates the place of the loop to   *)
(* the connection task, and the rotation index and the backoff counter to  *)
(* the failures counted since the last success.                            *)
(***************************************************************************)
\* Outside connecting/spawned/awaiting the rotation index is the number of
\* failures since the last success; while connecting it is one ahead.
RotationIndex ==
  /\ loop = "connecting" =>
       /\ next_endpoint = failures + 1
       /\ NumEndpoints > 0
  /\ loop # "connecting" => next_endpoint = failures

\* The backoff counter is the number of failures or one more (the sleep after a
\* connection counts as well) until an attempt fails, and the number or one less
\* from there to the next sleep.
BackoffIndex ==
  /\ loop \in {"top", "connecting"} => backoff_step \in {failures, failures + 1}
  /\ loop \in {"spawned", "awaiting"} => backoff_step = 0 /\ failures = 0
  /\ loop \in {"dropped", "sleeping"} => backoff_step \in {failures - 1, failures}

IInv ==
  /\ TypeOK
  /\ NoOrphanConnection
  /\ RotationFromPrimary
  /\ RotationIndex
  /\ BackoffIndex

\* The loop, the connection task and the stopping thread keep IInv.
LEMMA IInvStep == IInv /\ [Next]_vars => IInv'
<1> SUFFICES ASSUME IInv, [Next]_vars PROVE IInv'
  OBVIOUS
<1> USE ReconnectAssumption DEF ReconnectAssumption, IInv, TypeOK, NoOrphanConnection,
      RotationFromPrimary, RotationIndex, BackoffIndex, LoopStates
<1>1. CASE LeaveAtTop
  BY <1>1 DEF LeaveAtTop
<1>2. CASE StartAttempt
  BY <1>2 DEF StartAttempt
<1>3. CASE ConnectFails
  BY <1>3 DEF ConnectFails
<1>4. CASE ConnectSucceeds
  BY <1>4 DEF ConnectSucceeds
<1>5. CASE PublishHandle
  BY <1>5 DEF PublishHandle
<1>6. CASE ConnectionOver
  BY ZenonT(30), <1>6 DEF ConnectionOver
<1>7. CASE CheckStopAfterAttempt
  BY <1>7 DEF CheckStopAfterAttempt
<1>8. CASE WakeUp
  BY <1>8 DEF WakeUp
<1>9. CASE ConnectionEnds
  BY <1>9 DEF ConnectionEnds
<1>10. CASE StopSetFlag
  BY <1>10 DEF StopSetFlag
<1>11. CASE StopAbortCurrent
  BY <1>11 DEF StopAbortCurrent
<1>12. CASE UNCHANGED vars
  BY <1>12 DEF vars
<1> QED
  BY ZenonT(30), <1>1, <1>2, <1>3, <1>4, <1>5, <1>6, <1>7, <1>8, <1>9, <1>10, <1>11,
     <1>12 DEF Next, LoopStep, StopStep

\* Every behaviour of the reconnect loop satisfies IInv.
THEOREM ReconnectInvariant == Spec => []IInv
<1>1. Init => IInv
  <2> SUFFICES ASSUME Init PROVE IInv
    OBVIOUS
  <2> USE ReconnectAssumption DEF ReconnectAssumption, Init, LoopStates
  <2>1. loop \in LoopStates /\ conn \in {"none", "live", "ended"}
    OBVIOUS
  <2>2. next_endpoint \in Nat /\ endpoint \in Nat /\ backoff_step \in Nat
    OBVIOUS
  <2>3. current \in BOOLEAN /\ stop \in BOOLEAN
    BY ZenonT(30)
  <2>4. stopper \in {"idle", "flagged", "returned"} /\ failures \in 0..MaxFailures
    OBVIOUS
  <2>5. NoOrphanConnection /\ RotationFromPrimary /\ RotationIndex /\ BackoffIndex
    BY DEF NoOrphanConnection, RotationFromPrimary, RotationIndex, BackoffIndex
  <2> QED
    BY <2>1, <2>2, <2>3, <2>4, <2>5 DEF IInv, TypeOK
<1> QED
  BY <1>1, IInvStep, PTL DEF Spec

\* No connection task outlives the loop's wait for it, and the loop never has
\* two: for any number of endpoints and any interleaving with stop().
THEOREM NoOrphan == Spec => []NoOrphanConnection
<1>1. IInv => NoOrphanConnection
  BY DEF IInv
<1> QED
  BY <1>1, ReconnectInvariant, PTL

\* The attempt after k consecutive failures goes to endpoint k modulo the
\* number of endpoints, hence to the primary after every success, and the sleep
\* before it is the k-th or (k-1)-th step of the configured ladder.
THEOREM Paced == Spec => []RetriesPaced
<1>1. IInv => RetriesPaced
  BY DEF IInv, BackoffIndex, RetriesPaced, BackoffTracksFailures
<1> QED
  BY <1>1, ReconnectInvariant, PTL

-----------------------------------------------------------------------------
(***************************************************************************)
(* run_scheduled_initiator, for every schedule, any number of process      *)
(* restarts and any horizon.  What the schedule says of an instant is not  *)
(* looked into, but that a non-stop session is always in session.          *)
(***************************************************************************)
Running == turn \in {"poll", "connecting"}

SInv ==
  /\ leaving \in Nat /\ was_in_session \in BOOLEAN
  /\ turn \in {"poll", "connecting", "done", "down"}
  \* what the loop believes is what it saw last
  /\ (Running /\ looked) => was_in_session = InSession(now)
  \* it connects, and stays connected, only while it believes to be in session
  /\ turn = "connecting" => was_in_session
  /\ handle = "up" => Running /\ was_in_session
  \* a connection that logs out is of a window that is over
  /\ (Running /\ leaving > 0) => ~was_in_session /\ ~InSession(now)
  /\ turn = "down" => leaving = 0

\* The last instant the loop has seen.
Seen == IF looked THEN now ELSE now - 1

\* While the loop believes to be in session it has seen no break since the last
\* reset, or since the process was started; while it does not, there was one.
WInv ==
  /\ now \in Nat /\ created \in 0..now /\ restarted.at \in 0..now
  /\ (Running /\ was_in_session) =>
       OneWindow(created, Seen) \/ OneWindow(restarted.at, Seen)
  /\ (Running /\ ~was_in_session) => ~OneWindow(created, now)

LEMMA InSessionBool ==
  ASSUME NEW t
  PROVE  InSession(t) \in BOOLEAN
  BY DEF InSession, is_in_session

\* decide asks for an exit exactly when the loop was in session and is no longer:
\* a non-stop session never leaves.
LEMMA ExitSeen ==
  ASSUME was_in_session \in BOOLEAN
  PROVE  decide(schedule, was_in_session, now) = "Exit" <=> was_in_session /\ ~InSession(now)
<1>1. schedule.non_stop => is_in_session(schedule, now)
  BY DEF is_in_session
<1> QED
  BY <1>1 DEF decide, InSession

LEMMA SInvInit == ScheduledInit => SInv
  BY InSessionBool DEF ScheduledInit, SInv, Running, SeedFrom

\* Polling: the handle survives only when the window does.
LEMMA PollInv ==
  ASSUME SInv, Poll
  PROVE  SInv'
<1> DEFINE exit == decide(schedule, was_in_session, now) = "Exit"
<1>1. exit <=> was_in_session /\ ~InSession(now)
  BY ExitSeen DEF SInv
<1>2. /\ turn = "poll" /\ was_in_session' = InSession(now) /\ looked' = TRUE
      /\ leaving' = IF exit /\ handle = "up" THEN leaving + 1 ELSE leaving
      /\ handle' = IF exit \/ handle = "finished" THEN "none" ELSE handle
      /\ turn' = IF was_in_session' /\ handle' = "none" /\ ~waiting
                 THEN "connecting" ELSE "poll"
      /\ UNCHANGED <<plan, now>>
  BY DEF Poll, Boundary, HandleAfterPoll
<1>3. InSession(now)' = InSession(now) /\ InSession(now) \in BOOLEAN
  BY <1>2, InSessionBool DEF InSession, schedule
<1> HIDE DEF exit
<1> QED
  BY <1>1, <1>2, <1>3 DEF SInv, Running

LEMMA TickInv ==
  ASSUME SInv, Tick
  PROVE  SInv'
<1>1. /\ looked' = FALSE /\ (Running => looked)
      /\ (leaving > 0 /\ ~InSession(now)) => ~InSession(now + 1)
      /\ UNCHANGED <<turn, was_in_session, handle, leaving>>
  BY DEF Tick, Running
<1>2. InSession(now)' = InSession(now + 1)
  BY DEF Tick, InSession, schedule
<1> QED
  BY <1>1, <1>2 DEF SInv, Running

LEMMA SInvStep == SInv /\ [ScheduledNext]_ScheduledVars => SInv'
<1> SUFFICES ASSUME SInv, [ScheduledNext]_ScheduledVars PROVE SInv'
  OBVIOUS
<1>0. ASSUME UNCHANGED <<plan, now>> PROVE InSession(now)' = InSession(now)
  BY <1>0 DEF InSession, schedule
<1>1. CASE Tick
  BY <1>1, TickInv
<1>2. CASE Poll
  BY <1>2, PollInv
<1>3. CASE ConnectOk
  BY ZenonT(30), <1>0, <1>3 DEF ConnectOk, SInv, Running
<1>4. CASE ConnectErr
  BY ZenonT(30), <1>0, <1>4 DEF ConnectErr, SInv, Running
<1>5. CASE RetryDue
  BY <1>0, <1>5 DEF RetryDue, SInv, Running
<1>6. CASE Abandon
  BY ZenonT(30), <1>0, <1>6, InSessionBool DEF Abandon, SInv, Running
<1>7. CASE ConnectionDrops
  BY ZenonT(30), <1>0, <1>7 DEF ConnectionDrops, SInv, Running
<1>8. CASE LoggedOut
  BY <1>0, <1>8 DEF LoggedOut, SInv, Running
<1>9. CASE StopScheduled
  BY <1>0, <1>9 DEF StopScheduled, SInv, Running
<1>10. CASE LoopEnds
  BY <1>0, <1>10 DEF LoopEnds, SInv, Running
<1>11. CASE ProcessDies
  BY <1>0, <1>11 DEF ProcessDies, SInv, Running
<1>12. CASE ProcessStarts
  <2>1. was_in_session' \in BOOLEAN
    BY <1>12, InSessionBool DEF ProcessStarts, SeedFrom
  <2> QED
    BY <1>0, <1>12, <2>1 DEF ProcessStarts, SInv, Running
<1>13. CASE UNCHANGED ScheduledVars
  BY <1>0, <1>13 DEF ScheduledVars, SInv, Running
<1> QED
  BY <1>1, <1>2, <1>3, <1>4, <1>5, <1>6, <1>7, <1>8, <1>9, <1>10, <1>11, <1>12, <1>13
     DEF ScheduledNext

-----------------------------------------------------------------------------
LEMMA WInvInit == ScheduledInit => WInv
  BY InSessionBool DEF ScheduledInit, WInv, Running, SeedFrom, OneWindow, Seen

\* Entering a window resets the store at this instant; leaving it is a break.
LEMMA PollWInv ==
  ASSUME SInv, WInv, Poll
  PROVE  WInv'
<1>0. now \in Nat /\ created \in 0..now /\ restarted.at \in 0..now /\ turn = "poll"
  BY DEF WInv, Poll
<1>1. /\ was_in_session' = InSession(now) /\ looked' = TRUE /\ Running
      /\ UNCHANGED <<plan, now, restarted>>
      /\ created' \in {created, now}
      /\ (~was_in_session /\ InSession(now)) /\ ~schedule.non_stop => created' = now
      /\ was_in_session \/ ~InSession(now) => created' = created
  BY <1>0 DEF Poll, Boundary, decide, InSession, Running
<1>2. schedule.non_stop => \A u : InSession(u)
  BY DEF is_in_session, InSession
<1>3. \A a, b : OneWindow(a, b)' <=> OneWindow(a, b)
  BY <1>1 DEF OneWindow, InSession, schedule
<1>4. CASE was_in_session /\ InSession(now)
  <2>1. OneWindow(created, Seen) => OneWindow(created, now)
    BY <1>0, <1>4 DEF OneWindow, Seen
  <2>2. OneWindow(restarted.at, Seen) => OneWindow(restarted.at, now)
    BY <1>0, <1>4 DEF OneWindow, Seen
  <2> QED
    BY <1>0, <1>1, <1>3, <1>4, <2>1, <2>2 DEF WInv, Seen, Running
<1>5. CASE ~was_in_session /\ InSession(now)
  <2>1. OneWindow(now, now)
    BY <1>0, <1>5 DEF OneWindow
  <2>2. ~schedule.non_stop
    BY <1>0, <1>1, <1>2, <1>5 DEF WInv, OneWindow
  <2> QED
    BY <1>0, <1>1, <1>3, <1>5, <2>1, <2>2 DEF WInv, Seen, Running
<1>6. CASE ~InSession(now)
  <2>1. ~OneWindow(created, now)
    BY <1>0, <1>6 DEF OneWindow
  <2> QED
    BY <1>0, <1>1, <1>3, <1>6, <2>1 DEF WInv, Seen, Running
<1> QED
  BY <1>4, <1>5, <1>6

LEMMA TickWInv ==
  ASSUME WInv, Tick
  PROVE  WInv'
<1>0. now \in Nat /\ created \in 0..now /\ restarted.at \in 0..now
  BY DEF WInv
<1>1. /\ Running => looked
      /\ looked' = FALSE /\ now' = now + 1
      /\ UNCHANGED <<plan, turn, was_in_session, created, restarted>>
  BY DEF Tick, Running
<1>2. \A a, b : OneWindow(a, b)' <=> OneWindow(a, b)
  BY <1>1 DEF OneWindow, InSession, schedule
<1>3. Running => Seen' = Seen
  BY <1>0, <1>1 DEF Seen
<1>4. ~OneWindow(created, now) => ~OneWindow(created, now + 1)
  BY <1>0 DEF OneWindow
<1> QED
  BY <1>0, <1>1, <1>2, <1>3, <1>4 DEF WInv, Running

\* The other steps keep the clock and the store.
LEMMA StillWInv ==
  ASSUME WInv, UNCHANGED <<plan, now, created, restarted, was_in_session>>,
         Running' => Running,
         looked' = looked \/ (looked' = TRUE /\ was_in_session = InSession(now))
  PROVE  WInv'
<1>1. \A a, b : OneWindow(a, b)' <=> OneWindow(a, b)
  BY DEF OneWindow, InSession, schedule
<1>2. ASSUME was_in_session, Running, looked' # looked
      PROVE  OneWindow(created, now) \/ OneWindow(restarted.at, now)
  <2>1. InSession(now) /\ looked' = TRUE
    BY ZenonT(30), <1>2
  <2>2. ASSUME NEW from \in 0..now, OneWindow(from, Seen) PROVE OneWindow(from, now)
    BY <2>1, <2>2 DEF WInv, OneWindow, Seen
  <2> QED
    BY <1>2, <2>2 DEF WInv
<1> QED
  BY <1>1, <1>2 DEF WInv, Seen

LEMMA WInvStep == SInv /\ WInv /\ [ScheduledNext]_ScheduledVars => WInv'
<1> SUFFICES ASSUME SInv, WInv, [ScheduledNext]_ScheduledVars PROVE WInv'
  OBVIOUS
<1>1. CASE Tick
  BY <1>1, TickWInv
<1>2. CASE Poll
  BY <1>2, PollWInv
<1>3. CASE Abandon
  <2>1. looked' = looked \/ (looked' = TRUE /\ was_in_session = InSession(now))
    BY <1>3 DEF Abandon
  <2> QED
    BY ZenonT(30), <1>3, <2>1, StillWInv DEF Abandon, Running
<1>4. CASE ConnectOk \/ ConnectErr \/ RetryDue \/ ConnectionDrops \/ LoggedOut
           \/ StopScheduled \/ LoopEnds \/ ProcessDies \/ UNCHANGED ScheduledVars
  BY ZenonT(30), <1>4, StillWInv DEF ConnectOk, ConnectErr, RetryDue, ConnectionDrops, LoggedOut,
                         StopScheduled, LoopEnds, ProcessDies, ScheduledVars, Running
<1>5. CASE ProcessStarts
  <2>1. /\ restarted'.at = now /\ looked' = FALSE
        /\ was_in_session' = InSession(created)
        /\ UNCHANGED <<plan, now, created>>
    BY <1>5 DEF ProcessStarts, SeedFrom
  <2>2. \A a, b : OneWindow(a, b)' <=> OneWindow(a, b)
    BY <2>1 DEF OneWindow, InSession, schedule
  <2>3. now \in Nat /\ created \in 0..now
    BY DEF WInv
  <2>4. OneWindow(now, now - 1)
    BY <2>3 DEF OneWindow
  <2>5. ~InSession(created) => ~OneWindow(created, now)
    BY <2>3 DEF OneWindow
  <2> QED
    BY <2>1, <2>2, <2>3, <2>4, <2>5 DEF WInv, Seen
<1> QED
  BY <1>1, <1>2, <1>3, <1>4, <1>5 DEF ScheduledNext

\* Whatever the schedule, however the connect attempts, drops, restarts and
\* stop() fall: once the loop has looked at the clock it is connected only inside
\* its window, and never beside a connection of an earlier window.
THEOREM InWindow == ScheduledSpec => []ConnectedInWindow
<1>1. SInv => ConnectedInWindow
  BY DEF SInv, Running, ConnectedInWindow
<1> QED
  BY <1>1, SInvInit, SInvStep, PTL DEF ScheduledSpec

\* Whatever the schedule and the restarts: the store is reset at most once in a
\* window, and a connection never runs on the numbers of an earlier one.
THEOREM OwnNumbers == ScheduledSpec => WindowNumbers
<1>1. SInv /\ WInv => FreshWindow
  BY DEF SInv, WInv, FreshWindow, Seen, Running
<1>2. SInv /\ WInv /\ [ScheduledNext]_ScheduledVars =>
        [created' # created => ~schedule.non_stop /\ ~OneWindow(created, now)]_ScheduledVars
  <2> SUFFICES ASSUME SInv, WInv, ScheduledNext, created' # created
               PROVE  ~schedule.non_stop /\ ~OneWindow(created, now)
    BY DEF ScheduledVars
  <2>1. Poll
    BY ZenonT(30) DEF ScheduledNext, Tick, ConnectOk, ConnectErr, RetryDue, Abandon, ConnectionDrops,
           LoggedOut, StopScheduled, LoopEnds, ProcessDies, ProcessStarts
  <2>2. decide(schedule, was_in_session, now) = "Enter" /\ turn = "poll"
    BY <2>1 DEF Poll, Boundary
  <2>3. ~schedule.non_stop /\ ~was_in_session
    BY <2>2 DEF decide
  <2> QED
    BY <2>2, <2>3 DEF WInv, Running
<1>3. ScheduledSpec => [](SInv /\ WInv)
  BY SInvInit, SInvStep, WInvInit, WInvStep, PTL DEF ScheduledSpec
<1>4. ScheduledSpec => []FreshWindow
  BY <1>1, <1>3, PTL
<1>5. ScheduledSpec =>
        [][created' # created => ~schedule.non_stop /\ ~OneWindow(created, now)]_ScheduledVars
  BY <1>2, <1>3, PTL DEF ScheduledSpec
<1> QED
  BY <1>4, <1>5, PTL DEF WindowNumbers, ResetOncePerWindow

-----------------------------------------------------------------------------
(***************************************************************************)
(* Proofs about the accept loops and the registry of active sessions, for  *)
(* any number of connections, identities and listeners.  What makes the    *)
(* properties inductive is that the registry and the tasks that hold a     *)
(* guard agree: an identity is in it exactly while one task owns it.       *)
(***************************************************************************)
\* What the connections' places and identities range over.
Places ==
  /\ listener \in Listeners
  /\ pc \in [Peers -> Stages]
  /\ sid \in [Peers -> Sids \cup {NoOne}]
  /\ DOMAIN store = Peers
  /\ active \subseteq Sids
  /\ monitor \in [Sids -> Peers \cup {NoOne}]

\* A task past the routing has an identity.
Named == \A c \in Peers : (pc[c] \in {"factory", "insert"} \/ Owns(c)) => sid[c] \in Sids

\* The owner of an identity has it in the registry.
OwnerActive == \A c \in Peers : Owns(c) => sid[c] \in active

\* An identity has one owner at most.
OneOwner ==
  \A c, d \in Peers : (Owns(c) /\ Owns(d) /\ sid[c] = sid[d]) => c = d

AInv ==
  /\ Places /\ Named /\ OwnerActive /\ OneOwner
  /\ NotLockedOut /\ MonitorKnowsRunning

\* The end of a task gives back its own identity and nobody else's.
LEMMA TaskEndsInv ==
  ASSUME AInv, NEW c \in Peers, TaskEnds(c), UNCHANGED monitor
  PROVE  AInv'
<1> USE DEF AInv, TaskEnds
<1>0. Places'
  BY DEF Places, Stages, Freed
<1>1. \A d \in Peers : pc'[d] = IF d = c THEN "gone" ELSE pc[d]
  BY DEF Places
<1>2. \A d \in Peers : Owns(d)' <=> (d # c /\ Owns(d))
  BY <1>1 DEF Owns, Holding, Single
<1>3. Named'
  BY <1>1, <1>2 DEF Named
<1>4. OwnerActive'
  BY <1>2 DEF OwnerActive, OneOwner, Freed
<1>5. OneOwner'
  BY <1>2 DEF OneOwner
<1>6. NotLockedOut'
  BY <1>2 DEF NotLockedOut, Freed, OwnerActive
<1>7. MonitorKnowsRunning'
  BY <1>1 DEF MonitorKnowsRunning
<1> QED
  BY <1>0, <1>3, <1>4, <1>5, <1>6, <1>7

\* A task moves on without changing what it owns.
LEMMA MovesInv ==
  ASSUME AInv, NEW c \in Peers, NEW to \in Stages,
         UNCHANGED <<listener, active, monitor>>,
         pc' = [pc EXCEPT ![c] = to],
         sid' = sid \/ (~Owns(c) /\ \E s \in Sids : sid' = [sid EXCEPT ![c] = s]),
         DOMAIN store' = Peers,
         to # "run", Owns(c)' <=> Owns(c),
         to \in {"factory", "insert"} => sid'[c] \in Sids
  PROVE  AInv'
<1> USE DEF AInv
<1>0. Places'
  BY DEF Places
<1>1. \A d \in Peers : pc'[d] = IF d = c THEN to ELSE pc[d]
  BY DEF Places
<1>2. \A d \in Peers : Owns(d)' <=> Owns(d)
  BY <1>1 DEF Owns, Single
<1>3. \A d \in Peers : (d # c \/ Owns(d)) => sid'[d] = sid[d]
  BY ZenonT(30) DEF Places
<1>4. Named'
  BY <1>1, <1>2, <1>3 DEF Named
<1>5. OwnerActive'
  BY <1>2, <1>3 DEF OwnerActive
<1>6. OneOwner'
  BY <1>2, <1>3 DEF OneOwner
<1>7. NotLockedOut'
  BY <1>2, <1>3 DEF NotLockedOut
<1>8. MonitorKnowsRunning'
  BY <1>1, <1>3 DEF MonitorKnowsRunning
<1> QED
  BY <1>0, <1>4, <1>5, <1>6, <1>7, <1>8

\* Every step of the accept loop, of a connection's task and of the engine's
\* shutdown keeps AInv.
LEMMA AInvStep == AInv /\ [AcceptorNext]_AcceptorVars => AInv'
<1> SUFFICES ASSUME AInv, [AcceptorNext]_AcceptorVars PROVE AInv'
  OBVIOUS
<1> USE AcceptorAssumption DEF AcceptorAssumption
<1>1. CASE UNCHANGED AcceptorVars
  BY ZenonT(30), <1>1 DEF AcceptorVars, AInv, Places, Named, OwnerActive, OneOwner, NotLockedOut,
              MonitorKnowsRunning, Owns, Single
<1>2. CASE Shutdown
  <2>1. \A d \in Peers :
          /\ pc'[d] # pc[d] => pc[d] \in {"unborn", "backlog", "strip"}
          /\ pc'[d] \in {pc[d], "gone"}
    BY <1>2 DEF Shutdown
  <2>2. \A d \in Peers : Owns(d)' <=> Owns(d)
    BY <1>2, <2>1 DEF Shutdown, Owns, Holding, Single
  <2>3. Places'
    BY <1>2 DEF Shutdown, AInv, Places, Stages
  <2>4. Named' /\ OwnerActive' /\ OneOwner' /\ NotLockedOut' /\ MonitorKnowsRunning'
    BY ZenonT(30), <1>2, <2>1, <2>2 DEF Shutdown, AInv, Named, OwnerActive, OneOwner, NotLockedOut,
                            MonitorKnowsRunning
  <2> QED
    BY ZenonT(30), <2>3, <2>4 DEF AInv
<1>3. ASSUME NEW c \in Peers, PeerStep(c) PROVE AInv'
  <2>0. /\ pc \in [Peers -> Stages] /\ sid \in [Peers -> Sids \cup {NoOne}]
        /\ DOMAIN store = Peers /\ listener \in Listeners
    BY DEF AInv, Places
  <2>1. CASE TlsFails(c) \/ PrelogonEnds(c) \/ FactoryFails(c) \/ GuardDrops(c)
             \/ Panics(c) \/ Aborted(c) \/ \E s \in Sids : RouteNotFound(c, s)
    BY ZenonT(30), <2>1, TaskEndsInv DEF TlsFails, PrelogonEnds, FactoryFails, GuardDrops, Panics,
                             Aborted, RouteNotFound
  <2>2. CASE Connect(c)
    <3>1. Owns(c)' <=> Owns(c)
      BY <2>2, <2>0 DEF Connect, Owns, Holding, Single
    <3> QED
      BY ZenonT(30), <2>2, <2>0, <3>1, MovesInv DEF Connect, Stages
  <2>3. CASE AcceptProxied(c)
    <3>1. Owns(c)' <=> Owns(c)
      BY <2>3, <2>0 DEF AcceptProxied, Owns, Holding, Single
    <3> QED
      BY ZenonT(30), <2>3, <2>0, <3>1, MovesInv DEF AcceptProxied, Stages
  <2>4. ASSUME pc[c] \in {"backlog", "strip"}, NEW address, Admit(c, address) PROVE AInv'
    <3>0. ~Owns(c) /\ UNCHANGED <<listener, monitor>>
      BY <2>4 DEF Owns, Holding, Admit
    <3>1. CASE Single /\ active # {}
      <4>1. /\ pc' = [pc EXCEPT ![c] = "gone"] /\ UNCHANGED <<sid, store, active>>
        BY <2>4, <3>1 DEF Admit, AdmitSingle
      <4>2. Owns(c)' <=> Owns(c)
        BY <2>0, <3>0, <4>1 DEF Owns, Holding, Single
      <4> QED
        BY ZenonT(30), <2>0, <3>0, <4>1, <4>2, MovesInv DEF Stages
    <3>2. CASE Single /\ active = {}
      <4>1. PICK s \in Static : /\ active' = {s} /\ sid' = [sid EXCEPT ![c] = s]
                               /\ store' = [store EXCEPT ![c] = StoreOf[listener][s]]
                               /\ pc' = [pc EXCEPT ![c] = AfterAccept]
        BY <2>4, <3>2 DEF Admit, AdmitSingle
      <4>2. s \in Sids /\ AfterAccept \in {"tls", "start"}
        BY <2>0, <3>2 DEF Static, AfterAccept
      <4>3. \A d \in Peers : Owns(d)' <=> d = c
        BY <2>0, <3>0, <3>2, <4>1, <4>2 DEF Owns, Holding, Single, AInv, OwnerActive
      <4>4. sid'[c] = s
        BY <2>0, <4>1
      <4>5. Places'
        BY ZenonT(30), <3>0, <4>1, <4>2 DEF AInv, Places, Stages
      <4>6. \A d \in Peers : d # c => pc'[d] = pc[d] /\ sid'[d] = sid[d]
        BY ZenonT(30), <2>0, <4>1
      <4>7. Named'
        BY ZenonT(30), <4>2, <4>3, <4>4, <4>6, <2>0, <4>1 DEF AInv, Named
      <4>8. OwnerActive' /\ OneOwner' /\ NotLockedOut'
        BY <4>1, <4>3, <4>4 DEF OwnerActive, OneOwner, NotLockedOut
      <4>9. MonitorKnowsRunning'
        BY ZenonT(30), <2>0, <3>0, <4>1, <4>2, <4>6 DEF AInv, MonitorKnowsRunning
      <4> QED
        BY <4>5, <4>7, <4>8, <4>9 DEF AInv
    <3>3. CASE ~Single
      <4>1. PICK to \in {"tls", "prelogon", "gone"} :
              pc' = [pc EXCEPT ![c] = to] /\ UNCHANGED <<sid, store, active>>
        BY <2>4, <3>3 DEF Admit, AdmitMulti, AfterAccept
      <4>2. Owns(c)' <=> Owns(c)
        BY ZenonT(30), <2>0, <3>0, <3>3, <4>1 DEF Owns, Holding, Single
      <4> QED
        BY ZenonT(30), <2>0, <3>0, <4>1, <4>2, MovesInv DEF Stages
    <3> QED
      BY <3>1, <3>2, <3>3
  <2>5. CASE TlsDone(c)
    <3>1. Owns(c)' <=> Owns(c)
      BY <2>5, <2>0 DEF TlsDone, Owns, Holding, Single
    <3> QED
      BY ZenonT(30), <2>5, <2>0, <3>1, MovesInv DEF TlsDone, Stages
  <2>6. ASSUME NEW s \in Sids, RouteStatic(c, s) PROVE AInv'
    <3>1. Owns(c)' <=> Owns(c)
      BY ZenonT(30), <2>6, <2>0 DEF RouteStatic, Owns, Holding, Single
    <3>2. ~Owns(c) /\ sid'[c] = s
      BY ZenonT(30), <2>6, <2>0 DEF RouteStatic, Owns, Holding
    <3> QED
      BY ZenonT(30), <2>6, <2>0, <3>1, <3>2, MovesInv DEF RouteStatic, Stages
  <2>7. ASSUME NEW s \in Sids, RouteDynamic(c, s) PROVE AInv'
    <3>1. Owns(c)' <=> Owns(c)
      BY ZenonT(30), <2>7, <2>0 DEF RouteDynamic, Owns, Holding, Single
    <3>2. ~Owns(c) /\ sid'[c] = s
      BY <2>7, <2>0 DEF RouteDynamic, Owns, Holding
    <3> QED
      BY ZenonT(30), <2>7, <2>0, <3>1, <3>2, MovesInv DEF RouteDynamic, Stages
  <2>8. CASE FactoryDone(c)
    <3>1. Owns(c)' <=> Owns(c)
      BY <2>8, <2>0 DEF FactoryDone, Owns, Holding, Single
    <3>2. sid[c] \in Sids
      BY ZenonT(30), <2>8 DEF FactoryDone, AInv, Named
    <3> QED
      BY ZenonT(30), <2>8, <2>0, <3>1, <3>2, MovesInv DEF FactoryDone, Stages
  <2>9. CASE InsertActive(c)
    <3>1. CASE sid[c] \in active
      BY ZenonT(30), <2>9, <3>1, TaskEndsInv DEF InsertActive
    <3>2. CASE sid[c] \notin active
      <4>1. /\ pc' = [pc EXCEPT ![c] = "start"] /\ active' = active \cup {sid[c]}
            /\ UNCHANGED <<listener, sid, store, monitor>>
        BY ZenonT(30), <2>9, <3>2 DEF InsertActive
      <4>2. sid[c] \in Sids /\ ~Owns(c)
        BY <2>9 DEF InsertActive, AInv, Named, Owns, Holding
      <4>3. \A d \in Peers : Owns(d)' <=> (d = c \/ Owns(d))
        BY ZenonT(30), <2>0, <4>1 DEF Owns, Holding, Single
      <4>4. Places'
        BY ZenonT(30), <4>1, <4>2 DEF AInv, Places, Stages
      <4>5. Named' /\ OwnerActive' /\ NotLockedOut'
        BY ZenonT(30), <2>0, <4>1, <4>2, <4>3 DEF AInv, Named, OwnerActive, NotLockedOut
      <4>6. OneOwner'
        BY ZenonT(30), <3>2, <4>1, <4>3 DEF AInv, OwnerActive, OneOwner
      <4>7. MonitorKnowsRunning'
        BY ZenonT(30), <2>0, <4>1 DEF AInv, MonitorKnowsRunning
      <4> QED
        BY <4>4, <4>5, <4>6, <4>7 DEF AInv
    <3> QED
      BY <3>1, <3>2
  <2>10. CASE Register(c)
    <3>1. /\ pc[c] = "start" /\ pc' = [pc EXCEPT ![c] = "run"]
          /\ monitor' = [monitor EXCEPT ![sid[c]] = c]
          /\ UNCHANGED <<listener, sid, store, active>>
      BY ZenonT(30), <2>10 DEF Register
    <3>2. Owns(c) /\ sid[c] \in Sids
      BY ZenonT(30), <3>1 DEF AInv, Named, Owns, Holding
    <3>3. \A d \in Peers : Owns(d)' <=> Owns(d)
      BY <2>0, <3>1 DEF Owns, Holding, Single
    <3>4. Places'
      BY ZenonT(30), <3>1, <3>2 DEF AInv, Places, Stages
    <3>5. Named' /\ OwnerActive' /\ NotLockedOut' /\ OneOwner'
      BY ZenonT(30), <2>0, <3>1, <3>2, <3>3 DEF AInv, Named, OwnerActive, NotLockedOut, OneOwner
    <3>6. MonitorKnowsRunning'
      <4> SUFFICES ASSUME NEW d \in Peers, pc'[d] = "run" PROVE monitor'[sid[d]] = d
        BY <3>1 DEF MonitorKnowsRunning
      <4>1. monitor \in [Sids -> Peers \cup {NoOne}]
        BY ZenonT(30) DEF AInv, Places
      <4>2. CASE d = c
        BY <3>1, <3>2, <4>1, <4>2
      <4>3. CASE d # c
        <5>1. pc[d] = "run" /\ Owns(d) /\ monitor[sid[d]] = d
          BY ZenonT(30), <2>0, <3>1, <4>3 DEF AInv, MonitorKnowsRunning, Owns, Holding
        <5>2. sid[d] # sid[c] /\ sid[d] \in Sids
          BY ZenonT(30), <3>2, <4>3, <5>1 DEF AInv, OneOwner, Named
        <5> QED
          BY <3>1, <4>1, <5>1, <5>2
      <4> QED
        BY ZenonT(30), <4>2, <4>3
    <3> QED
      BY ZenonT(30), <3>4, <3>5, <3>6 DEF AInv
  <2>11. CASE MarkDisconnected(c)
    <3>1. /\ pc[c] = "run" /\ pc' = [pc EXCEPT ![c] = "leaving"]
          /\ monitor' = [monitor EXCEPT ![sid[c]] = NoOne]
          /\ UNCHANGED <<listener, sid, store, active>>
      BY <2>11 DEF MarkDisconnected
    <3>2. Owns(c) /\ sid[c] \in Sids
      BY ZenonT(30), <3>1 DEF AInv, Named, Owns, Holding
    <3>3. \A d \in Peers : Owns(d)' <=> Owns(d)
      BY ZenonT(30), <2>0, <3>1 DEF Owns, Holding, Single
    <3>4. Places'
      BY ZenonT(30), <3>1, <3>2 DEF AInv, Places, Stages
    <3>5. Named' /\ OwnerActive' /\ NotLockedOut' /\ OneOwner'
      BY ZenonT(30), <2>0, <3>1, <3>2, <3>3 DEF AInv, Named, OwnerActive, NotLockedOut, OneOwner
    <3>6. MonitorKnowsRunning'
      <4> SUFFICES ASSUME NEW d \in Peers, pc'[d] = "run" PROVE monitor'[sid[d]] = d
        BY <3>1 DEF MonitorKnowsRunning
      <4>1. monitor \in [Sids -> Peers \cup {NoOne}]
        BY ZenonT(30) DEF AInv, Places
      <4>2. d # c /\ pc[d] = "run" /\ Owns(d) /\ monitor[sid[d]] = d
        BY ZenonT(30), <2>0, <3>1 DEF AInv, MonitorKnowsRunning, Owns, Holding
      <4>3. sid[d] # sid[c] /\ sid[d] \in Sids
        BY ZenonT(30), <3>2, <4>2 DEF AInv, OneOwner, Named
      <4> QED
        BY ZenonT(30), <3>1, <4>1, <4>2, <4>3
    <3> QED
      BY ZenonT(30), <3>4, <3>5, <3>6 DEF AInv
  <2> QED
    BY ZenonT(30), <1>3, <2>1, <2>2, <2>3, <2>4, <2>5, <2>6, <2>7, <2>8, <2>9, <2>10, <2>11
       DEF PeerStep, AcceptLoopStep, TaskStep, AcceptDirect, StripEnds
<1> QED
  BY <1>1, <1>2, <1>3 DEF AcceptorNext

-----------------------------------------------------------------------------
\* What the accept loop and the count of panics range over.
LoopPlaces == accepting \in {"accept", "gone"} \cup Peers /\ panics \in 0..MaxPanics

\* While no task was torn down from outside, an entry of the Monitor is that of
\* a running connection, under its own identity.
EntriesCurrent ==
  (panics = 0 /\ accepting # "gone") =>
    \A s \in Sids : monitor[s] # NoOne => pc[monitor[s]] = "run" /\ sid[monitor[s]] = s

RInv == AInv /\ LoopPlaces /\ EntriesCurrent

LEMMA LoopPlacesStep ==
  ASSUME RInv, [AcceptorNext]_AcceptorVars
  PROVE  LoopPlaces'
<1> USE AcceptorAssumption DEF AcceptorAssumption, RInv, LoopPlaces
<1>1. CASE UNCHANGED AcceptorVars
  BY <1>1 DEF AcceptorVars
<1>2. CASE Shutdown
  BY ZenonT(30), <1>2 DEF Shutdown
<1>3. ASSUME NEW c \in Peers, PeerStep(c) PROVE LoopPlaces'
  <2>1. CASE AcceptDirect(c) \/ AcceptProxied(c) \/ StripEnds(c)
    BY ZenonT(30), <2>1 DEF AcceptDirect, AcceptProxied, StripEnds, Admit
  <2>2. CASE Panics(c)
    BY <2>2 DEF Panics
  <2>3. CASE UNCHANGED <<accepting, panics>>
    BY <2>3
  <2> QED
    BY ZenonT(30), <1>3, <2>1, <2>2, <2>3
       DEF PeerStep, AcceptLoopStep, TaskStep, Connect, TlsDone, TlsFails, PrelogonEnds, FactoryDone,
           FactoryFails, InsertActive, Register, GuardDrops, Aborted, MarkDisconnected,
           RouteNotFound, RouteStatic, RouteDynamic
<1> QED
  BY ZenonT(30), <1>1, <1>2, <1>3 DEF AcceptorNext

\* Only Register makes an entry, and a running task takes its own away before it
\* ends, unless it panics or is aborted.
LEMMA EntriesCurrentStep ==
  ASSUME RInv, [AcceptorNext]_AcceptorVars
  PROVE  EntriesCurrent'
<1> USE AcceptorAssumption DEF AcceptorAssumption
<1>0. /\ pc \in [Peers -> Stages] /\ sid \in [Peers -> Sids \cup {NoOne}]
      /\ monitor \in [Sids -> Peers \cup {NoOne}]
      /\ panics \in Nat
  <2>1. Places /\ panics \in 0..MaxPanics
    BY DEF RInv, AInv, LoopPlaces
  <2>2. QED BY <2>1 DEF Places
<1>1. CASE UNCHANGED AcceptorVars
  BY ZenonT(30), <1>1 DEF AcceptorVars, RInv, EntriesCurrent
<1>2. CASE Shutdown
  BY ZenonT(30), <1>2 DEF Shutdown, EntriesCurrent
<1>3. ASSUME NEW c \in Peers, PeerStep(c) PROVE EntriesCurrent'
  <2>1. ASSUME pc[c] # "run", UNCHANGED <<monitor, panics>>, accepting = "gone" => accepting' = "gone",
               \A d \in Peers : d # c => pc'[d] = pc[d] /\ sid'[d] = sid[d]
        PROVE  EntriesCurrent'
    <3> SUFFICES ASSUME panics' = 0, accepting' # "gone", NEW s \in Sids, monitor'[s] # NoOne
                 PROVE  pc'[monitor'[s]] = "run" /\ sid'[monitor'[s]] = s
      BY ZenonT(30) DEF EntriesCurrent
    <3>1. monitor[s] \in Peers /\ pc[monitor[s]] = "run" /\ sid[monitor[s]] = s
      BY ZenonT(30), <1>0, <2>1 DEF RInv, EntriesCurrent
    <3>2. QED BY ZenonT(30), <2>1, <3>1
  <2>2. CASE Connect(c) \/ AcceptProxied(c) \/ TlsDone(c) \/ FactoryDone(c)
             \/ \E s \in Sids : RouteStatic(c, s) \/ RouteDynamic(c, s)
    BY ZenonT(30), <1>0, <2>1, <2>2 DEF Connect, AcceptProxied, TlsDone, FactoryDone, RouteStatic, RouteDynamic
  <2>3. ASSUME pc[c] # "run", UNCHANGED <<accepting, monitor, panics>>, TaskEnds(c)
        PROVE  EntriesCurrent'
    BY ZenonT(30), <1>0, <2>1, <2>3 DEF TaskEnds
  <2>4. CASE TlsFails(c) \/ PrelogonEnds(c) \/ FactoryFails(c) \/ GuardDrops(c)
             \/ \E s \in Sids : RouteNotFound(c, s)
    BY ZenonT(30), <2>3, <2>4 DEF TlsFails, PrelogonEnds, FactoryFails, GuardDrops, RouteNotFound
  <2>5. CASE AcceptDirect(c) \/ StripEnds(c)
    <3>1. PICK address : Admit(c, address) /\ pc[c] # "run" /\ accepting # "gone"
      BY <2>5 DEF AcceptDirect, StripEnds
    <3>2. \A d \in Peers : d # c => pc'[d] = pc[d] /\ sid'[d] = sid[d]
      BY ZenonT(30), <1>0, <3>1 DEF Admit, AdmitSingle, AdmitMulti
    <3> QED
      BY ZenonT(30), <2>1, <3>1, <3>2 DEF Admit
  <2>6. CASE InsertActive(c)
    <3>1. CASE sid[c] \in active
      BY ZenonT(30), <2>3, <2>6, <3>1 DEF InsertActive
    <3>2. CASE sid[c] \notin active
      BY <1>0, <2>1, <2>6, <3>2 DEF InsertActive
    <3> QED
      BY ZenonT(30), <3>1, <3>2
  <2>7. CASE Panics(c)
    BY <1>0, <2>7 DEF Panics, EntriesCurrent
  <2>8. CASE Aborted(c)
    BY <2>8 DEF Aborted, EntriesCurrent
  <2>9. CASE Register(c)
    <3>1. sid[c] \in Sids
      BY ZenonT(30), <2>9 DEF Register, RInv, AInv, Named, Owns, Holding
    <3>2. /\ monitor'[sid[c]] = c /\ \A s \in Sids : s # sid[c] => monitor'[s] = monitor[s]
          /\ pc'[c] = "run" /\ \A d \in Peers : d # c => pc'[d] = pc[d]
          /\ UNCHANGED <<sid, panics, accepting>>
      BY <1>0, <2>9, <3>1 DEF Register
    <3> QED
      BY <1>0, <3>1, <3>2 DEF RInv, EntriesCurrent
  <2>10. CASE MarkDisconnected(c)
    <3>1. sid[c] \in Sids
      BY ZenonT(30), <2>10 DEF MarkDisconnected, RInv, AInv, Named, Owns, Holding
    <3>2. /\ monitor'[sid[c]] = NoOne /\ \A s \in Sids : s # sid[c] => monitor'[s] = monitor[s]
          /\ \A d \in Peers : d # c => pc'[d] = pc[d]
          /\ UNCHANGED <<sid, panics, accepting>>
      BY ZenonT(30), <1>0, <2>10, <3>1 DEF MarkDisconnected
    <3>3. ASSUME panics' = 0, accepting' # "gone", NEW s \in Sids, monitor'[s] # NoOne
          PROVE  pc'[monitor'[s]] = "run" /\ sid'[monitor'[s]] = s
      <4>1. s # sid[c]
        BY ZenonT(30), <3>2, <3>3
      <4>2. monitor[s] \in Peers /\ pc[monitor[s]] = "run" /\ sid[monitor[s]] = s
        BY ZenonT(30), <1>0, <3>2, <3>3, <4>1 DEF RInv, EntriesCurrent
      <4>3. monitor'[s] = monitor[s] /\ monitor[s] # c
        BY ZenonT(30), <3>2, <4>1, <4>2
      <4>4. QED BY ZenonT(30), <3>2, <4>2, <4>3
    <3> QED
      BY ZenonT(30), <3>3 DEF EntriesCurrent
  <2> QED
    BY ZenonT(30), <1>3, <2>2, <2>4, <2>5, <2>6, <2>7, <2>8, <2>9, <2>10 DEF PeerStep, AcceptLoopStep, TaskStep
<1> QED
  BY <1>1, <1>2, <1>3 DEF AcceptorNext

\* Every behaviour of an acceptor satisfies RInv.
THEOREM AcceptorInvariant == AcceptorSpec => []RInv
<1>1. AcceptorInit => AInv
  BY DEF AcceptorInit, AInv, Places, Named, OwnerActive, OneOwner, NotLockedOut,
         MonitorKnowsRunning, Owns, Holding, Stages
<1>2. AcceptorInit => LoopPlaces /\ EntriesCurrent
  BY AcceptorAssumption DEF AcceptorAssumption, AcceptorInit, LoopPlaces, EntriesCurrent
<1>3. RInv /\ [AcceptorNext]_AcceptorVars => RInv'
  BY AInvStep, LoopPlacesStep, EntriesCurrentStep DEF RInv
<1> QED
  BY <1>1, <1>2, <1>3, PTL DEF AcceptorSpec, RInv

\* However many connections race through TLS, the first Logon, the factory and
\* the registry: one runs a session at a time, whatever ends it gives the identity
\* back, and the Monitor has the entry of the one that runs.
THEOREM RegistrySound == AcceptorSpec => []RegistryCorrect
<1>1. RInv => OnePerSession
  BY ZenonT(30) DEF RInv, AInv, OneOwner, OnePerSession, Owns
<1>2. RInv => AcceptorTypeOK
  BY DEF RInv, AInv, Places, LoopPlaces, AcceptorTypeOK
<1>3. RInv => MonitorIsCurrent
  BY DEF RInv, EntriesCurrent, MonitorIsCurrent
<1>4. RInv => RegistryCorrect
  BY <1>1, <1>2, <1>3 DEF RInv, AInv, RegistryCorrect
<1> QED
  BY <1>4, AcceptorInvariant, PTL

-----------------------------------------------------------------------------
(***************************************************************************)
(* The peek loop, for every buffer size, limit and length.  The end of the *)
(* stream is seen only behind its last byte, so an empty peek at the end   *)
(* means that there was no header.                                         *)
(***************************************************************************)
PeekInv == HeaderTaken /\ (eof => arrived = total)

LEMMA PeekStarts == PeekInit => PeekInv
<1> SUFFICES ASSUME PeekInit PROVE PeekInv
  OBVIOUS
<1>1. dialogue \in [kind: {"proxy", "connect"}, timeout: BOOLEAN]
  <2>1. ASSUME NEW K \in SUBSET {"proxy", "connect"}, NEW T \in SUBSET BOOLEAN,
               dialogue \in [kind: K, timeout: T]
        PROVE  dialogue \in [kind: {"proxy", "connect"}, timeout: BOOLEAN]
    BY <2>1, ZenonT(30)
  <2>2. {"proxy"} \in SUBSET {"proxy", "connect"} /\ {TRUE} \in SUBSET BOOLEAN
        /\ {"connect"} \in SUBSET {"proxy", "connect"}
        /\ BOOLEAN \in SUBSET BOOLEAN
    BY ZenonT(30)
  <2>3. QED BY <2>1, <2>2, ZenonT(30) DEF PeekInit
<1>2. PeekTypeOK
  <2>1. eof \in BOOLEAN
    BY ZenonT(30) DEF PeekInit
  <2>2. QED BY <1>1, <2>1, ProxyPeekAssumption DEF ProxyPeekAssumption, PeekInit, PeekTypeOK
<1>3. QED
  BY <1>2 DEF PeekInit, PeekInv, HeaderTaken, ConsumesExactlyHeader, LegalHeaderAccepted

LEMMA PeekKeeps == PeekInv /\ [PeekNext]_PeekVars => PeekInv'
<1> SUFFICES ASSUME PeekInv, [PeekNext]_PeekVars PROVE PeekInv'
  OBVIOUS
<1> USE ProxyPeekAssumption
    DEF ProxyPeekAssumption, PeekInv, HeaderTaken, PeekTypeOK, ConsumesExactlyHeader,
        LegalHeaderAccepted
<1>1. CASE Arrive
  BY <1>1 DEF Arrive
<1>2. CASE Close
  BY <1>2 DEF Close
<1>3. CASE TakeHeader
  BY <1>3 DEF TakeHeader, PeekReturns, Complete, Peeked
<1>4. CASE SeesClose
  <2>1. arrived = 0 /\ eof
    BY <1>4 DEF SeesClose, PeekReturns, Peeked
  <2>2. header = 0
    BY <2>1
  <2>3. QED BY <1>4, <2>2 DEF SeesClose, PeekReturns, Ends
<1>5. CASE GivesUp
  <2>1. buf_len = MaxLen /\ Peeked = MaxLen
    BY <1>5 DEF GivesUp
  <2>2. ~(header > 0 /\ header <= MaxLen)
    BY <1>5, <2>1 DEF GivesUp, Complete
  <2>3. QED BY <1>5, <2>2 DEF GivesUp, PeekReturns, Ends
<1>6. CASE Grow
  BY <1>6 DEF Grow
<1>7. CASE TimesOut
  BY <1>7 DEF TimesOut, Ends
<1>8. CASE UNCHANGED PeekVars
  BY <1>8 DEF PeekVars
<1>9. QED BY ZenonT(30), <1>1, <1>2, <1>3, <1>4, <1>5, <1>6, <1>7, <1>8 DEF PeekNext, PeekStep

\* However the bytes are cut into segments and whatever the sizes: a header is
\* consumed whole and alone, nothing is consumed without one, and none of up to
\* MaxLen bytes is given up (peek_proxy_header, connect_http).
THEOREM HeadersTaken == PeekSpec => []HeaderTaken
<1>1. PeekInv => HeaderTaken
  BY DEF PeekInv
<1>2. QED BY <1>1, PeekStarts, PeekKeeps, PTL DEF PeekSpec
=============================================================================
