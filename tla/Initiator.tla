----------------------------- MODULE Initiator -----------------------------
(***************************************************************************)
(* The two loops of an initiator in truefix-transport/src/lib.rs: the one  *)
(* that reconnects, and the one that follows a schedule.  They share       *)
(* nothing; each has its own variables and its own specification.          *)
(***************************************************************************)
EXTENDS Integers

(***************************************************************************)
(* The reconnecting initiator of truefix-transport/src/lib.rs:             *)
(* connect_initiator_reconnecting_endpoints (one task that connects, runs  *)
(* one connection to its end, sleeps and starts again) and the             *)
(* ReconnectHandle with which another thread stops it.                     *)
(*                                                                         *)
(* The TLS variant of the loop (2559-2653) has the same control: a failed  *)
(* handshake is a failed connect.                                          *)
(*                                                                         *)
(* The loop and stop() run on different threads and share only `stop' (an  *)
(* atomic flag) and `current' (a mutex around an optional abort handle),   *)
(* so an action here is the code between two accesses to those.            *)
(***************************************************************************)
CONSTANTS
  NumEndpoints,   \* length of `endpoints'
  NumSteps,       \* length of config.reconnect_interval_steps
  MaxFailures     \* bound: consecutive failed connects between two successes

ASSUME ReconnectAssumption ==
  /\ NumEndpoints \in Nat
  /\ NumSteps \in Nat
  /\ MaxFailures \in Nat \ {0}

VARIABLES
  loop,           \* where the loop task is
  next_endpoint,  \* index of the endpoint the next attempt uses
  endpoint,       \* index of the endpoint of the attempt in progress
  backoff_step,   \* the loop's backoff counter
  conn,           \* the connection task: "none", "live", "ended"
  current,        \* TRUE: the abort handle of `conn' is published
  stop,           \* the stop flag
  stopper,        \* ReconnectHandle::stop(): "idle", "flagged" or "returned"
  failures        \* history: failed connects since the last successful one

vars == <<loop, next_endpoint, endpoint, backoff_step, conn, current, stop,
          stopper, failures>>

LoopStates == {"top", "connecting", "spawned", "awaiting", "dropped",
               "sleeping", "done"}

TypeOK ==
  /\ loop \in LoopStates
  /\ next_endpoint \in Nat
  /\ endpoint \in Nat
  /\ backoff_step \in Nat
  /\ conn \in {"none", "live", "ended"}
  /\ current \in BOOLEAN
  /\ stop \in BOOLEAN
  /\ stopper \in {"idle", "flagged", "returned"}
  /\ failures \in 0..MaxFailures

Init ==
  /\ loop = "top"
  /\ next_endpoint = 0
  /\ endpoint = 0
  /\ backoff_step = 0
  /\ conn = "none"
  /\ current = FALSE
  /\ stop = FALSE
  /\ stopper = "idle"
  /\ failures = 0

-----------------------------------------------------------------------------
(***************************************************************************)
(* Faulty variants of steps below: the bugs the properties must catch.     *)
(***************************************************************************)

\* `current' is cleared and the loop goes on without awaiting the task.
ConnectionOverNoAwait ==
  /\ loop = "awaiting"
  /\ current' = FALSE
  /\ loop' = "dropped"
  /\ UNCHANGED <<next_endpoint, endpoint, backoff_step, conn, stop, stopper,
                 failures>>

\* The rotation is not taken back to the primary (the bug BUG-51 fixed).
ConnectSucceedsKeepsRotation ==
  /\ loop = "connecting"
  /\ backoff_step' = 0
  /\ conn' = "live"
  /\ failures' = 0
  /\ loop' = "spawned"
  /\ UNCHANGED <<next_endpoint, endpoint, current, stop, stopper>>

\* stop() only sets the flag (the bug BUG-50 fixed).
StopSetsFlagOnly ==
  /\ stopper = "flagged"
  /\ stopper' = "returned"
  /\ UNCHANGED <<loop, next_endpoint, endpoint, backoff_step, conn, current,
                 stop, failures>>

-----------------------------------------------------------------------------
(***************************************************************************)
(* The loop task.                                                          *)
(***************************************************************************)

\* `while !stop': leave the loop when it is set, or when there is no endpoint.
LeaveAtTop ==
  /\ loop = "top"
  /\ stop \/ NumEndpoints = 0
  /\ loop' = "done"
  /\ UNCHANGED <<next_endpoint, endpoint, backoff_step, conn, current, stop,
                 stopper, failures>>

\* Select the endpoint, advance the rotation and start connecting.
StartAttempt ==
  /\ loop = "top"
  /\ ~stop
  /\ NumEndpoints > 0
  /\ endpoint' = next_endpoint % NumEndpoints
  /\ next_endpoint' = next_endpoint + 1
  /\ loop' = "connecting"
  /\ UNCHANGED <<backoff_step, conn, current, stop, stopper, failures>>

ConnectFails ==
  /\ loop = "connecting"
  /\ failures < MaxFailures
  /\ failures' = failures + 1
  /\ loop' = "dropped"
  /\ UNCHANGED <<next_endpoint, endpoint, backoff_step, conn, current, stop,
                 stopper>>

\* A successful connect resets the backoff and the rotation and spawns the
\* connection task; its abort handle is not published yet.
ConnectSucceeds ==
  /\ loop = "connecting"
  /\ backoff_step' = 0
  /\ next_endpoint' = 0
  /\ conn' = "live"
  /\ failures' = 0
  /\ loop' = "spawned"
  /\ UNCHANGED <<endpoint, current, stop, stopper>>

\* `*guard = Some(conn_task.abort_handle())', under the lock of `current'.
PublishHandle ==
  /\ loop = "spawned"
  /\ current' = TRUE
  /\ loop' = "awaiting"
  /\ UNCHANGED <<next_endpoint, endpoint, backoff_step, conn, stop, stopper,
                 failures>>

\* `conn_task.await' returns once the task ended; `current' is cleared.
ConnectionOver ==
  /\ loop = "awaiting"
  /\ conn = "ended"
  /\ conn' = "none"
  /\ current' = FALSE
  /\ loop' = "dropped"
  /\ UNCHANGED <<next_endpoint, endpoint, backoff_step, stop, stopper,
                 failures>>

\* The second test of the flag, after the connection or the failed attempt.
CheckStopAfterAttempt ==
  /\ loop = "dropped"
  /\ loop' = IF stop THEN "done" ELSE "sleeping"
  /\ UNCHANGED <<next_endpoint, endpoint, backoff_step, conn, current, stop,
                 stopper, failures>>

\* The sleep of reconnect_delay(backoff_step) is over.
WakeUp ==
  /\ loop = "sleeping"
  /\ backoff_step' = backoff_step + 1
  /\ loop' = "top"
  /\ UNCHANGED <<next_endpoint, endpoint, conn, current, stop, stopper,
                 failures>>

LoopStep ==
  \/ LeaveAtTop
  \/ StartAttempt
  \/ ConnectFails
  \/ ConnectSucceeds
  \/ PublishHandle
  \/ ConnectionOver
  \/ CheckStopAfterAttempt
  \/ WakeUp

-----------------------------------------------------------------------------
(***************************************************************************)
(* The connection task and the stopping thread.                            *)
(***************************************************************************)

\* run_connection returns by itself: peer closed, Logout exchange, timeout.
ConnectionEnds ==
  /\ conn = "live"
  /\ conn' = "ended"
  /\ UNCHANGED <<loop, next_endpoint, endpoint, backoff_step, current, stop,
                 stopper, failures>>

\* stop(): first the flag ...
StopSetFlag ==
  /\ stopper = "idle"
  /\ stop' = TRUE
  /\ stopper' = "flagged"
  /\ UNCHANGED <<loop, next_endpoint, endpoint, backoff_step, conn, current,
                 failures>>

\* ... then, under the lock, abort the published connection if there is one.
\* Aborting a task that already ended does nothing.
StopAbortCurrent ==
  /\ stopper = "flagged"
  /\ stopper' = "returned"
  /\ conn' = IF current /\ conn = "live" THEN "ended" ELSE conn
  /\ UNCHANGED <<loop, next_endpoint, endpoint, backoff_step, current, stop,
                 failures>>

StopStep == StopSetFlag \/ StopAbortCurrent

Next == LoopStep \/ ConnectionEnds \/ StopStep

Spec == Init /\ [][Next]_vars

(***************************************************************************)
(* The runtime polls a task that is ready, a connect attempt ends (it has  *)
(* a timeout), and a caller inside stop() finishes.  Nothing makes the     *)
(* peer close a healthy connection, so ConnectionEnds is not fair.         *)
(***************************************************************************)
FairSpec == Spec /\ WF_vars(LoopStep) /\ WF_vars(StopAbortCurrent)

-----------------------------------------------------------------------------
(***************************************************************************)
(* reconnect_delay(config, attempt): the entry of                          *)
(* reconnect_interval_steps that is used, 0-indexed and clamped at the     *)
(* last one; with no steps the fixed interval (here the single entry 0).   *)
(***************************************************************************)
reconnect_delay(attempt) ==
  IF NumSteps = 0 THEN 0
  ELSE IF attempt < NumSteps THEN attempt ELSE NumSteps - 1

-----------------------------------------------------------------------------
(***************************************************************************)
(* Properties.                                                             *)
(***************************************************************************)

\* A connection task runs only while the loop is waiting for it: the loop never
\* starts a second connection beside a live one, and when it leaves (stop()
\* included) no connection is left running behind it.
NoOrphanConnection ==
  loop \notin {"spawned", "awaiting"} => conn = "none"

\* Endpoint rotation: the attempt after k consecutive failures uses endpoint
\* k modulo the number of endpoints, so the first attempt after a connection
\* that succeeded goes to the primary again, wherever that connection was.
RotationFromPrimary ==
  loop = "connecting" => endpoint = failures % NumEndpoints

\* Backoff: the delay slept after a failed connect is never ahead of the number
\* of failures since the last success, and lags it by at most one step.
BackoffTracksFailures ==
  loop = "sleeping" =>
    reconnect_delay(backoff_step) \in
      {reconnect_delay(failures), reconnect_delay(failures - 1)}

\* A stop() that sets its flag while the connection's abort handle is published
\* ends the loop, even when the peer never closes that connection.
StopEndsPublishedConnection ==
  (stopper = "flagged" /\ loop = "awaiting") ~> (loop = "done")

\* The failures since the last success, and nothing else, decide which endpoint
\* is tried and how long the loop sleeps before it.
RetriesPaced == TypeOK /\ RotationFromPrimary /\ BackoffTracksFailures

-----------------------------------------------------------------------------
(***************************************************************************)
(* run_scheduled_initiator: an initiator that connects only while its      *)
(* schedule is in session, with the store it resets at the start of each   *)
(* window, the connections it leaves to log out on their own, process      *)
(* restarts, and ScheduledHandle::stop.                                    *)
(***************************************************************************)
(***************************************************************************)
(* When a session is active (truefix-session, schedule.rs and              *)
(* schedule_reset.rs).  Time is UTC, counted in units from a Sunday        *)
(* midnight; a day has DayLen units, a week WeekDays days.  A schedule is  *)
(* a record: non_stop; start_time, end_time (time of day or None);         *)
(* weekdays (a set of days, {} for every day); start_day, end_day (or      *)
(* None); offset, the local offset at every instant (constant for a fixed  *)
(* offset, not for a named zone with DST).  reset_seq_time is left out: no *)
(* code asks decide_recurring_reset.                                       *)
(***************************************************************************)
CONSTANTS DayLen, WeekDays

ASSUME ScheduleAssumption == DayLen \in Nat \ {0} /\ WeekDays \in Nat \ {0}

None == -1

effective_offset(schedule, t) == schedule.offset[t]

Local(schedule, t) == t + effective_offset(schedule, t)
TimeOfDay(l) == l % DayLen
WeekDay(l) == (l \div DayLen) % WeekDays

in_window(t, start, end) ==
  IF start <= end THEN t >= start /\ t < end
                  ELSE t >= start \/ t < end

minutes_since_week_start(day, t) == day * DayLen + t

in_weekly_window(l, start_day, start_time, end_day, end_time) ==
  in_window(minutes_since_week_start(WeekDay(l), TimeOfDay(l)),
            minutes_since_week_start(start_day, start_time),
            minutes_since_week_start(end_day, end_time))

is_in_session(schedule, t) ==
  LET l == Local(schedule, t)
      timed == schedule.start_time # None /\ schedule.end_time # None
  IN  \/ schedule.non_stop
      \/ /\ schedule.start_day # None /\ schedule.end_day # None
         /\ timed => in_weekly_window(l, schedule.start_day, schedule.start_time,
                                      schedule.end_day, schedule.end_time)
      \/ /\ ~(schedule.start_day # None /\ schedule.end_day # None)
         /\ schedule.weekdays = {} \/ WeekDay(l) \in schedule.weekdays
         /\ timed => in_window(TimeOfDay(l), schedule.start_time, schedule.end_time)

decide(schedule, was_in_session, t) ==
  LET in_session == is_in_session(schedule, t)
  IN  IF schedule.non_stop THEN "None"
      ELSE IF ~was_in_session /\ in_session THEN "Enter"
      ELSE IF was_in_session /\ ~in_session THEN "Exit" ELSE "None"

-----------------------------------------------------------------------------
CONSTANTS
  Schedules,    \* schedules by name: a function to schedule records
  Horizon,      \* bound: the last instant considered
  MaxRestarts   \* bound: process restarts

VARIABLES
  plan,            \* the name of the schedule; it never changes
  now,
  looked,          \* the loop has looked at the clock at this instant
  turn,            \* "poll", "connecting", "done", or "down" (no process)
  was_in_session,
  handle,         \* the handle: "none", "up", or "finished"
  leaving,         \* connections told to log out, their handles dropped
  waiting,         \* next_retry_at is still to come
  stopping,
  created,         \* the store's creation_time: when it was opened or reset
  restarted        \* history: the last start of the process, and how many
                   \* there were

ScheduledVars == <<plan, now, looked, turn, was_in_session, handle, leaving,
                   waiting, stopping, created, restarted>>

schedule == Schedules[plan]
InSession(t) == is_in_session(schedule, t)

\* Faulty variant: what BUG-09 fixed.
SeedOutside(t) == FALSE

\* was_in_session is seeded from the store's creation_time.
SeedFrom(t) == InSession(t)

ScheduledInit ==
  /\ plan \in DOMAIN Schedules
  /\ now = 0 /\ created = 0
  /\ looked = FALSE /\ turn = "poll"
  /\ was_in_session = SeedFrom(0)
  /\ handle = "none" /\ leaving = 0 /\ waiting = FALSE /\ stopping = FALSE
  /\ restarted = [at |-> 0, times |-> 0]

-----------------------------------------------------------------------------
\* Time passes.  A running loop looks at the clock every 200 ms and windows are
\* minutes long, so it sees every instant; a connection told to log out is gone
\* (logout_timeout) before the next window opens.
Tick ==
  /\ now < Horizon
  /\ turn \in {"poll", "connecting"} => looked
  /\ (leaving > 0 /\ ~InSession(now)) => ~InSession(now + 1)
  /\ now' = now + 1 /\ looked' = FALSE
  /\ UNCHANGED <<plan, turn, was_in_session, handle, leaving, waiting, stopping,
                 created, restarted>>

\* Enter resets the store, Exit takes the handle and asks for a logout.
Boundary ==
  LET action == decide(schedule, was_in_session, now)
  IN  /\ created' = IF action = "Enter" THEN now ELSE created
      /\ leaving' = IF action = "Exit" /\ handle = "up" THEN leaving + 1 ELSE leaving
      /\ was_in_session' = InSession(now)

\* Faulty variant: a finished handle is kept (what BUG-25 fixed).
HandleKept ==
  IF decide(schedule, was_in_session, now) = "Exit" THEN "none" ELSE handle

HandleAfterPoll ==
  IF decide(schedule, was_in_session, now) = "Exit" \/ handle = "finished"
  THEN "none" ELSE handle

\* One turn of the loop, up to the connect attempt or the 200 ms sleep.
Poll ==
  /\ turn = "poll" /\ ~stopping
  /\ Boundary
  /\ handle' = HandleAfterPoll
  /\ looked' = TRUE
  /\ turn' = IF was_in_session' /\ handle' = "none" /\ ~waiting
             THEN "connecting" ELSE "poll"
  /\ UNCHANGED <<plan, now, waiting, stopping, restarted>>

ConnectOk ==
  /\ turn = "connecting"
  /\ handle' = "up" /\ waiting' = FALSE
  /\ turn' = "poll"
  /\ UNCHANGED <<plan, now, looked, was_in_session, leaving, stopping, created, restarted>>

\* reconnect_delay holds the next attempt back, not the loop.
ConnectErr ==
  /\ turn = "connecting"
  /\ waiting' = TRUE
  /\ turn' = "poll"
  /\ UNCHANGED <<plan, now, looked, was_in_session, handle, leaving, stopping, created,
                 restarted>>

RetryDue ==
  /\ waiting /\ turn = "poll"
  /\ waiting' = FALSE
  /\ UNCHANGED <<plan, now, looked, turn, was_in_session, handle, leaving, stopping,
                 created, restarted>>

\* Faulty variant: the attempt is awaited without the race (what NEW-14 fixed).
AbandonNever ==
  /\ turn = "connecting" /\ ~looked
  /\ looked' = TRUE
  /\ UNCHANGED <<plan, now, turn, was_in_session, handle, leaving, waiting, stopping,
                 created, restarted>>

\* wait_for_stop_or_schedule_change, polling beside the attempt.
Abandon ==
  /\ turn = "connecting"
  /\ IF stopping \/ InSession(now) # was_in_session
     THEN turn' = "poll" /\ UNCHANGED looked
     ELSE ~looked /\ looked' = TRUE /\ UNCHANGED turn
  /\ UNCHANGED <<plan, now, was_in_session, handle, leaving, waiting, stopping, created,
                 restarted>>

ConnectionDrops ==
  /\ handle = "up"
  /\ handle' = "finished"
  /\ UNCHANGED <<plan, now, looked, turn, was_in_session, leaving, waiting, stopping,
                 created, restarted>>

LoggedOut ==
  /\ leaving > 0
  /\ leaving' = leaving - 1
  /\ UNCHANGED <<plan, now, looked, turn, was_in_session, handle, waiting, stopping,
                 created, restarted>>

StopScheduled ==
  /\ turn \in {"poll", "connecting"} /\ ~stopping
  /\ stopping' = TRUE
  /\ UNCHANGED <<plan, now, looked, turn, was_in_session, handle, leaving, waiting,
                 created, restarted>>

LoopEnds ==
  /\ turn = "poll" /\ stopping
  /\ turn' = "done"
  /\ handle' = "none"
  /\ leaving' = IF handle = "up" THEN leaving + 1 ELSE leaving
  /\ UNCHANGED <<plan, now, looked, was_in_session, waiting, stopping, created, restarted>>

\* The process dies and is started again later, with the store it left.
ProcessDies ==
  /\ turn \in {"poll", "connecting"} /\ ~stopping /\ restarted.times < MaxRestarts
  /\ turn' = "down" /\ handle' = "none" /\ leaving' = 0
  /\ UNCHANGED <<plan, now, looked, was_in_session, waiting, stopping, created, restarted>>

ProcessStarts ==
  /\ turn = "down"
  /\ turn' = "poll" /\ looked' = FALSE
  /\ was_in_session' = SeedFrom(created)
  /\ waiting' = FALSE
  /\ restarted' = [at |-> now, times |-> restarted.times + 1]
  /\ UNCHANGED <<plan, now, handle, leaving, stopping, created>>

ScheduledNext ==
  \/ Tick \/ Poll \/ ConnectOk \/ ConnectErr \/ RetryDue \/ Abandon
  \/ ConnectionDrops \/ LoggedOut \/ StopScheduled \/ LoopEnds \/ ProcessDies
  \/ ProcessStarts

ScheduledSpec == ScheduledInit /\ [][ScheduledNext]_ScheduledVars

LoopRuns == Poll \/ Abandon \/ LoopEnds \/ RetryDue

-----------------------------------------------------------------------------
(***************************************************************************)
(* Properties.                                                             *)
(***************************************************************************)

\* Two instants are in one window: in session without a break in between.
OneWindow(from, to) == \A u \in from..to : InSession(u)

\* A connection runs on sequence numbers of its own window: "on each transition
\* into a session window the store is reset".  The exception is a process that
\* was started inside the window and so saw no transition.
FreshWindow ==
  (handle = "up" /\ looked /\ InSession(now)) =>
    OneWindow(created, now) \/ OneWindow(restarted.at, now)

\* BUG-09: the store is reset once in a window and never for a session without
\* one; a restart inside the window keeps the numbers and the resend history.
ResetOncePerWindow ==
  [][created' # created => ~schedule.non_stop /\ ~OneWindow(created, now)]_ScheduledVars

\* A session is not left connected outside its window, and never has two
\* connections: the one of the previous window has gone.
ConnectedInWindow ==
  /\ (handle = "up" /\ looked /\ turn = "poll") => InSession(now)
  /\ handle = "up" => leaving = 0

\* stop() ends the loop and the connection, also while a connect hangs.
StopEndsIt == stopping ~> (turn = "done" /\ handle # "up" /\ leaving = 0)

\* The loop notices the end of its window whatever the connect attempt does.
WindowEndSeen ==
  (was_in_session /\ ~InSession(now)) ~>
    (~was_in_session \/ InSession(now) \/ turn \in {"done", "down"})

\* BUG-25: while in session a lost connection is made again.
KeepsTrying ==
  (turn = "poll" /\ handle = "finished") ~>
    (turn \in {"connecting", "done", "down"} \/ ~InSession(now))

\* Every window has its own sequence numbers: they are reset when the loop enters
\* it, and once at most.
WindowNumbers == []FreshWindow /\ ResetOncePerWindow

\* The loop follows the schedule and stop(): out at the end of a window or on
\* stop(), and back in after a lost connection while the window is open.
ScheduleFollowed == StopEndsIt /\ WindowEndSeen /\ KeepsTrying
=============================================================================
