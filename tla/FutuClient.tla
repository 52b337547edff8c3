----------------------------- MODULE FutuClient -----------------------------
(***************************************************************************)
(* truefix-futu-client: the ClientCore many callers share, the             *)
(* ConnectionActor that owns a socket and matches answers to requests by   *)
(* serial number, reconnection with the replay of what was subscribed,     *)
(* the reconnect loop and close.  OpenD and the network are external.      *)
(***************************************************************************)
EXTENDS FutuCalls, FiniteSets

CONSTANTS
  Callers,    \* tasks that call the client
  U32Max,     \* the largest serial number (u32::MAX)
  MaxConns,   \* bound: connections ever made
  Programs    \* what may happen: see FutuInit

VARIABLES
  program,      \* [calls, auto, serial, split, answers, chances, patient]; constant
  task,         \* the callers and the reconnect loop
  conn,         \* the connections, by number
  current,      \* ClientCore.handle: the number of the connection in use
  conn_id,
  packet_serial,
  reconnect_lock,
  replay,       \* ReplayState: [quotes, unlock, accounts], sequences of entries
  closed,
  signals,      \* the disconnect channel
  chances,      \* bound: sockets that may still fail, pushes, keep-alives
  stale,        \* history: requests numbered before the counter was restarted
  sent          \* history: frames written of requests with a number of their own

FutuVars == <<program, task, conn, current, conn_id, packet_serial, reconnect_lock, replay,
              closed, signals, chances, stale, sent>>

Loop == "loop"
Tasks == Callers \cup {Loop}
Nobody == "nobody"
Shutdown == [id |-> 0, serial |-> 0, from |-> <<Nobody, 0>>, request |-> <<>>]

\* What a request came to: an error of the client, or OpenD's answer to from.
\* sure, as history: no number given before the counter was restarted is involved.
Err(kind) == [kind |-> kind, from |-> <<Nobody, 0>>, answer |-> "none", sure |-> TRUE]
Answer(from, answer, sure) ==
  [kind |-> "answer", from |-> from, answer |-> answer, sure |-> sure]
NoneYet == Err("none")

Idle ==
  [pc |-> "idle", calls |-> <<>>, todo |-> <<>>, serial |-> 0, on |-> 0, tried |-> FALSE,
   from |-> <<Nobody, 0>>, got |-> NoneYet, again |-> <<>>, late |-> FALSE,
   began_open |-> FALSE]
Fresh ==
  [up |-> TRUE, dead |-> FALSE, cmds |-> <<>>, pending |-> <<>>, asked |-> {}, wire |-> <<>>,
   half |-> FALSE, torn |-> FALSE, holds |-> {}, restored |-> FALSE, late |-> FALSE]

FutuInit ==
  /\ program \in Programs
  /\ task = [p \in Tasks |->
               IF p = Loop THEN [Idle EXCEPT !.pc = IF program.auto THEN "idle" ELSE "off"]
               ELSE [Idle EXCEPT !.calls = program.calls[p]]]
  /\ conn = <<[Fresh EXCEPT !.restored = TRUE]>>
  /\ current = 1 /\ conn_id = 1
  /\ packet_serial = program.serial
  /\ reconnect_lock = Nobody
  /\ replay = [quotes |-> <<>>, unlock |-> <<>>, accounts |-> <<>>]
  /\ closed = FALSE /\ signals = 0 /\ chances = program.chances
  /\ stale = {} /\ sent = [p \in Callers |-> 0]

-----------------------------------------------------------------------------
\* Faulty variant: the counter is read but not advanced.
next_serial_stuck ==
  [ok |-> packet_serial < U32Max, serial |-> packet_serial + 1, counter |-> packet_serial]

\* fetch_add wraps; checked_add refuses the number after the last.
next_serial ==
  [ok |-> packet_serial < U32Max, serial |-> packet_serial + 1,
   counter |-> (packet_serial + 1) % (U32Max + 1)]

\* The requests whose answer some table or frame still names.
Named(n) ==
  {conn[n].pending[s] : s \in DOMAIN conn[n].pending}
  \cup {f.from : f \in conn[n].asked}
  \cup {conn[n].wire[i].from : i \in DOMAIN conn[n].wire}
  \cup {conn[n].cmds[i].from : i \in DOMAIN conn[n].cmds}
InUse == UNION {Named(n) : n \in DOMAIN conn}
NewName(p) == <<p, CHOOSE k \in 1..(Cardinality(InUse) + 1) :
                     <<p, k>> \notin InUse /\ \A j \in 1..(k - 1) : <<p, j>> \in InUse>>
\* Those that already have a number.
Numbered ==
  UNION {Named(n) \ {conn[n].cmds[i].from : i \in {j \in DOMAIN conn[n].cmds :
                                                     conn[n].cmds[j].serial = 0}} :
           n \in DOMAIN conn}

\* The oneshot channels of the requests named in lost are answered or dropped.
Waiting(p) == task[p].pc \in {"wait", "replaying"} /\ task[p].got = NoneYet
Told(t, names, result) ==
  [p \in Tasks |-> IF Waiting(p) /\ task[p].from \in names
                   THEN [t[p] EXCEPT !.got = result] ELSE t[p]]

\* ActorHandle::request_with_serial up to the wait for the answer.
Ask(p, n, request, serial, next) ==
  LET name == NewName(p)
      command == [id |-> request.id, serial |-> serial, from |-> name, request |-> request]
  IN  /\ conn' = IF conn[n].up
                 THEN [conn EXCEPT ![n].cmds = Append(@, command)] ELSE conn
      /\ task' = [task EXCEPT ![p].pc = next, ![p].from = name, ![p].on = n,
                              ![p].got = IF conn[n].up THEN NoneYet ELSE Err("gone")]
      /\ stale' = IF task[p].late THEN stale \cup {name} ELSE stale \ {name}

-----------------------------------------------------------------------------
\* The end of a request: the next one of the call, or the next call.
Proceed(t) ==
  IF Len(t.todo) > 1
  THEN [t EXCEPT !.pc = "handle", !.todo = Tail(@), !.tried = FALSE, !.got = NoneYet]
  ELSE [Idle EXCEPT !.calls = t.calls]
GiveUp(t) == [Idle EXCEPT !.calls = t.calls]

\* A method begins.  place_order and its like number the frame first.
Begin(p) ==
  /\ task[p].pc = "idle" /\ task[p].calls # <<>>
  /\ LET t == [task[p] EXCEPT !.todo = Head(task[p].calls), !.calls = Tail(@)]
         first == Head(t.todo)
     IN  /\ first.does \notin {"reconnect", "close"}
         /\ IF ~first.complete \/ (first.own /\ ~next_serial.ok)
            THEN task' = [task EXCEPT ![p] = GiveUp(t)]
            ELSE task' = [task EXCEPT ![p] =
                            [t EXCEPT !.pc = "handle",
                                      !.serial = IF first.own THEN next_serial.serial ELSE 0]]
         /\ packet_serial' = IF first.complete /\ first.own
                             THEN next_serial.counter ELSE packet_serial
  /\ UNCHANGED <<program, conn, current, conn_id, reconnect_lock, replay, closed, signals,
                 chances, stale, sent>>

BeginReconnect(p) ==
  /\ task[p].pc = "idle" /\ task[p].calls # <<>>
  /\ Head(Head(task[p].calls)).does = "reconnect"
  /\ task' = [task EXCEPT ![p].todo = Head(task[p].calls), ![p].calls = Tail(@),
                          ![p].pc = "reconnect"]
  /\ UNCHANGED <<program, conn, current, conn_id, packet_serial, reconnect_lock, replay, closed,
                 signals, chances, stale, sent>>

\* shutdown(): the flag first, then the handle.
Close(p) ==
  /\ task[p].pc = "idle" /\ task[p].calls # <<>>
  /\ Head(Head(task[p].calls)).does = "close"
  /\ closed' = TRUE
  /\ task' = [task EXCEPT ![p].todo = Head(task[p].calls), ![p].calls = Tail(@),
                          ![p].pc = "handle"]
  /\ UNCHANGED <<program, conn, current, conn_id, packet_serial, reconnect_lock, replay,
                 signals, chances, stale, sent>>

\* current_handle(): which connection is meant is settled here.
TakeHandle(p) ==
  /\ task[p].pc = "handle"
  /\ task' = [task EXCEPT ![p].pc = "send", ![p].on = current]
  /\ UNCHANGED <<program, conn, current, conn_id, packet_serial, reconnect_lock, replay, closed,
                 signals, chances, stale, sent>>

Send(p) ==
  /\ task[p].pc = "send"
  /\ LET request == Head(task[p].todo)
         n == task[p].on
     IN  IF request.does = "close"
         THEN /\ conn' = IF conn[n].up THEN [conn EXCEPT ![n].cmds = Append(@, Shutdown)]
                         ELSE conn
              /\ task' = [task EXCEPT ![p] = GiveUp(@)]
              /\ UNCHANGED stale
         ELSE Ask(p, n, request, task[p].serial, "wait")
  /\ UNCHANGED <<program, current, conn_id, packet_serial, reconnect_lock, replay, closed,
                 signals, chances, sent>>

\* Nothing more can come: for programs in which OpenD answers in time.
Overdue(p) ==
  LET c == conn[task[p].on]
  IN  c.torn \/ (c.up /\ task[p].from \notin Named(task[p].on)) \/ c.dead

\* Faulty variant: the requests of a replay are awaited without a limit.
TimeOutCalls(p) ==
  /\ task[p].pc = "wait" /\ Waiting(p) /\ (program.patient => Overdue(p))
  /\ task' = [task EXCEPT ![p].got = Err("timeout")]
  /\ UNCHANGED <<program, conn, current, conn_id, packet_serial, reconnect_lock, replay, closed,
                 signals, chances, stale, sent>>

\* request_timeout_ms; the actor's table keeps the request.
TimeOut(p) ==
  /\ Waiting(p) /\ (program.patient => Overdue(p))
  /\ task' = [task EXCEPT ![p].got = Err("timeout")]
  /\ UNCHANGED <<program, conn, current, conn_id, packet_serial, reconnect_lock, replay, closed,
                 signals, chances, stale, sent>>

\* remember_subscription, remember_unlock_trade, remember_sub_acc_push.  An entry
\* keeps, as history, the connection it was answered on, the one in use now, and
\* whether the answer was surely its own.
Without(entries, things) == SelectSeq(entries, LAMBDA e : e.things # things)
Remembered(request, n, sure) ==
  LET entry == [things |-> request.things, request |-> request, on |-> n, at |-> current,
                sure |-> sure]
      quotes == Without(replay.quotes, request.things)
  IN  CASE request.does = "clear"   -> [replay EXCEPT !.quotes = <<>>]
        [] request.does = "add"     -> [replay EXCEPT !.quotes = Append(quotes, entry)]
        [] request.does = "drop"    -> [replay EXCEPT !.quotes = quotes]
        [] request.does = "unlock"  -> [replay EXCEPT !.unlock = <<entry>>]
        [] request.does = "lock"    -> [replay EXCEPT !.unlock = <<>>]
        [] request.does = "account" ->
             [replay EXCEPT !.accounts = Append(Without(@, request.things), entry)]
        [] OTHER -> replay

\* request_bytes makes a request again after ActorGone, once;
\* request_bytes_no_reconnect, for a frame with a number of its own, does not.
Retry(p) ==
  task[p].got.kind = "gone" /\ ~task[p].tried /\ ~closed /\ ~Head(task[p].todo).own

\* The caller has its answer, or an error.
Return(p) ==
  /\ task[p].pc = "wait" /\ task[p].got # NoneYet
  /\ LET t == task[p]
         request == Head(t.todo)
     IN  task' = [task EXCEPT ![p] =
           IF Retry(p) THEN [t EXCEPT !.pc = "reconnect"]
           ELSE IF t.got.kind = "answer" /\ Accepted(request, t.got.answer)
           THEN IF request.does # "query" THEN [t EXCEPT !.pc = "remember"] ELSE Proceed(t)
           ELSE GiveUp(t)]
  /\ UNCHANGED <<program, conn, current, conn_id, packet_serial, reconnect_lock, replay, closed,
                 signals, chances, stale, sent>>

Remember(p) ==
  /\ task[p].pc = "remember"
  /\ replay' = Remembered(Head(task[p].todo), task[p].on, task[p].got.sure)
  /\ task' = [task EXCEPT ![p] = Proceed(@)]
  /\ UNCHANGED <<program, conn, current, conn_id, packet_serial, reconnect_lock, closed, signals,
                 chances, stale, sent>>

-----------------------------------------------------------------------------
(***************************************************************************)
(* ClientCore::reconnect, run by a caller whose request met ActorGone, by  *)
(* the public method and by the reconnect loop.                            *)
(***************************************************************************)
Succeeded(p) ==
  IF p = Loop THEN Idle
  ELSE IF Head(task[p].todo).does = "reconnect" THEN GiveUp(task[p])
  ELSE [task[p] EXCEPT !.pc = "handle", !.tried = TRUE, !.got = NoneYet]
Failed(p) == IF p = Loop THEN [Idle EXCEPT !.pc = "sleep"] ELSE GiveUp(task[p])

CheckClosed(p) ==
  /\ task[p].pc = "reconnect"
  /\ task' = [task EXCEPT ![p] = IF closed THEN Failed(p) ELSE [@ EXCEPT !.pc = "lock"]]
  /\ UNCHANGED <<program, conn, current, conn_id, packet_serial, reconnect_lock, replay, closed,
                 signals, chances, stale, sent>>

\* With the lock the flag is looked at again; connect_session restarts the
\* counter before anything else, also under the connection still in use.
TakeLock(p) ==
  /\ task[p].pc = "lock" /\ reconnect_lock = Nobody
  /\ IF closed
     THEN /\ task' = [task EXCEPT ![p] = Failed(p)]
          /\ UNCHANGED <<reconnect_lock, packet_serial, stale>>
     ELSE /\ reconnect_lock' = p
          /\ packet_serial' = 1
          /\ stale' = stale \cup Numbered
          /\ task' = [q \in Tasks |->
                        IF q = p THEN [task[q] EXCEPT !.pc = "connecting", !.began_open = ~closed]
                        ELSE [task[q] EXCEPT !.late = task[q].serial # 0]]
  /\ UNCHANGED <<program, conn, current, conn_id, replay, closed, signals, chances, sent>>

\* The rest of connect_session: the socket, INIT_CONNECT and its answer, the key.
ConnectFails(p) ==
  /\ task[p].pc = "connecting"
  /\ reconnect_lock' = Nobody
  /\ task' = [task EXCEPT ![p] = Failed(p)]
  /\ UNCHANGED <<program, conn, current, conn_id, packet_serial, replay, closed, signals, chances,
                 stale, sent>>

ConnectOk(p) ==
  /\ task[p].pc = "connecting" /\ Len(conn) < MaxConns
  /\ conn' = Append(conn, Fresh)
  /\ conn_id' = Len(conn) + 1
  /\ task' = [task EXCEPT ![p].pc = "install"]
  /\ UNCHANGED <<program, current, packet_serial, reconnect_lock, replay, closed, signals, chances,
                 stale, sent>>

\* The handle is replaced and the old connection told to end.
Install(p) ==
  /\ task[p].pc = "install"
  /\ current' = Len(conn)
  /\ conn' = [n \in DOMAIN conn |->
                IF n = current /\ conn[n].up
                THEN [conn[n] EXCEPT !.cmds = Append(@, Shutdown)]
                ELSE IF n = Len(conn) THEN [conn[n] EXCEPT !.late = closed /\ task[p].began_open] ELSE conn[n]]
  /\ task' = [task EXCEPT ![p].pc = "clone"]
  /\ UNCHANGED <<program, conn_id, packet_serial, reconnect_lock, replay, closed, signals, chances,
                 stale, sent>>

\* replay_state(): quotes, the trade lock, the accounts.
CloneReplay(p) ==
  /\ task[p].pc = "clone"
  /\ task' = [task EXCEPT ![p].pc = "replay",
                          ![p].again = replay.quotes \o replay.unlock \o replay.accounts]
  /\ UNCHANGED <<program, conn, current, conn_id, packet_serial, reconnect_lock, replay, closed,
                 signals, chances, stale, sent>>

ReplaySend(p) ==
  /\ task[p].pc = "replay" /\ task[p].again # <<>>
  /\ Ask(p, current, Head(task[p].again).request, 0, "replaying")
  /\ UNCHANGED <<program, current, conn_id, packet_serial, reconnect_lock, replay, closed,
                 signals, chances, sent>>

ReplayReturn(p) ==
  /\ task[p].pc = "replaying" /\ task[p].got # NoneYet
  /\ IF task[p].got.kind = "answer"
        /\ Accepted(Head(task[p].again).request, task[p].got.answer)
     THEN /\ task' = [task EXCEPT ![p].pc = "replay", ![p].again = Tail(@), ![p].got = NoneYet]
          /\ UNCHANGED reconnect_lock
     ELSE /\ task' = [task EXCEPT ![p] = Failed(p)]
          /\ reconnect_lock' = Nobody
  /\ UNCHANGED <<program, conn, current, conn_id, packet_serial, replay, closed, signals, chances,
                 stale, sent>>

ReplayDone(p) ==
  /\ task[p].pc = "replay" /\ task[p].again = <<>>
  /\ conn' = [conn EXCEPT ![current].restored = TRUE]
  /\ reconnect_lock' = Nobody
  /\ task' = [task EXCEPT ![p] = Succeeded(p)]
  /\ UNCHANGED <<program, current, conn_id, packet_serial, replay, closed, signals, chances, stale,
                 sent>>

\* reconnect_loop: a signal, then attempts until one succeeds.
LoopSignal ==
  /\ task[Loop].pc = "idle" /\ signals > 0
  /\ signals' = signals - 1
  /\ task' = [task EXCEPT ![Loop].pc = IF closed THEN "off" ELSE "reconnect"]
  /\ UNCHANGED <<program, conn, current, conn_id, packet_serial, reconnect_lock, replay, closed,
                 chances, stale, sent>>

LoopAgain ==
  /\ task[Loop].pc = "sleep"
  /\ task' = [task EXCEPT ![Loop].pc = IF closed THEN "off" ELSE "reconnect"]
  /\ UNCHANGED <<program, conn, current, conn_id, packet_serial, reconnect_lock, replay, closed,
                 signals, chances, stale, sent>>

-----------------------------------------------------------------------------
(***************************************************************************)
(* ConnectionActor::run: one branch of its select at a time.  A branch     *)
(* taken while a frame has arrived in part drops what was read of it       *)
(* (read_exact is not cancel safe): the stream is torn.                    *)
(***************************************************************************)
Chosen(c) == [c EXCEPT !.torn = @ \/ c.half, !.half = FALSE]

\* The loop ends: every request it holds is failed, queued ones with it.
Ended(n) ==
  [conn EXCEPT ![n] = [Fresh EXCEPT !.up = FALSE, !.dead = TRUE, !.late = conn[n].late]]
Ends(n, signal) ==
  /\ conn' = Ended(n)
  /\ task' = Told(task, Named(n), Err("gone"))
  /\ signals' = IF signal THEN signals + 1 ELSE signals

\* on_command: a number, the table, the frame.  A number in use already takes
\* the place of the other request, whose channel is dropped.
OnCommand(n) ==
  /\ conn[n].up /\ conn[n].cmds # <<>> /\ Head(conn[n].cmds) # Shutdown
  /\ LET command == Head(conn[n].cmds)
         counted == command.serial = 0
         serial == IF counted THEN next_serial.serial ELSE command.serial
         overflow == counted /\ ~next_serial.ok
         ousted == IF serial \in DOMAIN conn[n].pending THEN {conn[n].pending[serial]} ELSE {}
         frame == [serial |-> serial, from |-> command.from, request |-> command.request]
     IN  /\ packet_serial' = IF counted THEN next_serial.counter ELSE packet_serial
         /\ CASE overflow -> Ends(n, TRUE)
              [] ~overflow /\ conn[n].dead ->
                   \* the writer's error goes to this request, ActorGone to the others
                   /\ conn' = Ended(n)
                   /\ task' = [Told(task, Named(n), Err("gone")) EXCEPT ![command.from[1]] =
                                 IF Waiting(command.from[1])
                                    /\ task[command.from[1]].from = command.from
                                 THEN [@ EXCEPT !.got = Err("io")] ELSE @]
                   /\ signals' = signals + 1
              [] ~overflow /\ ~conn[n].dead ->
                   /\ conn' = [conn EXCEPT ![n] =
                         [Chosen(@) EXCEPT !.cmds = Tail(@),
                                           !.pending = (serial :> command.from) @@ @,
                                           !.asked = @ \cup {frame}]]
                   /\ task' = Told(task, ousted,
                                  [Err("gone") EXCEPT !.sure =
                                     (ousted \cup {command.from}) \cap stale = {}])
                   /\ UNCHANGED signals
         /\ sent' = IF ~overflow /\ ~conn[n].dead /\ command.request.own
                    THEN [sent EXCEPT ![command.from[1]] = @ + 1] ELSE sent
  /\ UNCHANGED <<program, current, conn_id, reconnect_lock, replay, closed, chances, stale>>

OnShutdown(n) ==
  /\ conn[n].up /\ conn[n].cmds # <<>> /\ Head(conn[n].cmds) = Shutdown
  /\ Ends(n, FALSE)
  /\ UNCHANGED <<program, current, conn_id, packet_serial, reconnect_lock, replay, closed, chances,
                 stale, sent>>

\* recv_frame and on_frame: keep-alives are dropped, pushes broadcast (one
\* without its payload ends the connection), the rest matched by serial number.
OnFrame(n) ==
  /\ conn[n].up /\ conn[n].wire # <<>> /\ ~conn[n].torn
  /\ LET frame == Head(conn[n].wire)
         beat == frame.id = proto_id.KEEP_ALIVE
         push == ~beat /\ is_push(frame.id)
         matched == ~beat /\ ~push /\ frame.serial \in DOMAIN conn[n].pending
         rest == [conn[n] EXCEPT !.wire = Tail(@), !.half = FALSE]
     IN  IF push /\ frame.answer = "empty"
         THEN Ends(n, TRUE)
         ELSE /\ conn' = [conn EXCEPT ![n] =
                    IF matched
                    THEN [rest EXCEPT !.pending =
                            [s \in DOMAIN @ \ {frame.serial} |-> @[s]]]
                    ELSE rest]
              /\ task' = IF matched
                         THEN Told(task, {conn[n].pending[frame.serial]},
                                   Answer(frame.from, frame.answer,
                                          {frame.from, conn[n].pending[frame.serial]}
                                            \cap stale = {}))
                         ELSE task
              /\ UNCHANGED signals
  /\ UNCHANGED <<program, current, conn_id, packet_serial, reconnect_lock, replay, closed, chances,
                 stale, sent>>

\* The end of the stream, an I/O error, or the magic and the hash of a frame
\* read from the middle of another.
ReadFails(n) ==
  /\ conn[n].up /\ IF conn[n].torn THEN conn[n].wire # <<>> \/ conn[n].dead
                   ELSE conn[n].wire = <<>> /\ conn[n].dead
  /\ Ends(n, TRUE)
  /\ UNCHANGED <<program, current, conn_id, packet_serial, reconnect_lock, replay, closed, chances,
                 stale, sent>>

\* on_keepalive; OpenD's answer comes back under the same number.
KeepAlive(n) ==
  /\ chances.beats > 0 /\ conn[n].up /\ conn[n].wire = <<>>
  /\ chances' = [chances EXCEPT !.beats = @ - 1]
  /\ packet_serial' = next_serial.counter
  /\ IF next_serial.ok /\ ~conn[n].dead
     THEN /\ conn' = [conn EXCEPT ![n] =
                [Chosen(@) EXCEPT !.wire = <<[id |-> proto_id.KEEP_ALIVE, answer |-> "ok",
                                              serial |-> next_serial.serial,
                                              from |-> <<Nobody, 0>>]>>]]
          /\ UNCHANGED <<task, signals>>
     ELSE Ends(n, TRUE)
  /\ UNCHANGED <<program, current, conn_id, reconnect_lock, replay, closed, stale, sent>>

-----------------------------------------------------------------------------
\* OpenD answers a request it has, in any order, and does what it says.
Changed(holds, request) ==
  CASE request.does \in {"add", "unlock", "account"} -> holds \cup request.things
    [] request.does \in {"drop", "lock"} -> holds \ request.things
    [] request.does = "clear" -> {}
    [] OTHER -> holds
OpenDAnswers(n) ==
  /\ conn[n].up /\ ~conn[n].dead
  /\ \E f \in conn[n].asked, answer \in program.answers :
       conn' = [conn EXCEPT
         ![n].asked = @ \ {f},
         ![n].wire = Append(@, [id |-> f.request.id, serial |-> f.serial, from |-> f.from,
                                answer |-> answer]),
         ![n].holds = IF answer = "error" THEN @ ELSE Changed(@, f.request)]
  /\ UNCHANGED <<program, task, current, conn_id, packet_serial, reconnect_lock, replay, closed,
                 signals, chances, stale, sent>>

OpenDPushes(n) ==
  /\ chances.pushes > 0 /\ conn[n].up /\ ~conn[n].dead /\ conn[n].wire = <<>>
  /\ chances' = [chances EXCEPT !.pushes = @ - 1]
  /\ \E serial \in {0} \cup DOMAIN conn[n].pending, answer \in {"ok", "empty"} :
       conn' = [conn EXCEPT ![n].wire =
                  <<[id |-> proto_id.TRD_UPDATE_ORDER, serial |-> serial,
                     from |-> <<Nobody, 0>>, answer |-> answer]>>]
  /\ UNCHANGED <<program, task, current, conn_id, packet_serial, reconnect_lock, replay, closed,
                 signals, stale, sent>>

\* The first bytes of a frame arrive, and are read, before the others.
PartArrives(n) ==
  /\ program.split /\ conn[n].up /\ conn[n].wire # <<>> /\ ~conn[n].half /\ ~conn[n].torn
  /\ conn' = [conn EXCEPT ![n].half = TRUE]
  /\ UNCHANGED <<program, task, current, conn_id, packet_serial, reconnect_lock, replay, closed,
                 signals, chances, stale, sent>>

SocketFails(n) ==
  /\ chances.breaks > 0 /\ conn[n].up /\ ~conn[n].dead
  /\ chances' = [chances EXCEPT !.breaks = @ - 1]
  /\ \E wire \in {conn[n].wire, <<>>} :
       conn' = [conn EXCEPT ![n].dead = TRUE, ![n].asked = {}, ![n].wire = wire]
  /\ UNCHANGED <<program, task, current, conn_id, packet_serial, reconnect_lock, replay, closed,
                 signals, stale, sent>>

CallerStep(p) ==
  \/ Begin(p) \/ BeginReconnect(p) \/ Close(p) \/ TakeHandle(p) \/ Send(p) \/ Return(p)
  \/ Remember(p)
ReconnectStep(p) ==
  \/ CheckClosed(p) \/ ConnectFails(p) \/ ConnectOk(p) \/ Install(p) \/ CloneReplay(p)
  \/ ReplaySend(p) \/ ReplayReturn(p) \/ ReplayDone(p)
ActorServes(n) == OnCommand(n) \/ OnShutdown(n) \/ OnFrame(n) \/ ReadFails(n)

LoopStep == LoopSignal \/ LoopAgain
TaskStep(p) ==
  \/ TimeOut(p) \/ ReconnectStep(p)
  \/ p = Loop /\ LoopStep
  \/ p \in Callers /\ CallerStep(p)
-----------------------------------------------------------------------------
(***************************************************************************)
(* Properties.                                                             *)
(***************************************************************************)

\* RPC correlation: a caller that is answered has the answer to the request it
\* made: not a push, a keep-alive, the answer to someone else's request or a
\* late one to its own earlier one.  Excepted are numbers from before and after
\* a restart of the counter: connect_session restarts it under the connection
\* still in use and under orders that are numbered and not yet sent.
AnswerMatches ==
  \A p \in Tasks : (task[p].got.kind = "answer" /\ task[p].got.sure) =>
                     task[p].got.from = task[p].from

\* "The ConnectionActor task has shut down": a caller that is told so, and may
\* reconnect for it, was not on a connection that still runs.
GoneMeansEnded ==
  \A p \in Tasks : (task[p].got.kind = "gone" /\ task[p].got.sure) => ~conn[task[p].on].up

\* An order goes out at most once, whatever happens to the connection meanwhile.
Orders(calls) == Cardinality({i \in DOMAIN calls : Head(calls[i]).own})
OrderSentOnce ==
  \A p \in Callers : sent[p] <= Orders(program.calls[p]) - Orders(task[p].calls)

\* What a caller was told is in place stays in place over a reconnection that
\* reported success: unless it, or something that includes it, is withdrawn, and
\* unless it was answered on one connection and remembered under the next.
Withdrawn ==
  UNION {UNION {IF request.does = "clear" THEN {"all"} ELSE request.things :
                  request \in {r \in {Head(program.calls[p][i]) :
                                        i \in DOMAIN program.calls[p]} :
                                 r.does \in {"drop", "lock", "clear"}}} : p \in Callers}
StaysInPlace ==
  LET entries == replay.quotes \o replay.unlock \o replay.accounts
  IN  (conn[current].up /\ conn[current].restored) =>
        \A i \in DOMAIN entries :
          (/\ entries[i].sure /\ entries[i].on = entries[i].at
           /\ Withdrawn \cap (entries[i].things \cup {"all"}) = {})
            => entries[i].things \subseteq conn[current].holds

\* No socket is left behind: a running actor is the one in use, the one about
\* to be, or has been told to end.
NoSocketLeft ==
  \A n \in DOMAIN conn :
    conn[n].up => \/ n = current
                  \/ n = Len(conn) /\ \E p \in Tasks : task[p].pc = "install"
                  \/ \E i \in DOMAIN conn[n].cmds : conn[n].cmds[i] = Shutdown

\* After close the connection ends; only one that was being made at that moment
\* may come up later.
ClosedEnds ==
  closed ~> \A n \in DOMAIN conn : conn[n].up => conn[n].late

\* Every call returns, and gives the lock back, whatever OpenD does.
CallsEnd == \A p \in Callers : task[p].pc # "idle" ~> task[p].pc = "idle"

\* A lost connection, and one that could not be made, is tried again until close.
LoopReconnects ==
  (program.auto /\ (signals > 0 \/ task[Loop].pc = "sleep")) ~> (reconnect_lock = Loop \/ closed)

\* What a caller may rely on, around lost, replaced and closed connections.
CallersServed ==
  AnswerMatches /\ GoneMeansEnded /\ OrderSentOnce /\ StaysInPlace /\ NoSocketLeft
=============================================================================
