------------------------------- MODULE LogSink -------------------------------
(***************************************************************************)
(* The logs of truefix-log that write in the background: FileLog with its  *)
(* rotation, SqlLog, MssqlLog, MongoLog and RedbLog.  on_incoming,         *)
(* on_outgoing and on_event only queue an entry; a task takes the entries  *)
(* one by one and writes them.  shutdown closes the queue and waits for    *)
(* the task.                                                               *)
(*                                                                         *)
(* A line of a file is one unit long.  Rotation is one file-system call    *)
(* per step, and the process may die between any two.                      *)
(***************************************************************************)
EXTENDS Naturals, Sequences, SequencesExt, FiniteSets, FiniteSetsExt

CONSTANTS
  LogKinds,     \* kinds of log considered
  Policies,     \* [max, gens, roll, beats]: max_size_bytes, generations and
                \* roll_interval of FileLog, 0 for None; include_heartbeats
  LogCap,       \* ASYNC_LOG_CHANNEL_CAPACITY
  MaxEntries, MaxLogTime,   \* bounds
  MaxLogTroubles            \* bound: restarts, failures and panics

ASSUME LogSinkAssumption ==
  /\ LogKinds \subseteq {"file", "sql", "mssql", "mongo", "redb"}
  /\ \A p \in Policies : p \in [max: Nat, gens: Nat, roll: Nat, beats: BOOLEAN]
  /\ LogCap \in Nat \ {0}

VARIABLES
  lkind, policy,   \* chosen once
  queue,           \* the channel
  sender,          \* is the Sender still there (shutdown takes it)?
  writer,          \* the background task: "recv", "busy", "done", or "none"
  job,             \* file-system calls left for the entry being written
  stream,          \* for each stream its file or table, see Opened
  lnow,            \* the clock
  lcaller,         \* shutdown: "no", "waits", "returned"
  seen,            \* history: entries offered so far
  taken,           \* history: entries the queue accepted and not crashed away
  written,         \* history: lines written to each stream, in order
  ltroubles

LogVars == <<lkind, policy, queue, sender, writer, job, stream, lnow, lcaller,
             seen, taken, written, ltroubles>>

\* Where each log puts an entry: an incoming ("I") or outgoing ("O") message
\* or an event ("E").
file_target(dir) == IF dir = "E" THEN "event" ELSE "messages"
sql_target(dir) ==
  CASE dir = "I" -> "incoming" [] dir = "O" -> "outgoing" [] dir = "E" -> "event"
mssql_target(dir) == sql_target(dir)
mongo_target(dir) == sql_target(dir)
redb_target(dir) == sql_target(dir)

Target(dir) == CASE lkind = "file" -> file_target(dir)
                 [] lkind = "sql" -> sql_target(dir)
                 [] lkind = "mssql" -> mssql_target(dir)
                 [] lkind = "mongo" -> mongo_target(dir)
                 [] lkind = "redb" -> redb_target(dir)

Streams == {Target(dir) : dir \in {"I", "O", "E"}}

interval_key(at) == IF policy.roll = 0 THEN 0 ELSE at \div policy.roll

\* RotatingFile::open and, for the tables, next_key: what the process knows
\* is read off the disk.  RedbLog's rows are kept as backups here, each under
\* its key, and `size' is its next key.
next_key(rs) == IF DOMAIN rs = {} THEN 0 ELSE Max(DOMAIN rs) + 1

Opened(f) ==
  LET at == IF f.active = <<>> THEN lnow ELSE Last(f.active).at
  IN [f EXCEPT !.size = IF lkind = "redb" THEN next_key(f.backups) ELSE Len(f.active),
               !.key = interval_key(at), !.there = TRUE]

Empty == [active |-> <<>>, there |-> TRUE, backups |-> [n \in {} |-> <<>>], size |-> 0, key |-> 0]

\* The entry being written stays at the head of `queue' until it is done
\* with; it no longer takes room in the channel.
InChannel == Len(queue) - (IF writer = "busy" THEN 1 ELSE 0)

Lines == [n: 1..MaxEntries, at: 0..MaxLogTime]
LogTypeOK ==
  /\ lkind \in LogKinds /\ policy \in Policies
  /\ InChannel <= LogCap /\ sender \in BOOLEAN
  /\ writer \in {"recv", "busy", "done", "none"}
  /\ \A s \in Streams : /\ stream[s].active \in Seq(Lines)
                        /\ stream[s].size \in 0..MaxEntries
  /\ taken \subseteq 1..seen

LogInit ==
  /\ lkind \in LogKinds /\ policy \in Policies
  /\ lkind # "file" => policy.max = 0 /\ policy.gens = 0 /\ policy.roll = 0
  /\ queue = <<>> /\ sender = TRUE /\ writer = "recv" /\ job = <<>>
  /\ stream = [s \in Streams |-> Empty] /\ written = [s \in Streams |-> <<>>]
  /\ lnow = 0 /\ lcaller = "no" /\ seen = 0 /\ taken = {}
  /\ ltroubles = 0

-----------------------------------------------------------------------------
(***************************************************************************)
(* on_incoming, on_outgoing, on_event: send.                               *)
(***************************************************************************)

\* A heartbeat is filtered where include_heartbeats is off; try_send drops the
\* entry when the queue is full or closed.
Log(dir, beat) ==
  /\ writer # "none" /\ seen < MaxEntries
  /\ seen' = seen + 1
  /\ IF (beat => policy.beats) /\ sender /\ writer # "done" /\ InChannel < LogCap
     THEN /\ queue' = Append(queue, [n |-> seen', dir |-> dir])
          /\ taken' = taken \cup {seen'}
     ELSE UNCHANGED <<queue, taken>>
  /\ UNCHANGED <<lkind, policy, sender, writer, job, stream, lnow, lcaller,
                 written, ltroubles>>

-----------------------------------------------------------------------------
(***************************************************************************)
(* The background task.                                                    *)
(***************************************************************************)

FsCall(op, a, b) == [op |-> op, a |-> a, b |-> b]

\* What writing an entry takes: write_line, insert_text, insert_one and
\* insert_blocking.
WriteLine == <<FsCall("interval", 0, 0), FsCall("size", 0, 0), FsCall("write", 0, 0)>>
sql_insert_text == <<FsCall("write", 0, 0)>>
mssql_insert_text == <<FsCall("write", 0, 0)>>
mongo_insert_one == <<FsCall("write", 0, 0)>>
redb_insert_blocking == <<FsCall("insert", 0, 0)>>

\* Faulty variant: a stamp coarser than the interval.
coarse_stamp(key) == key \div 2

\* format_date_stamp of interval_start: the interval a dated backup closes.
date_stamp(key) == key

\* shift_numeric_backups: drop n, then n-1 -> n, ..., 1 -> 2.
shift_numeric_backups(n) ==
  <<FsCall("remove", n, 0)>> \o [i \in 1..(n - 1) |-> FsCall("shift", n - i, n - i + 1)]

rotate(key) ==
  CASE policy.roll # 0 ->
         <<FsCall("rename", date_stamp(key), 0)>>
         \o (IF policy.gens # 0 THEN <<FsCall("prune", policy.gens, 0)>> ELSE <<>>)
         \o <<FsCall("open", 0, 0)>>
    [] policy.roll = 0 /\ policy.gens # 0 ->
         shift_numeric_backups(policy.gens)
         \o <<FsCall("rename", 1, 0), FsCall("open", 0, 0)>>
    [] policy.roll = 0 /\ policy.gens = 0 ->
         <<FsCall("rename", 1, 0), FsCall("open", 0, 0)>>

\* recv() has an entry, or the end: the queue is empty and the sender gone.
Recv ==
  /\ writer = "recv"
  /\ \/ /\ queue # <<>>
        /\ writer' = "busy"
        /\ job' = CASE lkind = "file" -> WriteLine
                    [] lkind = "sql" -> sql_insert_text
                    [] lkind = "mssql" -> mssql_insert_text
                    [] lkind = "mongo" -> mongo_insert_one
                    [] lkind = "redb" -> redb_insert_blocking
     \/ /\ queue = <<>> /\ ~sender
        /\ writer' = "done" /\ UNCHANGED job
  /\ UNCHANGED <<lkind, policy, queue, sender, stream, lnow, lcaller, seen,
                 taken, written, ltroubles>>

Cur == Target(Head(queue).dir)
Renamed(f, a) ==
  IF f.there THEN [f EXCEPT !.active = <<>>, !.there = FALSE,
                            !.backups = [n \in DOMAIN @ \cup {a} |->
                                           IF n = a THEN f.active ELSE @[n]]]
  ELSE f
Without(bs, S) == [n \in DOMAIN bs \ S |-> bs[n]]

\* prune_dated_backups: the `keep' greatest stamps stay.
prune_dated_backups(bs, keep) ==
  Without(bs, {n \in DOMAIN bs : Cardinality({k \in DOMAIN bs : k > n}) >= keep})

\* One file-system call of write_line and rotate, or one insert.
Perform(c) ==
  LET f == stream[Cur]
      line == [n |-> Head(queue).n, at |-> lnow]
  IN CASE c.op = "interval" ->
            LET now == interval_key(lnow)
            IN /\ UNCHANGED <<stream, written>>
               /\ job' = (IF policy.roll # 0 /\ f.key # now
                          THEN rotate(f.key) \o <<FsCall("key", now, 0)>> ELSE <<>>)
                         \o Tail(job)
       [] c.op = "key" ->
            /\ stream' = [stream EXCEPT ![Cur].key = c.a]
            /\ job' = Tail(job) /\ UNCHANGED written
       [] c.op = "size" ->
            /\ UNCHANGED <<stream, written>>
            /\ job' = (IF policy.max # 0 /\ f.size >= policy.max
                       THEN rotate(f.key) ELSE <<>>) \o Tail(job)
       [] c.op = "remove" ->
            /\ stream' = [stream EXCEPT ![Cur].backups = Without(@, {c.a})]
            /\ job' = Tail(job) /\ UNCHANGED written
       [] c.op = "shift" ->
            /\ stream' = IF c.a \in DOMAIN f.backups
                         THEN [stream EXCEPT ![Cur].backups =
                                 [n \in (DOMAIN @ \ {c.a}) \cup {c.b} |->
                                    IF n = c.b THEN @[c.a] ELSE @[n]]]
                         ELSE stream
            /\ job' = Tail(job) /\ UNCHANGED written
       [] c.op = "rename" ->
            /\ stream' = [stream EXCEPT ![Cur] = Renamed(f, c.a)]
            /\ job' = Tail(job) /\ UNCHANGED written
       [] c.op = "prune" ->
            /\ stream' = [stream EXCEPT ![Cur].backups = prune_dated_backups(@, c.a)]
            /\ job' = Tail(job) /\ UNCHANGED written
       [] c.op = "open" ->
            /\ stream' = [stream EXCEPT ![Cur].size = 0, ![Cur].there = TRUE]
            /\ job' = Tail(job) /\ UNCHANGED written
       [] c.op = "write" ->
            /\ stream' = [stream EXCEPT ![Cur].active = Append(@, line),
                                        ![Cur].size = @ + 1]
            /\ written' = [written EXCEPT ![Cur] = Append(@, line)]
            /\ job' = Tail(job)
       [] c.op = "insert" ->   \* insert_blocking
            /\ stream' = [stream EXCEPT ![Cur].size = @ + 1, ![Cur].backups =
                            [k \in DOMAIN @ \cup {f.size} |->
                               IF k = f.size THEN <<line>> ELSE @[k]]]
            /\ written' = [written EXCEPT ![Cur] = Append(@, line)]
            /\ job' = Tail(job)

Finish == IF job' = <<>> THEN writer' = "recv" /\ queue' = Tail(queue)
          ELSE UNCHANGED <<writer, queue>>

WriterStep ==
  /\ writer = "busy"
  /\ Perform(Head(job)) /\ Finish
  /\ UNCHANGED <<lkind, policy, sender, lnow, lcaller, seen, taken, ltroubles>>

\* open_append or the write fails: the line is given up and counted.
WriterFails ==
  /\ writer = "busy" /\ Head(job).op \in {"open", "write", "insert"}
  /\ ltroubles < MaxLogTroubles /\ ltroubles' = ltroubles + 1
  /\ job' = <<>> /\ Finish
  /\ taken' = taken \ {Head(queue).n}
  /\ stream' = IF lkind = "redb" THEN [stream EXCEPT ![Cur].size = @ + 1] ELSE stream
  /\ UNCHANGED <<lkind, policy, sender, lnow, lcaller, seen, written>>

\* The blocking closure panics: the FileLog's task gives up for good.
WriterPanics ==
  /\ writer = "busy" /\ lkind = "file"
  /\ ltroubles < MaxLogTroubles /\ ltroubles' = ltroubles + 1
  /\ writer' = "done" /\ job' = <<>> /\ queue' = <<>>
  /\ taken' = taken \ {queue[i].n : i \in DOMAIN queue}
  /\ UNCHANGED <<lkind, policy, sender, stream, lnow, lcaller, seen, written>>

-----------------------------------------------------------------------------
(***************************************************************************)
(* shutdown, restart and time.                                             *)
(***************************************************************************)

\* Drop the sender, then wait for the task.
ShutdownLog ==
  /\ writer # "none" /\ lcaller = "no"
  /\ sender' = FALSE /\ lcaller' = "waits"
  /\ UNCHANGED <<lkind, policy, queue, writer, job, stream, lnow, seen, taken,
                 written, ltroubles>>

ShutdownReturns ==
  /\ lcaller = "waits" /\ writer = "done"
  /\ lcaller' = "returned"
  /\ UNCHANGED <<lkind, policy, queue, sender, writer, job, stream, lnow, seen,
                 taken, written, ltroubles>>

\* The process ends; what was queued and not written is gone.
ProcessEnds ==
  /\ writer # "none"
  /\ ltroubles < MaxLogTroubles /\ ltroubles' = ltroubles + 1
  /\ writer' = "none" /\ queue' = <<>> /\ job' = <<>> /\ sender' = FALSE
  /\ lcaller' = "no" /\ taken' = taken \ {queue[i].n : i \in DOMAIN queue}
  /\ UNCHANGED <<lkind, policy, stream, lnow, seen, written>>

\* open_with_options, connect_with_config.
OpenLog ==
  /\ writer = "none"
  /\ writer' = "recv" /\ sender' = TRUE
  /\ stream' = [s \in Streams |-> Opened(stream[s])]
  /\ UNCHANGED <<lkind, policy, queue, job, lnow, lcaller, seen, taken, written,
                 ltroubles>>

\* write_line reads the clock once and writes later; a boundary crossed in
\* between only puts that line into the closing file, and is left out.
LogTick ==
  /\ job \in {<<>>, WriteLine}
  /\ policy.roll # 0 /\ lnow < MaxLogTime /\ lnow' = lnow + 1
  /\ UNCHANGED <<lkind, policy, queue, sender, writer, job, stream, lcaller, seen,
                 taken, written, ltroubles>>

LogNext ==
  \/ \E dir \in {"I", "O", "E"}, beat \in BOOLEAN : (beat => dir # "E") /\ Log(dir, beat)
  \/ Recv \/ WriterStep \/ WriterFails \/ WriterPanics
  \/ ShutdownLog \/ ShutdownReturns \/ ProcessEnds \/ OpenLog \/ LogTick

-----------------------------------------------------------------------------
(***************************************************************************)
(* Properties.                                                             *)
(***************************************************************************)

\* What a reader of the files, from the oldest backup to the active one,
\* finds.  Numbered backups count backwards in time, dated ones and the keys
\* of a table forwards.
Retained(f) ==
  LET order == SetToSortSeq(DOMAIN f.backups,
                 LAMBDA a, b : IF lkind = "file" /\ policy.roll = 0 THEN a > b ELSE a < b)
  IN FlattenSeq([i \in DOMAIN order |-> f.backups[order[i]]]) \o f.active

\* Rotation only ever forgets the oldest lines: what is kept is an unbroken
\* tail of what was written, in order, whatever call a crash or a failure
\* interrupts.  (Not with a size bound beside a roll interval, where two
\* rotations in one interval share the name of their backup.)
RetainedIsSuffix ==
  \A s \in Streams :
    ~ (policy.max # 0 /\ policy.roll # 0) =>
      /\ IsSuffix(Retained(stream[s]), written[s])
      /\ policy.max = 0 /\ policy.gens = 0 => Retained(stream[s]) = written[s]

\* "no file spans more than one configured interval" (write_line).
OneIntervalPerFile ==
  policy.roll # 0 =>
    \A s \in Streams :
      \A file \in {stream[s].active} \cup Range(stream[s].backups) :
        \A i, j \in DOMAIN file : interval_key(file[i].at) = interval_key(file[j].at)

\* Between two writes the number of backups is within the policy, but for
\* one more for each time a process or task died between the rename of a
\* dated backup and the pruning (the next rotation removes them).
BackupsBounded ==
  lkind = "file" =>
    \A s \in Streams :
      /\ policy.roll = 0 /\ policy.gens # 0 => DOMAIN stream[s].backups \subseteq 1..policy.gens
      /\ policy.roll # 0 /\ policy.gens # 0 /\ job = <<>> =>
           Cardinality(DOMAIN stream[s].backups) <= policy.gens + ltroubles
      /\ policy.roll = 0 /\ policy.gens = 0 => DOMAIN stream[s].backups \subseteq {1}

\* When shutdown returns, everything the queue had accepted is written, or
\* its failure was reported.
ShutdownFlushes ==
  lcaller = "returned" =>
    /\ queue = <<>>
    /\ taken = {w.n : w \in UNION {Range(written[s]) : s \in Streams}}

\* A log keeps an unbroken tail of what was written, in the files its policy
\* says, and all of it when shutdown returns.
LogKeeps ==
  LogTypeOK /\ RetainedIsSuffix /\ OneIntervalPerFile /\ BackupsBounded /\ ShutdownFlushes
=============================================================================
