------------------------------- MODULE DbStore -------------------------------
(***************************************************************************)
(* The message stores of truefix-store that keep their data in a database  *)
(* (SqlStore over SQLite, PostgreSQL and MySQL; MssqlStore; MongoStore;    *)
(* RedbStore) or in memory (MemoryStore, NoopStore), and the way a         *)
(* connection uses one: it seeds its session from the store and persists   *)
(* every message it sends.                                                 *)
(*                                                                         *)
(* An operation is the list of statements it sends.  Between two of them   *)
(* the process may die, other sessions may use the same tables, and each   *)
(* may fail.  A commit may fail after the database has done it.  The       *)
(* databases are external: a transaction's changes are seen together, at   *)
(* its commit, or not at all.                                              *)
(***************************************************************************)
EXTENDS Naturals, Sequences, FiniteSets

CONSTANTS
  Backends,     \* those considered
  DbSids,       \* sessions that share the tables, each with its session_id
  MaxNumber,    \* bound: sequence numbers
  MaxOutOf,     \* bound: messages each session sends between resets
  MaxInOf,      \* bound: messages each session receives between resets
  MaxDbTroubles \* bound: crashes and failed statements

ASSUME DbStoreAssumption ==
  /\ Backends \subseteq {"sql", "mssql", "mongo", "redb", "memory", "noop"}
  /\ MaxNumber \in Nat
  /\ MaxOutOf \in [DbSids -> 0..MaxNumber] /\ MaxInOf \in [DbSids -> 0..MaxNumber]
  /\ MaxDbTroubles \in Nat

VARIABLES
  backend,   \* it never changes
  rows,      \* for each session: its row and messages, as committed
  agenda,    \* the operations its connection has still to call; the first is
             \* under way
  sent,      \* how many statements of that operation were executed
  client,    \* the connection: "closed", "open" (the store is) or "up"
  next,      \* the session's own next numbers: [out, inn]
  acked,     \* history: the row the finished operations must have left
  lost,      \* history: sessions one of whose store calls failed
  db_troubles

DbVars == <<backend, rows, agenda, sent, client, next, acked, lost, db_troubles>>

IsVolatile == backend \in {"memory", "noop"}

NoRow == [created |-> "none", sender |-> 1, target |-> 1, messages |-> {}]

DbNumbers == 1..(MaxNumber + 1)
Row == [created: {"none", "connect", "reset"}, sender: DbNumbers, target: DbNumbers,
        messages: SUBSET (1..MaxNumber)]
Ops == {"connect", "save_and_advance_sender", "set_next_sender_seq",
        "set_next_target_seq", "reset"}

DbTypeOK ==
  /\ backend \in Backends
  /\ rows \in [DbSids -> Row] /\ sent \in [DbSids -> Nat]
  /\ \A s \in DbSids : agenda[s] \in Seq([op: Ops, n: 0..(MaxNumber + 1)])
  /\ client \in [DbSids -> {"closed", "open", "up"}]
  /\ next \in [DbSids -> [out: DbNumbers, inn: DbNumbers]]
  /\ lost \subseteq DbSids

DbInit ==
  /\ backend \in Backends
  /\ rows = [s \in DbSids |-> NoRow] /\ acked = rows
  /\ agenda = [s \in DbSids |-> <<>>] /\ sent = [s \in DbSids |-> 0]
  /\ client = [s \in DbSids |-> "closed"]
  /\ next = [s \in DbSids |-> [out |-> 1, inn |-> 1]]
  /\ lost = {} /\ db_troubles = 0

-----------------------------------------------------------------------------
(***************************************************************************)
(* The operations, as lists of statements.                                 *)
(***************************************************************************)
sql_ensure_schema ==
  <<"create_sessions", "create_messages", "add_column", "insert_if_absent">>
sql_set_seq(column) == <<column>>
sql_reset == <<"begin", "delete", "reset_numbers", "commit">>

sql_save_and_advance_sender == <<"begin", "upsert", "advance", "commit">>

mssql_ensure_schema ==
  <<"create_sessions", "add_column", "create_messages", "insert_if_absent">>
mssql_set_seq(column) == <<column>>

\* Faulty variant: no transaction (what NEW-116 fixed).
mssql_reset_unwrapped == <<"delete", "reset_numbers">>

mssql_reset == <<"begin", "delete", "reset_numbers", "commit">>
mssql_save_and_advance_sender == <<"begin", "upsert", "advance", "commit">>

mongo_ensure_session_row == "insert_if_absent"
mongo_connect == <<"create_sessions", "create_messages", mongo_ensure_session_row>>
mongo_set_seq(column) == <<column>>

mongo_save_and_advance_sender == <<"begin", "upsert", "advance", "commit">>
mongo_reset == <<"begin", "delete", "reset_numbers", "commit">>

redb_connect == <<"begin", "create_sessions", "create_messages",
                  "insert_if_absent", "commit">>
redb_set_seq(column) == <<"begin", column, "commit">>
redb_reset == <<"begin", "delete", "reset_numbers", "commit">>
redb_save_and_advance_sender == <<"begin", "upsert", "advance", "commit">>

\* The memory stores do not yield inside an operation: one step each, also for
\* the two calls of the default save_and_advance_sender.
memory_ops(op) ==
  CASE op = "connect" -> <<"insert_if_absent">>
    [] op = "save_and_advance_sender" -> <<"upsert_advance">>
    [] op = "reset" -> <<"delete_reset">>
    [] OTHER -> <<op>>

noop_ops(op) ==
  CASE op = "connect" -> <<"insert_if_absent">>
    [] op = "save_and_advance_sender" -> <<"advance">>
    [] op = "reset" -> <<"reset_numbers">>
    [] OTHER -> <<op>>

\* build_store picks the backend, whose methods these are.
Program(op) ==
  LET pick(sql, mssql, mongo, redb) ==
        CASE backend = "sql" -> sql [] backend = "mssql" -> mssql
          [] backend = "mongo" -> mongo [] backend = "redb" -> redb
          [] backend = "memory" -> memory_ops(op)
          [] backend = "noop" -> noop_ops(op)
  IN  CASE op = "connect" -> pick(sql_ensure_schema, mssql_ensure_schema,
                                  mongo_connect, redb_connect)
        [] op = "reset" -> pick(sql_reset, mssql_reset, mongo_reset, redb_reset)
        [] op = "save_and_advance_sender" ->
             pick(sql_save_and_advance_sender, mssql_save_and_advance_sender,
                  mongo_save_and_advance_sender, redb_save_and_advance_sender)
        [] OTHER -> pick(sql_set_seq(op), mssql_set_seq(op), mongo_set_seq(op),
                         redb_set_seq(op))

\* What a statement does to the row and the messages of the session it binds.
RowEffect(stmt, r, n) ==
  LET zero(x) == [x EXCEPT !.sender = 1, !.target = 1, !.created = "reset"]
  IN  CASE stmt = "insert_if_absent" ->
             IF r.created = "none" THEN [r EXCEPT !.created = "connect"] ELSE r
        [] stmt = "upsert" -> [r EXCEPT !.messages = @ \cup {n}]
        [] stmt = "advance" -> [r EXCEPT !.sender = n + 1]
        [] stmt = "upsert_advance" ->
             [r EXCEPT !.messages = @ \cup {n}, !.sender = n + 1]
        [] stmt = "set_next_sender_seq" -> [r EXCEPT !.sender = n]
        [] stmt = "set_next_target_seq" -> [r EXCEPT !.target = n]
        [] stmt = "delete" -> [r EXCEPT !.messages = {}]
        [] stmt = "reset_numbers" -> zero(r)
        [] stmt = "delete_reset" -> zero([r EXCEPT !.messages = {}])
        [] OTHER -> r

\* Faulty variant: DELETE without its WHERE session_id.
EffectEverywhere(stmt, table, s, n) ==
  [t \in DbSids |-> IF t = s \/ stmt = "delete" THEN RowEffect(stmt, table[t], n)
                                               ELSE table[t]]

Effect(stmt, table, s, n) == [table EXCEPT ![s] = RowEffect(stmt, @, n)]

\* What an operation c does as a whole.
Result(c, r) ==
  CASE c.op = "connect" -> RowEffect("insert_if_absent", r, 0)
    [] c.op = "save_and_advance_sender" ->
         RowEffect(IF backend = "noop" THEN "advance" ELSE "upsert_advance", r, c.n)
    [] c.op = "reset" -> RowEffect("delete_reset", r, 0)
    [] OTHER -> RowEffect(c.op, r, c.n)

-----------------------------------------------------------------------------
(***************************************************************************)
(* Sending the statements.                                                 *)
(***************************************************************************)
Call(op, n) == [op |-> op, n |-> n]

\* Put calls on the agenda; the first one starts.
BeginOp(s, calls) == agenda' = [agenda EXCEPT ![s] = calls] /\ UNCHANGED sent

\* The operation is over; the next one, if any, starts.
Advance(s) ==
  /\ agenda' = [agenda EXCEPT ![s] = Tail(@)]
  /\ sent' = [sent EXCEPT ![s] = 0]

AtRest(s) == agenda[s] = <<>>
Statements(s) == Program(Head(agenda[s]).op)
Statement(s) == Statements(s)[sent[s] + 1]

\* A transaction is opened by the first statement of an operation, and its
\* commit is the last.
InTx(s) == ~AtRest(s) /\ sent[s] > 0 /\ Statements(s)[1] = "begin"

\* The statements between the two, of which there are at most three.
Committed(s, table) ==
  LET stmts == Statements(s)
      do(i, t) == IF i < Len(stmts) THEN Effect(stmts[i], t, s, Head(agenda[s]).n) ELSE t
  IN  do(4, do(3, do(2, table)))

\* The statement that is next succeeds; a redb write transaction waits for the
\* one that is open.
ExecStatement(s) ==
  /\ ~AtRest(s)
  /\ (Statement(s) = "begin" /\ backend = "redb") => \A t \in DbSids : ~InTx(t)
  /\ rows' = IF Statement(s) = "commit" THEN Committed(s, rows)
             ELSE IF Statement(s) = "begin" \/ InTx(s) THEN rows
             ELSE Effect(Statement(s), rows, s, Head(agenda[s]).n)
  /\ IF sent[s] + 1 < Len(Statements(s))
     THEN /\ sent' = [sent EXCEPT ![s] = @ + 1]
          /\ UNCHANGED <<agenda, acked, client>>
     ELSE /\ Advance(s)
          /\ acked' = [acked EXCEPT ![s] = Result(Head(agenda[s]), @)]
          /\ client' = IF client[s] = "closed"
                       THEN [client EXCEPT ![s] = "open"] ELSE client
  /\ UNCHANGED <<backend, next, lost, db_troubles>>

\* It fails: the transaction is rolled back and the operation returns the
\* error, which connect passes on and the connection only logs.  The answer to
\* a commit may be what was lost.  Adding a column may fail without harm.
StatementFails(s) ==
  /\ ~AtRest(s) /\ ~IsVolatile /\ db_troubles < MaxDbTroubles
  /\ db_troubles' = db_troubles + 1
  /\ \/ UNCHANGED rows
     \/ Statement(s) = "commit" /\ rows' = Committed(s, rows)
  /\ IF Statement(s) = "add_column"
     THEN /\ sent' = [sent EXCEPT ![s] = @ + 1]
          /\ UNCHANGED <<agenda, acked, lost>>
     ELSE /\ Advance(s)
          /\ acked' = [acked EXCEPT ![s] = rows'[s]]
          /\ lost' = lost \cup {s}
  /\ UNCHANGED <<backend, client, next>>

-----------------------------------------------------------------------------
(***************************************************************************)
(* The connection.                                                         *)
(***************************************************************************)
OpenStore(s) ==
  /\ client[s] = "closed" /\ AtRest(s)
  /\ BeginOp(s, <<Call("connect", 0)>>)
  /\ UNCHANGED <<backend, rows, client, next, acked, lost, db_troubles>>

\* run_connection seeds its session; a number that cannot be read is taken for 1.
Seed(s) ==
  /\ client[s] = "open" /\ AtRest(s)
  /\ next' = [next EXCEPT ![s] = [out |-> rows[s].sender, inn |-> rows[s].target]]
  /\ client' = [client EXCEPT ![s] = "up"]
  /\ UNCHANGED <<backend, rows, agenda, sent, acked, lost, db_troubles>>

SeedFails(s) ==
  /\ client[s] = "open" /\ AtRest(s) /\ ~IsVolatile /\ db_troubles < MaxDbTroubles
  /\ db_troubles' = db_troubles + 1
  /\ \E o \in {1, rows[s].sender}, i \in {1, rows[s].target} :
       next' = [next EXCEPT ![s] = [out |-> o, inn |-> i]]
  /\ lost' = lost \cup {s}
  /\ client' = [client EXCEPT ![s] = "up"]
  /\ UNCHANGED <<backend, rows, agenda, sent, acked>>

\* A message is sent: persist_sent, then the number once more.
SendAndPersist(s) ==
  /\ client[s] = "up" /\ AtRest(s) /\ next[s].out <= MaxOutOf[s]
  /\ next' = [next EXCEPT ![s].out = @ + 1]
  /\ BeginOp(s, <<Call("save_and_advance_sender", next[s].out),
                Call("set_next_sender_seq", next[s].out + 1)>>)
  /\ UNCHANGED <<backend, rows, client, acked, lost, db_troubles>>

\* One is received: both numbers are persisted.
ReceiveAndPersist(s) ==
  /\ client[s] = "up" /\ AtRest(s) /\ next[s].inn <= MaxInOf[s]
  /\ next' = [next EXCEPT ![s].inn = @ + 1]
  /\ BeginOp(s, <<Call("set_next_sender_seq", next[s].out),
                Call("set_next_target_seq", next[s].inn + 1)>>)
  /\ UNCHANGED <<backend, rows, client, acked, lost, db_troubles>>

ResetBoth(s) ==
  /\ client[s] = "up" /\ AtRest(s)
  /\ next' = [next EXCEPT ![s] = [out |-> 1, inn |-> 1]]
  /\ BeginOp(s, <<Call("reset", 0)>>)
  /\ UNCHANGED <<backend, rows, client, acked, lost, db_troubles>>

\* The connection ends; the store stays open for the next one.
ConnectionGone(s) ==
  /\ client[s] = "up" /\ AtRest(s)
  /\ client' = [client EXCEPT ![s] = "open"]
  /\ UNCHANGED <<backend, rows, agenda, sent, next, acked, lost, db_troubles>>

\* The process dies: open transactions are rolled back, memory is lost.
DbCrash ==
  /\ db_troubles < MaxDbTroubles
  /\ db_troubles' = db_troubles + 1
  /\ rows' = IF IsVolatile THEN [s \in DbSids |-> NoRow] ELSE rows
  /\ acked' = rows'
  /\ agenda' = [s \in DbSids |-> <<>>] /\ sent' = [s \in DbSids |-> 0]
  /\ client' = [s \in DbSids |-> "closed"]
  /\ next' = [s \in DbSids |-> [out |-> 1, inn |-> 1]]
  /\ UNCHANGED <<backend, lost>>

DbNext ==
  \/ \E s \in DbSids :
       \/ ExecStatement(s) \/ StatementFails(s)
       \/ OpenStore(s) \/ Seed(s) \/ SeedFails(s)
       \/ SendAndPersist(s) \/ ReceiveAndPersist(s) \/ ResetBoth(s)
       \/ ConnectionGone(s)
  \/ DbCrash

DbSpec == DbInit /\ [][DbNext]_DbVars

-----------------------------------------------------------------------------
(***************************************************************************)
(* Properties.                                                             *)
(***************************************************************************)

\* Every backend is a MessageStore: what is committed changes by whole
\* operations (GAP-39, NEW-116), each for its own session, wherever the process
\* dies and whichever statement fails.
TraitsOf == [volatile |-> IsVolatile, bodies |-> backend # "noop"]
StoredOf(s) == [sender |-> rows[s].sender, target |-> rows[s].target,
                messages |-> rows[s].messages]
Abstract == INSTANCE MessageStore WITH
  StoreSids <- DbSids, StoreNumbers <- DbNumbers,
  traits <- TraitsOf, stored <- [s \in DbSids |-> StoredOf(s)]
ImplementsMessageStore == Abstract!MessageStoreSpec

\* An operation that returned Ok is there to stay, and until it returns the
\* store holds either all of it or nothing.
AckedIsDurable ==
  \A s \in DbSids :
    rows[s] \in {acked[s]} \cup
               IF AtRest(s) THEN {} ELSE {Result(Head(agenda[s]), acked[s])}

\* A number under which a message was sent is never used for another one, also
\* after a crash and a restart, while the store answers.
NumberNotReused ==
  \A s \in DbSids \ lost : (client[s] = "up" /\ AtRest(s)) =>
                          next[s].out \notin rows[s].messages

\* Between connections the store has the whole resend history: every number
\* below the next one, where bodies are kept and the store answers.
HistoryComplete ==
  \A s \in DbSids \ lost :
    backend # "noop" => rows[s].messages = 1..(rows[s].sender - 1)

\* What the engine relies on after a restart: what was acknowledged is there, no
\* number is used twice, and no part of the resend history is missing.
DbKeeps == DbTypeOK /\ AckedIsDurable /\ NumberNotReused /\ HistoryComplete
=============================================================================
