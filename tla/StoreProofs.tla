---------------------------- MODULE StoreProofs ----------------------------
(***************************************************************************)
(* The stores on a database, for every backend, any number of sessions     *)
(* that share the tables, and every bound: whatever fails and wherever the *)
(* process dies, what is committed is what was acknowledged or that with   *)
(* the operation under way.  The inductive invariant DInv ties each        *)
(* session's row to the calls its connection has still to make; from it    *)
(* follow DbKeeps and that every step of a backend is a step of            *)
(* MessageStore.  And the store on files, for any number of crashes and of *)
(* calls that fail: its numbers survive (NumbersInv, at the end).          *)
(***************************************************************************)
EXTENDS DbStore, FileStore, TLAPS

\* The time a leaf may take, in seconds; most take a fraction of one.
USE SMTT(30), ZenonT(30)

-----------------------------------------------------------------------------
(***************************************************************************)
(* The programs: whichever backend is used, the statements of an operation *)
(* change nothing before the last one, and with it they have done all of   *)
(* what the operation promises.                                            *)
(***************************************************************************)
AllBackends == {"sql", "mssql", "mongo", "redb", "memory", "noop"}
Silent == {"create_sessions", "create_messages", "add_column"}

RowCommitted(stmts, r, n) ==
  LET do(i, x) == IF i < Len(stmts) THEN RowEffect(stmts[i], x, n) ELSE x
  IN  do(4, do(3, do(2, r)))

\* What program p of operation c does to row r: in a transaction, all at its
\* commit; without one, all with the last statement.
Wrapped(p, c, r) ==
  /\ Len(p) \in 3..5 /\ p[1] = "begin" /\ p[Len(p)] = "commit"
  /\ \A i \in 1..(Len(p) - 1) : p[i] \notin {"commit", "add_column"}
  /\ RowCommitted(p, r, c.n) = Result(c, r)
Plain(p, c, r) ==
  /\ Len(p) \in 1..4
  /\ \A i \in 1..(Len(p) - 1) : p[i] \in Silent
  /\ p[Len(p)] \notin Silent \cup {"begin", "commit"}
  /\ RowEffect(p[Len(p)], r, c.n) = Result(c, r)
Delivers(p, c, r) == Wrapped(p, c, r) \/ Plain(p, c, r)

LEMMA OneStatement ==
  ASSUME NEW p, NEW c, NEW r, NEW stmt, p = <<stmt>>,
         stmt \notin Silent \cup {"begin", "commit"}, RowEffect(stmt, r, c.n) = Result(c, r)
  PROVE  Delivers(p, c, r)
BY DEF Delivers, Plain

LEMMA TwoInTransaction ==
  ASSUME NEW p, NEW c, NEW r, NEW a, NEW b, p = <<"begin", a, b, "commit">>,
         a \notin {"commit", "add_column"}, b \notin {"commit", "add_column"},
         RowEffect(b, RowEffect(a, r, c.n), c.n) = Result(c, r)
  PROVE  Delivers(p, c, r)
<1>1. Len(p) = 4 /\ p[1] = "begin" /\ p[2] = a /\ p[3] = b /\ p[4] = "commit"
  OBVIOUS
<1>2. RowCommitted(p, r, c.n) = Result(c, r)
  BY <1>1 DEF RowCommitted
<1>3. \A i \in 1..3 : i = 1 \/ i = 2 \/ i = 3
  OBVIOUS
<1>4. \A i \in 1..3 : p[i] \notin {"commit", "add_column"}
  BY <1>1, <1>3
<1>5. QED BY <1>1, <1>2, <1>4 DEF Delivers, Wrapped

LEMMA ConnectDelivers ==
  ASSUME backend \in AllBackends, NEW r, NEW c, c.op = "connect"
  PROVE  Delivers(Program(c.op), c, r)
<1> DEFINE p == Program(c.op)
<1>1. Result(c, r) = RowEffect("insert_if_absent", r, 0)
  BY DEF Result
<1>2. RowEffect("insert_if_absent", r, c.n) = RowEffect("insert_if_absent", r, 0)
  BY DEF RowEffect
<1>3. CASE backend \in {"sql", "mssql"}
  <2>1. \/ p = <<"create_sessions", "create_messages", "add_column", "insert_if_absent">>
        \/ p = <<"create_sessions", "add_column", "create_messages", "insert_if_absent">>
    BY <1>3 DEF Program, sql_ensure_schema, mssql_ensure_schema
  <2> HIDE DEF p
  <2>2. /\ Len(p) = 4 /\ p[4] = "insert_if_absent"
        /\ p[1] \in Silent /\ p[2] \in Silent /\ p[3] \in Silent
    BY <2>1 DEF Silent
  <2>3. Plain(p, c, r)
    BY <1>1, <1>2, <2>2 DEF Plain, Silent
  <2>4. QED BY <2>3 DEF Delivers, p
<1>4. CASE backend = "mongo"
  <2>1. p = <<"create_sessions", "create_messages", "insert_if_absent">>
    BY <1>4 DEF Program, mongo_connect, mongo_ensure_session_row
  <2> HIDE DEF p
  <2>2. /\ Len(p) = 3 /\ p[3] = "insert_if_absent"
        /\ p[1] \in Silent /\ p[2] \in Silent
    BY <2>1 DEF Silent
  <2>3. Plain(p, c, r)
    BY <1>1, <1>2, <2>2 DEF Plain, Silent
  <2>4. QED BY <2>3 DEF Delivers, p
<1>5. CASE backend = "redb"
  <2>1. p = <<"begin", "create_sessions", "create_messages", "insert_if_absent", "commit">>
    BY <1>5 DEF Program, redb_connect
  <2> HIDE DEF p
  <2>2. /\ Len(p) = 5 /\ p[1] = "begin" /\ p[2] = "create_sessions"
        /\ p[3] = "create_messages" /\ p[4] = "insert_if_absent" /\ p[5] = "commit"
    BY <2>1
  <2>3. RowEffect(p[2], r, c.n) = r /\ RowEffect(p[3], r, c.n) = r
    BY <2>2 DEF RowEffect
  <2>4. RowCommitted(p, r, c.n) = RowEffect("insert_if_absent", r, c.n)
    BY <2>2, <2>3 DEF RowCommitted
  <2>5. \A i \in 1..4 : p[i] \notin {"commit", "add_column"}
    BY <2>2
  <2>6. QED BY <1>1, <1>2, <2>2, <2>4, <2>5 DEF Delivers, Wrapped, p
<1>6. CASE backend \in {"memory", "noop"}
  <2>1. p = <<"insert_if_absent">>
    BY <1>6 DEF Program, memory_ops, noop_ops
  <2>2. QED BY <1>1, <1>2, <2>1, OneStatement DEF Silent
<1>7. QED BY <1>3, <1>4, <1>5, <1>6 DEF AllBackends

LEMMA SetDelivers ==
  ASSUME backend \in AllBackends, NEW r, NEW c,
         c.op \in {"set_next_sender_seq", "set_next_target_seq"}
  PROVE  Delivers(Program(c.op), c, r)
<1> DEFINE p == Program(c.op)
<1>1. Result(c, r) = RowEffect(c.op, r, c.n)
  BY DEF Result
<1>2. CASE backend # "redb"
  <2>1. p = <<c.op>>
    BY <1>2 DEF Program, memory_ops, noop_ops, sql_set_seq, mssql_set_seq, mongo_set_seq,
                AllBackends
  <2> HIDE DEF p
  <2>2. QED BY <1>1, <2>1, OneStatement DEF p, Silent
<1>3. CASE backend = "redb"
  <2>1. p = <<"begin", c.op, "commit">>
    BY <1>3 DEF Program, redb_set_seq
  <2> HIDE DEF p
  <2>2. Len(p) = 3 /\ p[1] = "begin" /\ p[2] = c.op /\ p[3] = "commit"
    BY <2>1
  <2>3. RowCommitted(p, r, c.n) = RowEffect(c.op, r, c.n)
    BY <2>2 DEF RowCommitted
  <2>4. QED BY <1>1, <2>2, <2>3 DEF Delivers, Wrapped, p
<1>4. QED BY <1>2, <1>3

LEMMA SaveDelivers ==
  ASSUME backend \in AllBackends, NEW r \in Row, NEW c, c.op = "save_and_advance_sender"
  PROVE  Delivers(Program(c.op), c, r)
<1> DEFINE p == Program(c.op)
<1>1. Result(c, r) = RowEffect(IF backend = "noop" THEN "advance" ELSE "upsert_advance",
                               r, c.n)
  BY DEF Result
<1>2. CASE backend = "noop"
  <2>1. p = <<"advance">>
    BY <1>2 DEF Program, noop_ops
  <2>2. QED BY <1>1, <1>2, <2>1, OneStatement DEF Silent
<1>3. CASE backend = "memory"
  <2>1. p = <<"upsert_advance">>
    BY <1>3 DEF Program, memory_ops
  <2>2. QED BY <1>1, <1>3, <2>1, OneStatement DEF Silent
<1>4. CASE backend \in {"sql", "mssql", "mongo", "redb"}
  <2>1. p = <<"begin", "upsert", "advance", "commit">>
    BY <1>4 DEF Program, sql_save_and_advance_sender, mssql_save_and_advance_sender,
                mongo_save_and_advance_sender, redb_save_and_advance_sender
  <2>2. RowEffect("advance", RowEffect("upsert", r, c.n), c.n) = RowEffect("upsert_advance", r, c.n)
    BY DEF RowEffect, Row
  <2>3. QED BY <1>1, <1>4, <2>1, <2>2, TwoInTransaction
<1>5. QED BY <1>2, <1>3, <1>4 DEF AllBackends

LEMMA ResetDelivers ==
  ASSUME backend \in AllBackends, NEW r \in Row, NEW c, c.op = "reset",
         backend = "noop" => r.messages = {}
  PROVE  Delivers(Program(c.op), c, r)
<1> DEFINE p == Program(c.op)
<1>1. Result(c, r) = RowEffect("delete_reset", r, 0)
  BY DEF Result
<1>2. RowEffect("delete_reset", r, c.n) = RowEffect("delete_reset", r, 0)
  BY DEF RowEffect
<1>3. CASE backend = "memory"
  <2>1. p = <<"delete_reset">>
    BY <1>3 DEF Program, memory_ops
  <2>2. QED BY <1>1, <1>2, <2>1, OneStatement DEF Silent
<1>4. CASE backend = "noop"
  <2>1. p = <<"reset_numbers">>
    BY <1>4 DEF Program, noop_ops
  <2>2. RowEffect("reset_numbers", r, c.n) = RowEffect("delete_reset", r, 0)
    BY <1>4 DEF RowEffect, Row
  <2>3. QED BY <1>1, <2>1, <2>2, OneStatement DEF Silent
<1>5. CASE backend \in {"sql", "mssql", "mongo", "redb"}
  <2>1. p = <<"begin", "delete", "reset_numbers", "commit">>
    BY <1>5 DEF Program, sql_reset, mssql_reset, mongo_reset, redb_reset
  <2>2. RowEffect("reset_numbers", RowEffect("delete", r, c.n), c.n) = RowEffect("delete_reset", r, 0)
    BY DEF RowEffect, Row
  <2>3. QED BY <1>1, <2>1, <2>2, TwoInTransaction
<1>6. QED BY <1>3, <1>4, <1>5 DEF AllBackends

-----------------------------------------------------------------------------
(***************************************************************************)
(* The inductive invariant.  For each session: what its connection may be  *)
(* doing (Errand), that the store holds what was acknowledged, and, while  *)
(* no call of the store has failed, that the row has every message below   *)
(* its next number and the number the engine has reached.                  *)
(***************************************************************************)
Typed(s) ==
  /\ rows[s] \in Row /\ sent[s] \in Nat
  /\ next[s] \in [out : DbNumbers, inn : DbNumbers]
  /\ backend = "noop" => rows[s].messages = {}

Errand(s) ==
  \/ agenda[s] = <<>> /\ client[s] \in {"closed", "open", "up"}
  \/ client[s] = "closed" /\ agenda[s] = <<Call("connect", 0)>>
  \/ /\ client[s] = "up"
     /\ \/ /\ next[s].out - 1 \in 1..MaxNumber
           /\ agenda[s] = <<Call("save_and_advance_sender", next[s].out - 1),
                            Call("set_next_sender_seq", next[s].out)>>
        \/ agenda[s] = <<Call("set_next_sender_seq", next[s].out)>>
        \/ agenda[s] = <<Call("set_next_sender_seq", next[s].out),
                         Call("set_next_target_seq", next[s].inn)>>
        \/ agenda[s] = <<Call("set_next_target_seq", next[s].inn)>>
        \/ agenda[s] = <<Call("reset", 0)>> /\ next[s].out = 1

Underway(s) ==
  IF AtRest(s) THEN sent[s] = 0 ELSE sent[s] < Len(Statements(s))

\* The number the row has, by what is still to be done.
SenderDue(s) ==
  IF ~AtRest(s) /\ Head(agenda[s]).op = "save_and_advance_sender"
  THEN next[s].out - 1 ELSE next[s].out

InStep(s) ==
  /\ backend # "noop" => rows[s].messages = 1..(rows[s].sender - 1)
  /\ client[s] = "up" /\ (AtRest(s) \/ Head(agenda[s]).op # "reset") =>
       rows[s].sender = SenderDue(s)

SInv(s) ==
  /\ Typed(s) /\ Errand(s) /\ Underway(s) /\ rows[s] = acked[s]
  /\ s \notin lost => InStep(s)

DInv ==
  /\ backend \in Backends /\ lost \subseteq DbSids
  /\ DOMAIN rows = DbSids /\ DOMAIN agenda = DbSids /\ DOMAIN sent = DbSids
  /\ DOMAIN client = DbSids /\ DOMAIN next = DbSids /\ DOMAIN acked = DbSids
  /\ rows = [s \in DbSids |-> rows[s]] /\ agenda = [s \in DbSids |-> agenda[s]]
  /\ sent = [s \in DbSids |-> sent[s]] /\ client = [s \in DbSids |-> client[s]]
  /\ next = [s \in DbSids |-> next[s]] /\ acked = [s \in DbSids |-> acked[s]]
  /\ \A s \in DbSids : SInv(s)

\* The call under way.
LEMMA CurrentCall ==
  ASSUME DInv, NEW s \in DbSids, ~AtRest(s)
  PROVE  /\ Len(agenda[s]) \in 1..2
         /\ Head(agenda[s]).op \in Ops
         /\ Head(agenda[s]).op = "connect" <=> client[s] = "closed"
         /\ Head(agenda[s]).op # "connect" => client[s] = "up"
         /\ Head(agenda[s]).op \notin {"connect", "reset"} => Head(agenda[s]).n \in DbNumbers
         /\ Head(agenda[s]).op = "save_and_advance_sender" =>
              /\ Head(agenda[s]).n = next[s].out - 1 /\ Head(agenda[s]).n \in 1..MaxNumber
              /\ Tail(agenda[s]) = <<Call("set_next_sender_seq", next[s].out)>>
         /\ Head(agenda[s]).op = "set_next_sender_seq" =>
              /\ Head(agenda[s]).n = next[s].out
              /\ Tail(agenda[s]) \in {<<>>, <<Call("set_next_target_seq", next[s].inn)>>}
         /\ Head(agenda[s]).op \in {"connect", "reset", "set_next_target_seq"} =>
              Tail(agenda[s]) = <<>>
         /\ Head(agenda[s]).op = "reset" => next[s].out = 1
<1>1. SInv(s)
  BY DEF DInv
<1>2. Errand(s) /\ agenda[s] # <<>> /\ next[s].out \in DbNumbers /\ next[s].inn \in DbNumbers
  BY <1>1 DEF SInv, Typed, AtRest
<1> DEFINE a == agenda[s]
<1>3. CASE client[s] = "closed" /\ a = <<Call("connect", 0)>>
  BY <1>3 DEF Call, Ops
<1>4. CASE client[s] = "up" /\ next[s].out - 1 \in 1..MaxNumber
           /\ a = <<Call("save_and_advance_sender", next[s].out - 1),
                    Call("set_next_sender_seq", next[s].out)>>
  BY <1>2, <1>4, DbStoreAssumption DEF Call, Ops, DbNumbers, DbStoreAssumption
<1>5. CASE client[s] = "up" /\ a = <<Call("set_next_sender_seq", next[s].out)>>
  BY <1>2, <1>5 DEF Call, Ops
<1>6. CASE client[s] = "up" /\ a = <<Call("set_next_sender_seq", next[s].out),
                                     Call("set_next_target_seq", next[s].inn)>>
  BY <1>2, <1>6 DEF Call, Ops
<1>7. CASE client[s] = "up" /\ a = <<Call("set_next_target_seq", next[s].inn)>>
  BY <1>2, <1>7 DEF Call, Ops
<1>8. CASE client[s] = "up" /\ a = <<Call("reset", 0)>> /\ next[s].out = 1
  BY <1>2, <1>8 DEF Call, Ops
<1>9. QED BY ZenonT(30), <1>2, <1>3, <1>4, <1>5, <1>6, <1>7, <1>8 DEF Errand

LEMMA SameProgram ==
  ASSUME backend' = backend
  PROVE  /\ \A op : Program(op)' = Program(op)
         /\ \A c, r : Result(c, r)' = Result(c, r)
BY DEF Program, Result

\* Whatever is under way delivers, and is not past its last statement.
LEMMA CurrentDelivers ==
  ASSUME DInv, NEW s \in DbSids, ~AtRest(s)
  PROVE  /\ Delivers(Statements(s), Head(agenda[s]), rows[s])
         /\ sent[s] \in Nat /\ sent[s] < Len(Statements(s)) /\ Len(Statements(s)) \in 1..5
<1>1. /\ backend \in AllBackends /\ rows[s] \in Row /\ sent[s] \in Nat
      /\ sent[s] < Len(Statements(s))
      /\ backend = "noop" => rows[s].messages = {}
  BY DbStoreAssumption DEF DInv, SInv, Typed, Underway, DbStoreAssumption, AllBackends
<1> DEFINE c == Head(agenda[s])
<1>2. c.op \in Ops
  BY CurrentCall
<1>3. Delivers(Program(c.op), c, rows[s])
  <2> HIDE DEF c
  <2>1. CASE c.op = "connect"
    BY <1>1, <2>1, ConnectDelivers
  <2>2. CASE c.op \in {"set_next_sender_seq", "set_next_target_seq"}
    <3>1. backend \in AllBackends
      BY <1>1
    <3>2. QED BY <2>2, <3>1, SetDelivers
  <2>3. CASE c.op = "save_and_advance_sender"
    BY <1>1, <2>3, SaveDelivers
  <2>4. CASE c.op = "reset"
    BY <1>1, <2>4, ResetDelivers
  <2>5. QED BY <1>2, <2>1, <2>2, <2>3, <2>4 DEF Ops
<1>4. Statements(s) = Program(c.op)
  BY DEF Statements
<1> DEFINE p == Statements(s)
<1> HIDE DEF c, p
<1>5. Delivers(p, c, rows[s])
  BY <1>3, <1>4 DEF p
<1>6. Len(p) \in 1..5
  BY <1>5 DEF Delivers, Wrapped, Plain
<1>7. QED BY <1>1, <1>5, <1>6 DEF c, p

\* Committed, on the row.
LEMMA CommittedRow ==
  ASSUME DInv, NEW s \in DbSids
  PROVE  Committed(s, rows) =
           [rows EXCEPT ![s] = RowCommitted(Statements(s), rows[s], Head(agenda[s]).n)]
<1> DEFINE p == Statements(s)
           n == Head(agenda[s]).n
           do(i, t) == IF i < Len(p) THEN Effect(p[i], t, s, n) ELSE t
           row(i, x) == IF i < Len(p) THEN RowEffect(p[i], x, n) ELSE x
<1>1. /\ Committed(s, rows) = do(4, do(3, do(2, rows)))
      /\ RowCommitted(p, rows[s], n) = row(4, row(3, row(2, rows[s])))
  BY DEF Committed, RowCommitted
<1>2. rows = [rows EXCEPT ![s] = rows[s]]
  BY DEF DInv
<1>3. \A i, x : do(i, [rows EXCEPT ![s] = x]) = [rows EXCEPT ![s] = row(i, x)]
  BY ZenonT(30) DEF Effect, DInv
<1> HIDE DEF do, row, p, n
<1>4. do(2, rows) = [rows EXCEPT ![s] = row(2, rows[s])]
  BY ZenonT(30), <1>2, <1>3
<1>5. do(3, do(2, rows)) = [rows EXCEPT ![s] = row(3, row(2, rows[s]))]
  BY ZenonT(30), <1>3, <1>4
<1>6. do(4, do(3, do(2, rows))) = [rows EXCEPT ![s] = row(4, row(3, row(2, rows[s])))]
  BY ZenonT(30), <1>3, <1>5
<1>7. QED BY <1>1, <1>6 DEF p, n

\* A statement that is not the last of its operation changes no table, and the
\* last one changes it by the whole operation.
LEMMA ExecRows ==
  ASSUME DInv, NEW s \in DbSids, ExecStatement(s)
  PROVE  rows' = IF sent[s] + 1 < Len(Statements(s)) THEN rows
                 ELSE [rows EXCEPT ![s] = Result(Head(agenda[s]), rows[s])]
<1> DEFINE p == Statements(s)
           c == Head(agenda[s])
           i == sent[s] + 1
<1> SUFFICES rows' = IF i < Len(p) THEN rows ELSE [rows EXCEPT ![s] = Result(c, rows[s])]
  OBVIOUS
<1>1. ~AtRest(s)
  BY DEF ExecStatement
<1>2. Delivers(p, c, rows[s]) /\ sent[s] \in Nat /\ i \in 1..Len(p) /\ Len(p) \in 1..5
  BY <1>1, CurrentDelivers
<1>3. rows' = IF p[i] = "commit" THEN Committed(s, rows)
              ELSE IF p[i] = "begin" \/ InTx(s) THEN rows
              ELSE [rows EXCEPT ![s] = RowEffect(p[i], rows[s], c.n)]
  BY DEF ExecStatement, Statement, Effect
<1>4. InTx(s) <=> i > 1 /\ p[1] = "begin"
  BY <1>1, <1>2 DEF InTx
<1>5. Committed(s, rows) = [rows EXCEPT ![s] = RowCommitted(p, rows[s], c.n)]
  BY CommittedRow DEF p, c
<1>6. rows = [rows EXCEPT ![s] = rows[s]]
  BY DEF DInv
<1> HIDE DEF p, c, i
<1>7. CASE Wrapped(p, c, rows[s])
  <2>1. /\ p[1] = "begin" /\ p[Len(p)] = "commit"
        /\ \A j \in 1..(Len(p) - 1) : p[j] # "commit"
        /\ RowCommitted(p, rows[s], c.n) = Result(c, rows[s])
    BY <1>7 DEF Wrapped
  <2>2. CASE i < Len(p)
    BY <1>2, <1>3, <1>4, <2>1, <2>2
  <2>3. CASE i = Len(p)
    BY <1>2, <1>3, <1>5, <2>1, <2>3
  <2>4. QED BY <1>2, <2>2, <2>3
<1>8. CASE Plain(p, c, rows[s])
  <2>1. /\ \A j \in 1..(Len(p) - 1) : p[j] \in Silent
        /\ p[Len(p)] \notin {"begin", "commit"}
        /\ RowEffect(p[Len(p)], rows[s], c.n) = Result(c, rows[s])
    BY <1>8 DEF Plain
  <2>2. \A j \in 1..Len(p) : p[j] \notin {"begin", "commit"}
    BY <1>2, <2>1 DEF Silent
  <2>3. ~InTx(s) /\ p[i] \notin {"begin", "commit"}
    BY <1>2, <1>4, <2>2
  <2>4. rows' = [rows EXCEPT ![s] = RowEffect(p[i], rows[s], c.n)]
    BY <1>3, <2>3
  <2>5. CASE i < Len(p)
    <3>1. p[i] \in Silent
      BY <1>2, <2>1, <2>5
    <3>2. RowEffect(p[i], rows[s], c.n) = rows[s]
      BY <3>1 DEF RowEffect, Silent
    <3>3. QED BY <1>6, <2>4, <2>5, <3>2
  <2>6. CASE i = Len(p)
    <3>1. RowEffect(p[i], rows[s], c.n) = Result(c, rows[s])
      BY <2>1, <2>6, ZenonT(30)
    <3>2. ~(i < Len(p))
      BY <1>2, <2>6
    <3>3. QED BY <2>4, <3>1, <3>2
  <2>7. QED BY <1>2, <2>5, <2>6
<1>9. QED BY <1>2, <1>7, <1>8 DEF Delivers

\* A statement that fails leaves the tables as they are, or it was the commit.
LEMMA FailRows ==
  ASSUME DInv, NEW s \in DbSids, StatementFails(s)
  PROVE  /\ \/ rows' = rows
            \/ /\ rows' = [rows EXCEPT ![s] = Result(Head(agenda[s]), rows[s])]
               /\ Statement(s) # "add_column"
         /\ Statement(s) = "add_column" => sent[s] + 1 < Len(Statements(s))
<1> DEFINE p == Statements(s)
           c == Head(agenda[s])
           i == sent[s] + 1
<1>1. ~AtRest(s) /\ (rows' = rows \/ (p[i] = "commit" /\ rows' = Committed(s, rows)))
  BY DEF StatementFails, Statement
<1>2. Delivers(p, c, rows[s]) /\ i \in 1..Len(p) /\ Len(p) \in 1..5
  BY <1>1, CurrentDelivers
<1>3. Committed(s, rows) = [rows EXCEPT ![s] = RowCommitted(p, rows[s], c.n)]
  BY CommittedRow DEF p, c
<1> HIDE DEF p, c, i
<1>4. p[Len(p)] # "add_column"
  BY <1>2 DEF Delivers, Wrapped, Plain, Silent
<1>5. p[i] = "commit" => RowCommitted(p, rows[s], c.n) = Result(c, rows[s])
  <2>1. CASE Wrapped(p, c, rows[s])
    BY <2>1 DEF Wrapped
  <2>2. CASE Plain(p, c, rows[s])
    BY <1>2, <2>2 DEF Plain, Silent
  <2>3. QED BY <1>2, <2>1, <2>2 DEF Delivers
<1>6. p[i] = "add_column" => i < Len(p)
  BY <1>2, <1>4
<1>7. Statement(s) = p[i]
  BY DEF Statement, p, i
<1>8. QED BY <1>1, <1>3, <1>5, <1>6, <1>7 DEF p, c, i

\* No operation is empty.
LEMMA ProgramLength ==
  ASSUME backend \in Backends, NEW op \in Ops
  PROVE  Len(Program(op)) \in 1..5
<1> DEFINE c == Call(op, 0)
<1>1. c.op = op /\ backend \in AllBackends /\ NoRow \in Row /\ NoRow.messages = {}
  BY DbStoreAssumption DEF Call, DbStoreAssumption, AllBackends, NoRow, Row, DbNumbers
<1> HIDE DEF c
<1>2. Delivers(Program(c.op), c, NoRow)
  <2>1. CASE c.op = "connect"
    BY <1>1, <2>1, ConnectDelivers
  <2>2. CASE c.op \in {"set_next_sender_seq", "set_next_target_seq"}
    BY <1>1, <2>2, SetDelivers
  <2>3. CASE c.op = "save_and_advance_sender"
    BY <1>1, <2>3, SaveDelivers
  <2>4. CASE c.op = "reset"
    BY <1>1, <2>4, ResetDelivers
  <2>5. QED BY <1>1, <2>1, <2>2, <2>3, <2>4 DEF Ops
<1> DEFINE p == Program(op)
<1> HIDE DEF p
<1>3. Delivers(p, c, NoRow)
  BY <1>1, <1>2 DEF p
<1>4. Len(p) \in 1..5
  BY <1>3 DEF Delivers, Wrapped, Plain
<1>5. QED BY <1>4 DEF p

\* What the operations do to a row.
LEMMA ResultRow ==
  ASSUME NEW r \in Row, NEW c, c.op \in Ops, backend = "noop" => r.messages = {},
         c.op \in {"set_next_sender_seq", "set_next_target_seq"} => c.n \in DbNumbers,
         c.op = "save_and_advance_sender" => c.n \in 1..MaxNumber
  PROVE  /\ Result(c, r) \in Row
         /\ backend = "noop" => Result(c, r).messages = {}
         /\ c.op = "connect" =>
              /\ Result(c, r).sender = r.sender /\ Result(c, r).target = r.target
              /\ Result(c, r).messages = r.messages
         /\ c.op = "set_next_sender_seq" =>
              /\ Result(c, r).sender = c.n /\ Result(c, r).target = r.target
              /\ Result(c, r).messages = r.messages
         /\ c.op = "set_next_target_seq" =>
              /\ Result(c, r).sender = r.sender /\ Result(c, r).target = c.n
              /\ Result(c, r).messages = r.messages
         /\ c.op = "save_and_advance_sender" =>
              /\ Result(c, r).sender = c.n + 1 /\ Result(c, r).target = r.target
              /\ Result(c, r).messages =
                   IF backend = "noop" THEN r.messages ELSE r.messages \cup {c.n}
         /\ c.op = "reset" =>
              /\ Result(c, r).sender = 1 /\ Result(c, r).target = 1
              /\ Result(c, r).messages = {}
<1>1. MaxNumber \in Nat
  BY DbStoreAssumption DEF DbStoreAssumption
<1>2. CASE c.op = "connect"
  BY ZenonT(30), <1>1, <1>2 DEF Result, RowEffect, Row
<1>3. CASE c.op = "set_next_sender_seq"
  BY ZenonT(30), <1>1, <1>3 DEF Result, RowEffect, Row
<1>4. CASE c.op = "set_next_target_seq"
  BY ZenonT(30), <1>1, <1>4 DEF Result, RowEffect, Row
<1>5. CASE c.op = "save_and_advance_sender"
  <2> DEFINE x == Result(c, r)
  <2>1. x = [r EXCEPT !.messages = IF backend = "noop" THEN @ ELSE @ \cup {c.n},
                      !.sender = c.n + 1]
    BY ZenonT(30), <1>5 DEF Result, RowEffect, Row
  <2> HIDE DEF x
  <2>2. c.n + 1 \in DbNumbers /\ c.n \in 1..MaxNumber
    BY <1>1, <1>5 DEF DbNumbers
  <2>3. /\ x \in Row /\ x.sender = c.n + 1 /\ x.target = r.target
        /\ x.messages = IF backend = "noop" THEN r.messages ELSE r.messages \cup {c.n}
    BY ZenonT(30), <2>1, <2>2 DEF Row
  <2>4. QED BY <1>5, <2>3 DEF x
<1>6. CASE c.op = "reset"
  <2> DEFINE x == Result(c, r)
  <2>1. x = [r EXCEPT !.messages = {}, !.sender = 1, !.target = 1, !.created = "reset"]
    BY ZenonT(30), <1>6 DEF Result, RowEffect, Row
  <2> HIDE DEF x
  <2>2. 1 \in DbNumbers
    BY <1>1 DEF DbNumbers
  <2>3. x \in Row /\ x.sender = 1 /\ x.target = 1 /\ x.messages = {}
    BY ZenonT(30), <2>1, <2>2 DEF Row
  <2>4. QED BY <1>6, <2>3 DEF x
<1>7. QED BY ZenonT(30), <1>2, <1>3, <1>4, <1>5, <1>6 DEF Ops

\* What the invariant says of a session is not disturbed by another one.
LEMMA OthersKept ==
  ASSUME DInv, backend' = backend, NEW s \in DbSids, NEW lost2, lost' = lost2,
         lost2 = lost \/ lost2 = lost \cup {s},
         rows' = [rows EXCEPT ![s] = rows'[s]], acked' = [acked EXCEPT ![s] = acked'[s]],
         agenda' = [agenda EXCEPT ![s] = agenda'[s]], sent' = [sent EXCEPT ![s] = sent'[s]],
         client' = [client EXCEPT ![s] = client'[s]], next' = [next EXCEPT ![s] = next'[s]],
         SInv(s)'
  PROVE  DInv'
<1>1. ASSUME NEW t \in DbSids, t # s
      PROVE  SInv(t)'
  <2>1. /\ rows'[t] = rows[t] /\ acked'[t] = acked[t] /\ agenda'[t] = agenda[t]
        /\ sent'[t] = sent[t] /\ client'[t] = client[t] /\ next'[t] = next[t]
        /\ t \in lost' <=> t \in lost
    BY <1>1 DEF DInv
  <2>2. SInv(t)
    BY <1>1 DEF DInv
  <2>3. Program(Head(agenda[t]).op)' = Program(Head(agenda[t]).op)
    BY <2>1, SameProgram
  <2>4. Typed(t)'
    BY <2>1, <2>2 DEF SInv, Typed
  <2>5. Errand(t)'
    BY ZenonT(30), <2>1, <2>2 DEF SInv, Errand
  <2>6. Underway(t)'
    BY ZenonT(30), <2>1, <2>2, <2>3 DEF SInv, Underway, AtRest, Statements
  <2>7. (t \notin lost => InStep(t))'
    BY ZenonT(30), <2>1, <2>2 DEF SInv, InStep, SenderDue, AtRest
  <2>8. QED BY ZenonT(30), <2>1, <2>2, <2>4, <2>5, <2>6, <2>7 DEF SInv
<1>2. \A t \in DbSids : SInv(t)'
  BY <1>1
<1>3. QED BY <1>2 DEF DInv

LEMMA FirstOfOne ==
  ASSUME NEW q, NEW op, NEW n, q = <<Call(op, n)>>
  PROVE  Head(q).op = op /\ Head(q).n = n /\ q # <<>> /\ Tail(q) = <<>>
BY DEF Call

\* An operation ends, well or not: its connection goes on with the next one.
LEMMA OperationOver ==
  ASSUME DInv, NEW s \in DbSids, ~AtRest(s), backend' = backend,
         agenda'[s] = Tail(agenda[s]), sent'[s] = 0, next'[s] = next[s],
         rows'[s] = rows[s] \/ rows'[s] = Result(Head(agenda[s]), rows[s]),
         client'[s] = client[s] \/ (client[s] = "closed" /\ client'[s] = "open")
  PROVE  Typed(s)' /\ Errand(s)' /\ Underway(s)'
<1>1. SInv(s)
  BY DEF DInv
<1>2. /\ rows[s] \in Row /\ next[s] \in [out : DbNumbers, inn : DbNumbers]
      /\ backend = "noop" => rows[s].messages = {}
  BY <1>1 DEF SInv, Typed
<1> DEFINE c == Head(agenda[s])
<1>3. /\ c.op \in Ops
      /\ c.op \in {"set_next_sender_seq", "set_next_target_seq"} => c.n \in DbNumbers
      /\ c.op = "save_and_advance_sender" => c.n \in 1..MaxNumber
  BY ZenonT(30), CurrentCall
<1>4. Result(c, rows[s]) \in Row /\ (backend = "noop" => Result(c, rows[s]).messages = {})
  <2> HIDE DEF c
  <2>1. QED BY ZenonT(30), <1>2, <1>3, ResultRow
<1>5. Typed(s)'
  BY <1>2, <1>4 DEF Typed
<1>6. CASE agenda'[s] = <<>>
  <2>1. client[s] \in {"closed", "open", "up"}
    BY <1>1 DEF SInv, Errand
  <2>2. Errand(s)'
    BY ZenonT(30), <1>6, <2>1 DEF Errand
  <2>3. Underway(s)'
    BY ZenonT(30), <1>6 DEF Underway, AtRest
  <2>4. QED BY <1>5, <2>2, <2>3
<1>7. CASE agenda'[s] # <<>>
  <2>1. \/ agenda'[s] = <<Call("set_next_sender_seq", next[s].out)>>
        \/ agenda'[s] = <<Call("set_next_target_seq", next[s].inn)>>
    BY ZenonT(30), <1>3, <1>7, CurrentCall DEF Ops
  <2>2. c.op # "connect"
    BY <1>7, CurrentCall
  <2>3. client[s] # "closed"
    BY <2>2, CurrentCall
  <2>4. client[s] = "up"
    BY <1>1, <2>3 DEF SInv, Errand, AtRest
  <2>5. Errand(s)'
    BY ZenonT(30), <2>1, <2>3, <2>4 DEF Errand
  <2> DEFINE a == agenda'[s]
  <2>6. PICK op \in Ops, n \in {next[s].out, next[s].inn} : a = <<Call(op, n)>>
    BY <2>1 DEF Ops
  <2> HIDE DEF a
  <2>7. Head(a).op = op /\ a # <<>>
    <3>1. a = <<Call(op, n)>>
      BY ZenonT(30), <2>6 DEF a
    <3>2. Head(a) = Call(op, n)
      BY <3>1
    <3>3. Call(op, n).op = op
      BY DEF Call
    <3>4. a # <<>>
      BY <3>1
    <3>5. QED BY <3>2, <3>3, <3>4
  <2>8. Len(Program(op)) \in 1..5 /\ Program(op)' = Program(op)
    BY ProgramLength, SameProgram DEF DInv
  <2>9. Underway(s)'
    <3>1. (agenda[s] # <<>>)' /\ (Head(agenda[s]).op = op)'
      BY <2>7 DEF a
    <3>2. Statements(s)' = Program(op)
      BY <2>8, <3>1 DEF Statements
    <3>3. \A k \in 1..5 : 0 < k
      OBVIOUS
    <3>4. ~AtRest(s)'
      BY <3>1 DEF AtRest
    <3>5. (sent[s] < Len(Statements(s)))'
      BY <2>8, <3>2, <3>3, ZenonT(30)
    <3>6. QED BY ZenonT(30), <3>4, <3>5 DEF Underway
  <2>10. QED BY <1>5, <2>5, <2>9
<1>8. QED BY <1>6, <1>7

\* An operation that succeeds keeps the row in step with the engine.
LEMMA SuccessInStep ==
  ASSUME DInv, NEW s \in DbSids, ~AtRest(s), InStep(s), backend' = backend,
         agenda'[s] = Tail(agenda[s]), next'[s] = next[s],
         rows'[s] = Result(Head(agenda[s]), rows[s]),
         client'[s] = "up" => client[s] = "up"
  PROVE  InStep(s)'
<1> DEFINE c == Head(agenda[s])
           r == rows[s]
           x == Result(c, r)
           out == next[s].out
<1>1. r \in Row /\ out \in DbNumbers /\ (backend = "noop" => r.messages = {})
  BY DEF DInv, SInv, Typed
<1>2. /\ c.op \in Ops
      /\ IF c.op = "connect" THEN client[s] = "closed" ELSE client[s] = "up"
      /\ c.op \in {"set_next_sender_seq", "set_next_target_seq"} => c.n \in DbNumbers
      /\ c.op = "save_and_advance_sender" => c.n = out - 1 /\ c.n \in 1..MaxNumber
      /\ c.op = "set_next_sender_seq" => c.n = out
      /\ c.op = "reset" => out = 1
  BY CurrentCall
<1>3. /\ backend # "noop" => r.messages = 1..(r.sender - 1)
      /\ client[s] = "up" /\ c.op = "save_and_advance_sender" => r.sender = out - 1
      /\ client[s] = "up" /\ c.op \in {"set_next_sender_seq", "set_next_target_seq"} =>
           r.sender = out
  BY DEF InStep, SenderDue
<1>4. SenderDue(s)' = out
  <2>1. \/ Tail(agenda[s]) = <<>>
        \/ Tail(agenda[s]) = <<Call("set_next_sender_seq", out)>>
        \/ Tail(agenda[s]) = <<Call("set_next_target_seq", next[s].inn)>>
    BY ZenonT(30), <1>2, CurrentCall DEF Ops
  <2>2. CASE Tail(agenda[s]) = <<>>
    BY <2>2 DEF SenderDue, AtRest
  <2>3. ASSUME NEW op, op # "save_and_advance_sender", NEW n, Tail(agenda[s]) = <<Call(op, n)>>
        PROVE  SenderDue(s)' = out
    <3> DEFINE t == Tail(agenda[s])
    <3>1. t = <<Call(op, n)>>
      BY <2>3
    <3> HIDE DEF t
    <3>2. Head(t).op = op
      BY <3>1, FirstOfOne
    <3>3. QED BY <2>3, <3>2 DEF SenderDue, AtRest, t
  <2>4. QED BY <2>1, <2>2, <2>3
<1>5. MaxNumber \in Nat /\ r.sender \in Nat /\ out \in Nat
  BY <1>1, DbStoreAssumption DEF Row, DbNumbers, DbStoreAssumption
<1> HIDE DEF c, r, out, x
<1>6. \A m \in Nat : m >= 1 => 1..m = 1..(m - 1) \cup {m}
  OBVIOUS
<1>7. /\ backend # "noop" => x.messages = 1..(x.sender - 1)
      /\ client[s] = "up" => x.sender = out
  <2>1. CASE c.op \in {"connect", "set_next_target_seq"}
    <3>1. x.sender = r.sender /\ x.messages = r.messages
      BY ZenonT(30), <1>1, <1>2, <2>1, ResultRow DEF x
    <3>2. QED BY <1>2, <1>3, <2>1, <3>1
  <2>2. CASE c.op = "set_next_sender_seq"
    <3>1. x.sender = c.n /\ x.messages = r.messages
      BY ZenonT(30), <1>1, <1>2, <2>2, ResultRow DEF x
    <3>2. QED BY <1>2, <1>3, <2>2, <3>1
  <2>3. CASE c.op = "save_and_advance_sender"
    <3>1. x.sender = c.n + 1 /\ (backend # "noop" => x.messages = r.messages \cup {c.n})
      BY ZenonT(30), <1>1, <1>2, <2>3, ResultRow DEF x
    <3>2. r.sender = c.n /\ c.n \in Nat /\ c.n >= 1 /\ c.n + 1 = out
      BY <1>2, <1>3, <1>5, <2>3
    <3>3. 1..c.n = 1..(c.n - 1) \cup {c.n}
      BY <1>6, <3>2
    <3>4. backend # "noop" => x.messages = 1..(x.sender - 1)
      <4> SUFFICES ASSUME backend # "noop" PROVE x.messages = 1..(x.sender - 1)
        OBVIOUS
      <4>1. r.messages = 1..(c.n - 1) /\ x.messages = r.messages \cup {c.n}
        BY <1>3, <3>1, <3>2, ZenonT(30)
      <4>2. x.sender - 1 = c.n
        BY <3>1, <3>2
      <4>3. QED BY <3>3, <4>1, <4>2, ZenonT(30)
    <3>5. QED BY <3>1, <3>2, <3>4
  <2>4. CASE c.op = "reset"
    <3>1. x.sender = 1 /\ x.messages = {}
      BY ZenonT(30), <1>1, <1>2, <2>4, ResultRow DEF x
    <3>2. QED BY <1>2, <2>4, <3>1
  <2>5. QED BY <1>2, <2>1, <2>2, <2>3, <2>4 DEF Ops
<1>8. rows'[s] = x
  BY DEF c, r, x
<1>9. QED BY <1>4, <1>7, <1>8 DEF InStep

\* A function changed at s at most.
LEMMA OnlyAt ==
  ASSUME NEW f, f = [t \in DbSids |-> f[t]], NEW s \in DbSids, NEW g, NEW v,
         g = f \/ g = [f EXCEPT ![s] = v]
  PROVE  g = [f EXCEPT ![s] = g[s]] /\ (g = [f EXCEPT ![s] = v] => g[s] = v)
OBVIOUS

LEMMA SameErrand ==
  ASSUME NEW s, Errand(s), agenda'[s] = agenda[s], client'[s] = client[s], next'[s] = next[s]
  PROVE  Errand(s)'
BY ZenonT(30) DEF Errand

LEMMA ExecKeeps ==
  ASSUME DInv, NEW s \in DbSids, ExecStatement(s)
  PROVE  DInv'
<1>1. SInv(s) /\ ~AtRest(s) /\ backend' = backend /\ next' = next /\ lost' = lost
  BY DEF DInv, ExecStatement
<1>2. /\ rows' = [rows EXCEPT ![s] = rows'[s]] /\ acked' = [acked EXCEPT ![s] = acked'[s]]
      /\ agenda' = [agenda EXCEPT ![s] = agenda'[s]] /\ sent' = [sent EXCEPT ![s] = sent'[s]]
      /\ client' = [client EXCEPT ![s] = client'[s]] /\ next' = [next EXCEPT ![s] = next'[s]]
  <2>1. rows' = [rows EXCEPT ![s] = rows'[s]]
    BY ExecRows, OnlyAt DEF DInv
  <2>2. acked' = [acked EXCEPT ![s] = acked'[s]]
    BY OnlyAt DEF DInv, ExecStatement
  <2>3. agenda' = [agenda EXCEPT ![s] = agenda'[s]]
    BY OnlyAt DEF DInv, ExecStatement, Advance
  <2>4. sent' = [sent EXCEPT ![s] = sent'[s]]
    BY OnlyAt DEF DInv, ExecStatement, Advance
  <2>5. client' = [client EXCEPT ![s] = client'[s]]
    BY OnlyAt DEF DInv, ExecStatement
  <2>6. next' = [next EXCEPT ![s] = next'[s]]
    BY <1>1, OnlyAt DEF DInv
  <2>7. QED BY <2>1, <2>2, <2>3, <2>4, <2>5, <2>6
<1>3. CASE sent[s] + 1 < Len(Statements(s))
  <2>1. /\ rows' = rows /\ agenda' = agenda /\ acked' = acked /\ client' = client
        /\ sent' = [sent EXCEPT ![s] = @ + 1]
    BY ZenonT(30), <1>3, ExecRows DEF ExecStatement
  <2>2. sent'[s] = sent[s] + 1
    BY <2>1 DEF DInv
  <2>3. Typed(s)' /\ Errand(s)'
    <3>1. next'[s] = next[s] /\ client'[s] = client[s] /\ backend' = backend
      BY ZenonT(30), <1>1, <2>1
    <3>2. Typed(s)'
      <4>1. sent[s] \in Nat
        BY ZenonT(30), <1>1 DEF SInv, Typed
      <4>2. sent[s] + 1 \in Nat
        BY <4>1
      <4>3. sent'[s] \in Nat
        BY ZenonT(30), <2>2, <4>2
      <4>4. QED BY ZenonT(30), <1>1, <2>1, <3>1, <4>3 DEF SInv, Typed
    <3>3. QED BY ZenonT(30), <1>1, <2>1, <3>1, <3>2, SameErrand DEF SInv
  <2>4. Statements(s)' = Statements(s)
    BY ZenonT(30), <1>1, <2>1, SameProgram DEF Statements
  <2>5. Underway(s)'
    BY <1>1, <1>3, <2>1, <2>2, <2>4 DEF Underway, AtRest
  <2>6. (s \notin lost => InStep(s))'
    BY ZenonT(30), <1>1, <2>1 DEF SInv, InStep, SenderDue, AtRest
  <2>7. SInv(s)'
    BY ZenonT(30), <1>1, <2>1, <2>3, <2>5, <2>6 DEF SInv
  <2>8. QED BY <1>1, <1>2, <2>7, OthersKept
<1>4. CASE ~(sent[s] + 1 < Len(Statements(s)))
  <2>1. /\ rows'[s] = Result(Head(agenda[s]), rows[s]) /\ agenda'[s] = Tail(agenda[s])
        /\ acked'[s] = Result(Head(agenda[s]), acked[s]) /\ sent'[s] = 0
        /\ client'[s] = IF client[s] = "closed" THEN "open" ELSE client[s]
    <3>1. rows'[s] = Result(Head(agenda[s]), rows[s])
      BY <1>4, ExecRows DEF DInv
    <3>2. /\ agenda' = [agenda EXCEPT ![s] = Tail(agenda[s])]
          /\ acked' = [acked EXCEPT ![s] = Result(Head(agenda[s]), acked[s])]
          /\ sent' = [sent EXCEPT ![s] = 0]
          /\ client' = IF client[s] = "closed" THEN [client EXCEPT ![s] = "open"] ELSE client
      BY <1>4 DEF ExecStatement, Advance
    <3>3. QED BY <3>1, <3>2 DEF DInv
  <2>2. Typed(s)' /\ Errand(s)' /\ Underway(s)'
    BY ZenonT(30), <1>1, <2>1, OperationOver
  <2>3. rows'[s] = acked'[s]
    BY ZenonT(30), <1>1, <2>1 DEF SInv
  <2>4. (s \notin lost => InStep(s))'
    BY ZenonT(30), <1>1, <2>1, SuccessInStep DEF SInv
  <2>5. SInv(s)'
    BY <2>2, <2>3, <2>4 DEF SInv
  <2>6. QED BY <1>1, <1>2, <2>5, OthersKept
<1>5. QED BY <1>3, <1>4

LEMMA FailKeeps ==
  ASSUME DInv, NEW s \in DbSids, StatementFails(s)
  PROVE  DInv'
<1>1. SInv(s) /\ ~AtRest(s) /\ backend' = backend /\ next' = next /\ client' = client
  BY DEF DInv, StatementFails
<1>2. /\ rows' = [rows EXCEPT ![s] = rows'[s]] /\ acked' = [acked EXCEPT ![s] = acked'[s]]
      /\ agenda' = [agenda EXCEPT ![s] = agenda'[s]] /\ sent' = [sent EXCEPT ![s] = sent'[s]]
      /\ client' = [client EXCEPT ![s] = client'[s]] /\ next' = [next EXCEPT ![s] = next'[s]]
  <2>1. rows' = [rows EXCEPT ![s] = rows'[s]]
    BY FailRows, OnlyAt DEF DInv
  <2>2. acked' = [acked EXCEPT ![s] = acked'[s]]
    BY OnlyAt DEF DInv, StatementFails
  <2>3. agenda' = [agenda EXCEPT ![s] = agenda'[s]]
    BY OnlyAt DEF DInv, StatementFails, Advance
  <2>4. sent' = [sent EXCEPT ![s] = sent'[s]]
    BY OnlyAt DEF DInv, StatementFails, Advance
  <2>5. client' = [client EXCEPT ![s] = client'[s]] /\ next' = [next EXCEPT ![s] = next'[s]]
    BY ZenonT(30), <1>1, OnlyAt DEF DInv
  <2>6. QED BY <2>1, <2>2, <2>3, <2>4, <2>5
<1>3. CASE Statement(s) = "add_column"
  <2>1. /\ rows' = rows /\ agenda' = agenda /\ acked' = acked /\ lost' = lost
        /\ sent' = [sent EXCEPT ![s] = @ + 1] /\ sent[s] + 1 < Len(Statements(s))
    BY <1>3, FailRows DEF StatementFails
  <2>2. sent'[s] = sent[s] + 1
    BY <2>1 DEF DInv
  <2>3. Typed(s)' /\ Errand(s)'
    <3>1. next'[s] = next[s] /\ client'[s] = client[s] /\ backend' = backend
      BY ZenonT(30), <1>1, <2>1
    <3>2. sent'[s] \in Nat
      <4>1. sent[s] \in Nat
        BY ZenonT(30), <1>1 DEF SInv, Typed
      <4>2. QED BY <2>2, <4>1
    <3>3. Typed(s)'
      BY ZenonT(30), <1>1, <2>1, <3>1, <3>2 DEF SInv, Typed
    <3>4. QED BY ZenonT(30), <1>1, <2>1, <3>1, <3>3, SameErrand DEF SInv
  <2>4. Statements(s)' = Statements(s)
    BY ZenonT(30), <1>1, <2>1, SameProgram DEF Statements
  <2>5. Underway(s)'
    BY ZenonT(30), <1>1, <2>1, <2>2, <2>4 DEF Underway, AtRest
  <2>6. (s \notin lost => InStep(s))'
    BY ZenonT(30), <1>1, <2>1 DEF SInv, InStep, SenderDue, AtRest
  <2>7. SInv(s)'
    BY ZenonT(30), <1>1, <2>1, <2>3, <2>5, <2>6 DEF SInv
  <2>8. QED BY ZenonT(30), <1>1, <1>2, <2>1, <2>7, OthersKept
<1>4. CASE Statement(s) # "add_column"
  <2>1. /\ agenda'[s] = Tail(agenda[s]) /\ acked'[s] = rows'[s] /\ sent'[s] = 0
        /\ lost' = lost \cup {s}
    BY <1>4 DEF StatementFails, Advance, DInv
  <2>2. rows'[s] = rows[s] \/ rows'[s] = Result(Head(agenda[s]), rows[s])
    BY FailRows DEF DInv
  <2>3. Typed(s)' /\ Errand(s)' /\ Underway(s)'
    BY ZenonT(30), <1>1, <2>1, <2>2, OperationOver
  <2>4. SInv(s)'
    BY ZenonT(30), <2>1, <2>3 DEF SInv
  <2>5. QED BY ZenonT(30), <1>1, <1>2, <2>1, <2>4, OthersKept
<1>5. QED BY <1>3, <1>4

LEMMA Positive == \A k \in 1..5 : 0 < k
OBVIOUS

\* A connection at rest whose row stays as it is takes up an errand.
LEMMA TakesUp ==
  ASSUME DInv, NEW s \in DbSids, AtRest(s), backend' = backend, rows' = rows, acked' = acked,
         sent' = sent, NEW op \in Ops, NEW calls,
         agenda' = [agenda EXCEPT ![s] = calls],
         client' = client, next' = [next EXCEPT ![s] = next'[s]], lost' = lost,
         next'[s] \in [out : DbNumbers, inn : DbNumbers], Errand(s)',
         (s \notin lost => InStep(s))', agenda'[s] # <<>>, Head(agenda'[s]).op = op
  PROVE  DInv'
<1>1. SInv(s) /\ sent[s] = 0
  BY DEF DInv, SInv, Underway
<1>2. Typed(s)' /\ rows'[s] = acked'[s]
  BY ZenonT(30), <1>1 DEF SInv, Typed
<1>3. Len(Program(op)) \in 1..5 /\ Program(op)' = Program(op)
  BY ProgramLength, SameProgram DEF DInv
<1>4. Underway(s)'
  <2>1. Statements(s)' = Program(op)
    BY ZenonT(30), <1>3 DEF Statements
  <2>3. sent'[s] = 0
    BY ZenonT(30), <1>1
  <2>4. (sent[s] < Len(Statements(s)))'
    BY ZenonT(30), <1>3, <2>1, <2>3, Positive
  <2>5. ~AtRest(s)'
    BY DEF AtRest
  <2>6. QED BY ZenonT(30), <2>4, <2>5 DEF Underway
<1>5. SInv(s)'
  BY ZenonT(30), <1>2, <1>4 DEF SInv
<1>6. /\ rows' = [rows EXCEPT ![s] = rows'[s]] /\ acked' = [acked EXCEPT ![s] = acked'[s]]
      /\ sent' = [sent EXCEPT ![s] = sent'[s]] /\ client' = [client EXCEPT ![s] = client'[s]]
  BY ZenonT(30), OnlyAt DEF DInv
<1>7. agenda' = [agenda EXCEPT ![s] = agenda'[s]]
  BY OnlyAt DEF DInv
<1>8. QED BY ZenonT(30), <1>5, <1>6, <1>7, OthersKept

LEMMA OpenStoreKeeps ==
  ASSUME DInv, NEW s \in DbSids, OpenStore(s)
  PROVE  DInv'
<1>1. SInv(s) /\ AtRest(s) /\ client[s] = "closed" /\ agenda[s] = <<>>
  BY DEF DInv, OpenStore, AtRest
<1>2. /\ agenda' = [agenda EXCEPT ![s] = <<Call("connect", 0)>>]
      /\ sent' = sent /\ backend' = backend /\ rows' = rows /\ client' = client /\ next' = next
      /\ acked' = acked /\ lost' = lost
  BY DEF OpenStore, BeginOp
<1>3. agenda'[s] = <<Call("connect", 0)>>
  BY <1>2 DEF DInv
<1>4. Head(agenda'[s]).op = "connect" /\ agenda'[s] # <<>>
  BY ZenonT(30), <1>3, FirstOfOne
<1>5. Errand(s)'
  BY ZenonT(30), <1>1, <1>2, <1>3 DEF Errand
<1>6. (s \notin lost => InStep(s))'
  BY ZenonT(30), <1>1, <1>2 DEF SInv, InStep
<1>7. next' = [next EXCEPT ![s] = next'[s]] /\ next'[s] \in [out : DbNumbers, inn : DbNumbers]
  BY <1>1, <1>2, OnlyAt DEF DInv, SInv, Typed
<1>8. QED BY ZenonT(30), <1>1, <1>2, <1>4, <1>5, <1>6, <1>7, TakesUp DEF Ops

LEMMA SendKeeps ==
  ASSUME DInv, NEW s \in DbSids, SendAndPersist(s)
  PROVE  DInv'
<1> DEFINE out == next[s].out
           calls == <<Call("save_and_advance_sender", out), Call("set_next_sender_seq", out + 1)>>
<1>1. SInv(s) /\ AtRest(s) /\ client[s] = "up" /\ out <= MaxOutOf[s]
  BY DEF DInv, SendAndPersist
<1>2. /\ agenda' = [agenda EXCEPT ![s] = calls] /\ next' = [next EXCEPT ![s].out = @ + 1]
      /\ sent' = sent /\ backend' = backend /\ rows' = rows /\ client' = client
      /\ acked' = acked /\ lost' = lost
  BY DEF SendAndPersist, BeginOp
<1>3. out \in 1..MaxNumber /\ next[s] \in [out : DbNumbers, inn : DbNumbers]
  <2>1. next[s] \in [out : DbNumbers, inn : DbNumbers]
    BY ZenonT(30), <1>1 DEF SInv, Typed
  <2>2. out \in DbNumbers
    BY ZenonT(30), <2>1
  <2>3. MaxNumber \in Nat /\ MaxOutOf[s] \in 0..MaxNumber
    BY ZenonT(30), DbStoreAssumption DEF DbStoreAssumption
  <2>4. out <= MaxOutOf[s]
    BY <1>1
  <2> HIDE DEF out
  <2>5. out \in 1..MaxNumber
    BY <2>2, <2>3, <2>4 DEF DbNumbers
  <2>6. QED BY <2>1, <2>5
<1>4. /\ next' = [next EXCEPT ![s] = next'[s]] /\ next'[s] = [next[s] EXCEPT !.out = out + 1]
  BY <1>2 DEF DInv
<1>5. next'[s].out = out + 1 /\ next'[s].inn = next[s].inn
      /\ next'[s] \in [out : DbNumbers, inn : DbNumbers]
  BY <1>3, <1>4, DbStoreAssumption DEF DbNumbers, DbStoreAssumption
<1>6. agenda'[s] = calls
  BY <1>2 DEF DInv
<1>7. Head(agenda'[s]).op = "save_and_advance_sender" /\ agenda'[s] # <<>>
  BY <1>6 DEF Call
<1>8. Errand(s)'
  <2>1. /\ next'[s].out - 1 = out /\ next'[s].out - 1 \in 1..MaxNumber
        /\ agenda'[s] = <<Call("save_and_advance_sender", next'[s].out - 1),
                          Call("set_next_sender_seq", next'[s].out)>>
    BY <1>3, <1>5, <1>6
  <2>2. client'[s] = "up"
    BY <1>1, <1>2
  <2>3. QED BY ZenonT(30), <2>1, <2>2 DEF Errand
<1>9. (s \notin lost => InStep(s))'
  <2> SUFFICES ASSUME s \notin lost PROVE InStep(s)'
    BY <1>2
  <2>1. (backend # "noop" => rows[s].messages = 1..(rows[s].sender - 1)) /\ rows[s].sender = out
    BY ZenonT(30), <1>1 DEF SInv, InStep, SenderDue
  <2>2. SenderDue(s)' = out
    BY <1>3, <1>5, <1>7 DEF SenderDue, AtRest
  <2>3. QED BY <1>2, <2>1, <2>2 DEF InStep
<1> HIDE DEF calls, out
<1>10. QED BY ZenonT(30), <1>1, <1>2, <1>4, <1>5, <1>7, <1>8, <1>9, TakesUp DEF Ops

LEMMA ReceiveKeeps ==
  ASSUME DInv, NEW s \in DbSids, ReceiveAndPersist(s)
  PROVE  DInv'
<1> DEFINE inn == next[s].inn
           calls == <<Call("set_next_sender_seq", next[s].out),
                      Call("set_next_target_seq", inn + 1)>>
<1>1. SInv(s) /\ AtRest(s) /\ client[s] = "up" /\ inn <= MaxInOf[s]
  BY DEF DInv, ReceiveAndPersist
<1>2. /\ agenda' = [agenda EXCEPT ![s] = calls] /\ next' = [next EXCEPT ![s].inn = @ + 1]
      /\ sent' = sent /\ backend' = backend /\ rows' = rows /\ client' = client
      /\ acked' = acked /\ lost' = lost
  BY DEF ReceiveAndPersist, BeginOp
<1>3. inn \in 1..MaxNumber /\ next[s] \in [out : DbNumbers, inn : DbNumbers]
  <2>1. next[s] \in [out : DbNumbers, inn : DbNumbers]
    BY ZenonT(30), <1>1 DEF SInv, Typed
  <2>2. QED BY <1>1, <2>1, DbStoreAssumption DEF DbNumbers, DbStoreAssumption
<1>4. /\ next' = [next EXCEPT ![s] = next'[s]] /\ next'[s] = [next[s] EXCEPT !.inn = inn + 1]
  BY <1>2 DEF DInv
<1>5. next'[s].out = next[s].out /\ next'[s].inn = inn + 1
      /\ next'[s] \in [out : DbNumbers, inn : DbNumbers]
  BY <1>3, <1>4, DbStoreAssumption DEF DbNumbers, DbStoreAssumption
<1>6. agenda'[s] = calls
  BY <1>2 DEF DInv
<1>7. Head(agenda'[s]).op = "set_next_sender_seq" /\ agenda'[s] # <<>>
  BY <1>6 DEF Call
<1>8. Errand(s)'
  <2>1. agenda'[s] = <<Call("set_next_sender_seq", next'[s].out),
                       Call("set_next_target_seq", next'[s].inn)>>
    BY ZenonT(30), <1>5, <1>6
  <2>2. client'[s] = "up"
    BY <1>1, <1>2
  <2>3. QED BY ZenonT(30), <2>1, <2>2 DEF Errand
<1>9. (s \notin lost => InStep(s))'
  <2> SUFFICES ASSUME s \notin lost PROVE InStep(s)'
    BY <1>2
  <2>1. /\ backend # "noop" => rows[s].messages = 1..(rows[s].sender - 1)
        /\ rows[s].sender = next[s].out
    BY <1>1 DEF SInv, InStep, SenderDue
  <2>2. SenderDue(s)' = next[s].out
    BY <1>5, <1>7 DEF SenderDue, AtRest
  <2>3. QED BY <1>2, <2>1, <2>2 DEF InStep
<1> HIDE DEF calls, inn
<1>10. QED BY ZenonT(30), <1>1, <1>2, <1>4, <1>5, <1>7, <1>8, <1>9, TakesUp DEF Ops

LEMMA ResetBothKeeps ==
  ASSUME DInv, NEW s \in DbSids, ResetBoth(s)
  PROVE  DInv'
<1> DEFINE one == [out |-> 1, inn |-> 1]
<1>1. SInv(s) /\ AtRest(s) /\ client[s] = "up"
  BY DEF DInv, ResetBoth
<1>2. /\ agenda' = [agenda EXCEPT ![s] = <<Call("reset", 0)>>] /\ next' = [next EXCEPT ![s] = one]
      /\ sent' = sent /\ backend' = backend /\ rows' = rows /\ client' = client
      /\ acked' = acked /\ lost' = lost
  BY DEF ResetBoth, BeginOp
<1>3. next' = [next EXCEPT ![s] = next'[s]] /\ next'[s] = one
  BY <1>2 DEF DInv
<1>4. next'[s].out = 1 /\ next'[s] \in [out : DbNumbers, inn : DbNumbers]
  BY <1>3, DbStoreAssumption DEF DbNumbers, DbStoreAssumption
<1>5. agenda'[s] = <<Call("reset", 0)>>
  BY <1>2 DEF DInv
<1>6. Head(agenda'[s]).op = "reset" /\ agenda'[s] # <<>>
  BY ZenonT(30), <1>5, FirstOfOne
<1>7. Errand(s)'
  BY ZenonT(30), <1>1, <1>2, <1>4, <1>5 DEF Errand
<1>8. (s \notin lost => InStep(s))'
  BY ZenonT(30), <1>1, <1>2, <1>6 DEF SInv, InStep, AtRest
<1>9. QED BY ZenonT(30), <1>1, <1>2, <1>3, <1>4, <1>6, <1>7, <1>8, TakesUp DEF Ops

\* The connection comes up or goes; the store is left alone.
LEMMA SeedKeeps ==
  ASSUME DInv, NEW s \in DbSids, Seed(s) \/ SeedFails(s) \/ ConnectionGone(s)
  PROVE  DInv'
<1>1. /\ SInv(s) /\ AtRest(s) /\ sent' = sent /\ backend' = backend /\ rows' = rows
      /\ acked' = acked /\ agenda' = agenda
  BY ZenonT(30) DEF DInv, Seed, SeedFails, ConnectionGone
<1>2. rows[s].sender \in DbNumbers /\ rows[s].target \in DbNumbers /\ 1 \in DbNumbers
  <2>1. rows[s] \in Row
    BY ZenonT(30), <1>1 DEF SInv, Typed
  <2>2. 1 \in DbNumbers
    BY DbStoreAssumption DEF DbNumbers, DbStoreAssumption
  <2>3. QED BY <2>1, <2>2 DEF Row
<1>3. \/ Seed(s) /\ lost' = lost /\ next'[s] = [out |-> rows[s].sender, inn |-> rows[s].target]
                 /\ client'[s] = "up"
      \/ SeedFails(s) /\ lost' = lost \cup {s} /\ client'[s] = "up"
                      /\ next'[s] \in [out : DbNumbers, inn : DbNumbers]
      \/ ConnectionGone(s) /\ lost' = lost /\ next'[s] = next[s] /\ client'[s] = "open"
  <2>1. s \in DOMAIN next /\ s \in DOMAIN client
    BY ZenonT(30) DEF DInv
  <2>2. CASE Seed(s)
    BY <2>1, <2>2 DEF Seed
  <2>3. CASE SeedFails(s)
    <3>1. lost' = lost \cup {s} /\ client'[s] = "up"
      BY <2>1, <2>3 DEF SeedFails
    <3>2. PICK o \in {1, rows[s].sender}, i \in {1, rows[s].target} :
            next' = [next EXCEPT ![s] = [out |-> o, inn |-> i]]
      BY ZenonT(30), <2>3 DEF SeedFails
    <3>3. next'[s] = [out |-> o, inn |-> i] /\ o \in DbNumbers /\ i \in DbNumbers
      BY <1>2, <2>1, <3>2
    <3>4. [out |-> o, inn |-> i] \in [out : DbNumbers, inn : DbNumbers]
      BY ZenonT(30), <3>3
    <3>5. QED BY ZenonT(30), <2>3, <3>1, <3>3, <3>4
  <2>4. CASE ConnectionGone(s)
    BY <2>1, <2>4 DEF ConnectionGone
  <2>5. QED BY ZenonT(30), <2>2, <2>3, <2>4
<1>4. next'[s] \in [out : DbNumbers, inn : DbNumbers]
  <2>1. next[s] \in [out : DbNumbers, inn : DbNumbers]
    BY ZenonT(30), <1>1 DEF SInv, Typed
  <2>2. [out |-> rows[s].sender, inn |-> rows[s].target] \in [out : DbNumbers, inn : DbNumbers]
    BY ZenonT(30), <1>2
  <2>3. QED BY ZenonT(30), <1>3, <2>1, <2>2
<1>5. Typed(s)' /\ Errand(s)' /\ Underway(s)' /\ rows'[s] = acked'[s]
  BY ZenonT(30), <1>1, <1>3, <1>4 DEF SInv, Typed, Errand, Underway, AtRest
<1>6. (s \notin lost => InStep(s))'
  <2>1. AtRest(s)' /\ rows'[s] = rows[s] /\ backend' = backend
    BY ZenonT(30), <1>1 DEF AtRest
  <2>2. s \notin lost => (backend # "noop" => rows[s].messages = 1..(rows[s].sender - 1))
    BY ZenonT(30), <1>1 DEF SInv, InStep
  <2>3. CASE lost' = lost /\ client'[s] = "up" /\ next'[s].out = rows[s].sender
    BY ZenonT(30), <2>1, <2>2, <2>3 DEF InStep, SenderDue
  <2>4. CASE lost' = lost /\ client'[s] = "open"
    BY ZenonT(30), <2>1, <2>2, <2>4 DEF InStep
  <2>5. CASE lost' = lost \cup {s}
    BY <2>5
  <2>6. \/ lost' = lost /\ client'[s] = "up" /\ next'[s].out = rows[s].sender
        \/ lost' = lost /\ client'[s] = "open"
        \/ lost' = lost \cup {s}
    BY <1>3
  <2>7. QED BY ZenonT(30), <2>3, <2>4, <2>5, <2>6
<1>7. SInv(s)'
  BY ZenonT(30), <1>5, <1>6 DEF SInv
<1>8. /\ rows' = [rows EXCEPT ![s] = rows'[s]] /\ acked' = [acked EXCEPT ![s] = acked'[s]]
      /\ sent' = [sent EXCEPT ![s] = sent'[s]] /\ agenda' = [agenda EXCEPT ![s] = agenda'[s]]
  BY ZenonT(30), <1>1, OnlyAt DEF DInv
<1>9. client' = [client EXCEPT ![s] = client'[s]]
  BY OnlyAt DEF DInv, Seed, SeedFails, ConnectionGone
<1>10. next' = [next EXCEPT ![s] = next'[s]]
  BY OnlyAt DEF DInv, Seed, SeedFails, ConnectionGone
<1>11. lost' = lost \/ lost' = lost \cup {s}
  BY <1>3
<1>12. QED BY <1>1, <1>7, <1>8, <1>9, <1>10, <1>11, OthersKept

\* A store with nothing in it and no connection.
Empty(s) ==
  /\ rows[s] = NoRow /\ acked[s] = rows[s] /\ agenda[s] = <<>> /\ sent[s] = 0
  /\ client[s] = "closed" /\ next[s] = [out |-> 1, inn |-> 1]

LEMMA NoMessages == NoRow.messages = 1..(NoRow.sender - 1)
BY DEF NoRow

LEMMA EmptyFine ==
  ASSUME NEW s, Empty(s)
  PROVE  SInv(s)
<1>1. MaxNumber \in Nat /\ 1 \in DbNumbers
  BY DbStoreAssumption DEF DbStoreAssumption, DbNumbers
<1>2. Typed(s)
  <2>1. NoRow \in Row /\ NoRow.messages = {}
    BY <1>1 DEF NoRow, Row
  <2>2. [out |-> 1, inn |-> 1] \in [out : DbNumbers, inn : DbNumbers]
    BY <1>1
  <2>3. QED BY <2>1, <2>2 DEF Empty, Typed
<1>3. Errand(s) /\ Underway(s)
  BY DEF Empty, Errand, Underway, AtRest
<1>4. InStep(s)
  <2>1. client[s] # "up"
    BY DEF Empty
  <2>2. QED BY ZenonT(30), <2>1, NoMessages DEF Empty, InStep
<1>5. QED BY ZenonT(30), <1>2, <1>3, <1>4 DEF SInv, Empty

LEMMA InitStore == DbInit => DInv
<1> SUFFICES ASSUME DbInit PROVE DInv
  OBVIOUS
<1>1. ASSUME NEW s \in DbSids
      PROVE  SInv(s)
  <2>1. Empty(s)
    BY DEF DbInit, Empty
  <2>2. QED BY <2>1, EmptyFine
<1>2. QED BY <1>1 DEF DbInit, DInv

LEMMA CrashKeeps ==
  ASSUME DInv, DbCrash
  PROVE  DInv'
<1>1. ASSUME NEW s \in DbSids
      PROVE  SInv(s)'
  <2>1. SInv(s) /\ MaxNumber \in Nat /\ 1 \in DbNumbers
    BY DbStoreAssumption DEF DInv, DbStoreAssumption, DbNumbers
  <2>2. /\ rows'[s] = (IF IsVolatile THEN NoRow ELSE rows[s]) /\ acked'[s] = rows'[s]
        /\ agenda'[s] = <<>> /\ sent'[s] = 0 /\ client'[s] = "closed"
        /\ next'[s] = [out |-> 1, inn |-> 1] /\ backend' = backend /\ lost' = lost
    BY DEF DbCrash
  <2>3. Typed(s)'
    <3>1. NoRow \in Row /\ NoRow.messages = {}
      BY <2>1 DEF NoRow, Row
    <3>2. rows'[s] \in Row /\ (backend' = "noop" => rows'[s].messages = {})
      BY ZenonT(30), <2>1, <2>2, <3>1 DEF SInv, Typed
    <3>3. next'[s] \in [out : DbNumbers, inn : DbNumbers] /\ sent'[s] \in Nat
      BY <2>1, <2>2
    <3>4. QED BY ZenonT(30), <3>2, <3>3 DEF Typed
  <2>4. Errand(s)' /\ Underway(s)'
    BY ZenonT(30), <2>2 DEF Errand, Underway, AtRest
  <2>5. (s \notin lost => InStep(s))'
    <3>1. s \notin lost => InStep(s)
      BY ZenonT(30), <2>1 DEF SInv
    <3>2. client'[s] # "up" /\ (rows'[s] = NoRow \/ rows'[s] = rows[s])
      BY <2>2
    <3>3. QED BY ZenonT(30), <2>2, <3>1, <3>2, NoMessages DEF InStep
  <2>6. QED BY ZenonT(30), <2>2, <2>3, <2>4, <2>5 DEF SInv
<1>2. QED BY <1>1 DEF DbCrash, DInv

LEMMA NextStore == DInv /\ [DbNext]_DbVars => DInv'
<1> SUFFICES ASSUME DInv, [DbNext]_DbVars PROVE DInv'
  OBVIOUS
<1>1. ASSUME NEW s \in DbSids, ExecStatement(s) PROVE DInv'
  BY <1>1, ExecKeeps
<1>2. ASSUME NEW s \in DbSids, StatementFails(s) PROVE DInv'
  BY <1>2, FailKeeps
<1>3. ASSUME NEW s \in DbSids, OpenStore(s) PROVE DInv'
  BY <1>3, OpenStoreKeeps
<1>4. ASSUME NEW s \in DbSids, Seed(s) \/ SeedFails(s) \/ ConnectionGone(s) PROVE DInv'
  BY <1>4, SeedKeeps
<1>5. ASSUME NEW s \in DbSids, SendAndPersist(s) PROVE DInv'
  BY <1>5, SendKeeps
<1>6. ASSUME NEW s \in DbSids, ReceiveAndPersist(s) PROVE DInv'
  BY <1>6, ReceiveKeeps
<1>7. ASSUME NEW s \in DbSids, ResetBoth(s) PROVE DInv'
  BY <1>7, ResetBothKeeps
<1>8. CASE DbCrash
  BY <1>8, CrashKeeps
<1>9. CASE UNCHANGED DbVars
  <2>1. /\ backend' = backend /\ rows' = rows /\ agenda' = agenda /\ sent' = sent
        /\ client' = client /\ next' = next /\ acked' = acked /\ lost' = lost
    BY <1>9 DEF DbVars
  <2>2. ASSUME NEW s \in DbSids PROVE Statements(s)' = Statements(s)
    BY <2>1, SameProgram DEF Statements
  <2>3. ASSUME NEW s \in DbSids PROVE SInv(s)'
    BY ZenonT(30), <2>1, <2>2 DEF DInv, SInv, Typed, Errand, Underway, AtRest, InStep, SenderDue
  <2>4. QED BY <2>1, <2>3 DEF DInv
<1>10. QED BY <1>1, <1>2, <1>3, <1>4, <1>5, <1>6, <1>7, <1>8, <1>9 DEF DbNext

LEMMA StoreInductive == DbSpec => []DInv
BY InitStore, NextStore, PTL DEF DbSpec

\* The invariant says what the engine relies on.
LEMMA KeepsFromInvariant == DInv => DbKeeps
<1> SUFFICES ASSUME DInv PROVE DbKeeps
  OBVIOUS
<1>1. \A s \in DbSids : SInv(s)
  BY DEF DInv
<1>2. DbTypeOK
  <2>1. /\ backend \in Backends /\ lost \subseteq DbSids
        /\ rows \in [DbSids -> Row] /\ sent \in [DbSids -> Nat]
        /\ next \in [DbSids -> [out: DbNumbers, inn: DbNumbers]]
    BY <1>1 DEF DInv, SInv, Typed
  <2>2. ASSUME NEW s \in DbSids PROVE client[s] \in {"closed", "open", "up"}
    BY <1>1 DEF SInv, Errand
  <2>3. ASSUME NEW s \in DbSids PROVE agenda[s] \in Seq([op: Ops, n: 0..(MaxNumber + 1)])
    <3>1. /\ Errand(s) /\ next[s].out \in DbNumbers /\ next[s].inn \in DbNumbers
          /\ MaxNumber \in Nat
      BY <1>1, DbStoreAssumption DEF SInv, Typed, DbStoreAssumption
    <3> DEFINE C == [op: Ops, n: 0..(MaxNumber + 1)]
    <3>2. \A n \in 0..(MaxNumber + 1), op \in Ops : Call(op, n) \in C
      BY DEF Call
    <3>3. /\ Call("connect", 0) \in C /\ Call("reset", 0) \in C
          /\ Call("set_next_sender_seq", next[s].out) \in C
          /\ Call("set_next_target_seq", next[s].inn) \in C
      BY <3>1, <3>2 DEF DbNumbers, Ops
    <3>4. ASSUME next[s].out - 1 \in 1..MaxNumber
          PROVE  Call("save_and_advance_sender", next[s].out - 1) \in C
      <4>1. next[s].out - 1 \in 0..(MaxNumber + 1)
        BY <3>1, <3>4
      <4>2. "save_and_advance_sender" \in Ops
        BY DEF Ops
      <4>3. QED BY <3>2, <4>1, <4>2, ZenonT(30)
    <3> HIDE DEF C
    <3>5. agenda[s] \in Seq(C)
      <4>1. \A a, b \in C : <<>> \in Seq(C) /\ <<a>> \in Seq(C) /\ <<a, b>> \in Seq(C)
        OBVIOUS
      <4>2. QED BY <3>1, <3>3, <3>4, <4>1, ZenonT(30) DEF Errand
    <3>6. QED BY <3>5 DEF C
  <2>4. QED BY ZenonT(30), <2>1, <2>2, <2>3 DEF DbTypeOK, DInv
<1>3. AckedIsDurable
  BY <1>1 DEF AckedIsDurable, SInv
<1>4. HistoryComplete
  BY <1>1 DEF HistoryComplete, SInv, InStep
<1>5. NumberNotReused
  <2> SUFFICES ASSUME NEW s \in DbSids \ lost, client[s] = "up", AtRest(s)
               PROVE  next[s].out \notin rows[s].messages
    BY DEF NumberNotReused
  <2>1. /\ rows[s].sender = next[s].out /\ rows[s].sender \in Nat
        /\ rows[s].messages = {} \/ rows[s].messages = 1..(rows[s].sender - 1)
    BY <1>1 DEF SInv, InStep, SenderDue, Typed, Row, DbNumbers
  <2>2. QED BY <2>1
<1>6. QED BY <1>2, <1>3, <1>4, <1>5 DEF DbKeeps

\* Whatever the backend, and wherever the process dies or a statement fails, the
\* database stores keep what the engine relies on after a restart: an operation
\* that returned Ok is there, no number is used for two messages, and the resend
\* history has no hole while the store answers (DbKeeps).
THEOREM DatabaseKeeps == DbSpec => []DbKeeps
BY StoreInductive, KeepsFromInvariant, PTL

-----------------------------------------------------------------------------
(***************************************************************************)
(* The refinement: every step of a database store is one whole operation   *)
(* of the MessageStore trait on one session, the loss of a memory store,   *)
(* or nothing.                                                             *)
(***************************************************************************)
StoredAll == [s \in DbSids |-> StoredOf(s)]

LEMMA OperationRefines ==
  ASSUME DInv, NEW s \in DbSids, ~AtRest(s), backend' = backend,
         rows' = [rows EXCEPT ![s] = Result(Head(agenda[s]), rows[s])]
  PROVE  Abstract!MessageStoreNext \/ UNCHANGED <<TraitsOf, StoredAll>>
<1> DEFINE c == Head(agenda[s])
           r == rows[s]
           x == Result(c, r)
<1>1. r \in Row /\ (backend = "noop" => r.messages = {})
  BY DEF DInv, SInv, Typed
<1>2. /\ c.op \in Ops
      /\ c.op \in {"set_next_sender_seq", "set_next_target_seq"} => c.n \in DbNumbers
      /\ c.op = "save_and_advance_sender" => c.n \in 1..MaxNumber
  BY ZenonT(30), CurrentCall
<1>3. TraitsOf' = TraitsOf /\ TraitsOf.bodies = (backend # "noop")
  BY ZenonT(30) DEF TraitsOf, IsVolatile
<1>4. StoredAll' = [StoredAll EXCEPT ![s] = [sender |-> x.sender, target |-> x.target,
                                             messages |-> x.messages]]
  BY ZenonT(30) DEF StoredAll, StoredOf, DInv
<1>5. StoredAll[s] = [sender |-> r.sender, target |-> r.target, messages |-> r.messages]
  BY DEF StoredAll, StoredOf
<1> HIDE DEF c, r, x
<1>6. CASE c.op = "connect"
  <2>1. x.sender = r.sender /\ x.target = r.target /\ x.messages = r.messages
    BY ZenonT(30), <1>1, <1>2, <1>6, ResultRow DEF x
  <2>2. StoredAll' = StoredAll
    BY ZenonT(30), <1>4, <1>5, <2>1 DEF StoredAll
  <2>3. QED BY <1>3, <2>2
<1>7. CASE c.op = "set_next_sender_seq"
  <2>1. x.sender = c.n /\ x.target = r.target /\ x.messages = r.messages /\ c.n \in DbNumbers
    BY ZenonT(30), <1>1, <1>2, <1>7, ResultRow DEF x
  <2>2. StoredAll' = [StoredAll EXCEPT ![s].sender = c.n]
    <3>1. [sender |-> x.sender, target |-> x.target, messages |-> x.messages]
            = [StoredAll[s] EXCEPT !.sender = c.n]
      BY <1>5, <2>1
    <3>2. QED BY ZenonT(30), <1>4, <3>1
  <2>3. Abstract!set_next_sender_seq(s, c.n)
    BY <1>3, <2>2 DEF Abstract!set_next_sender_seq, StoredAll
  <2>4. QED BY <2>1, <2>3 DEF Abstract!MessageStoreNext
<1>8. CASE c.op = "set_next_target_seq"
  <2>1. x.sender = r.sender /\ x.target = c.n /\ x.messages = r.messages /\ c.n \in DbNumbers
    BY ZenonT(30), <1>1, <1>2, <1>8, ResultRow DEF x
  <2>2. StoredAll' = [StoredAll EXCEPT ![s].target = c.n]
    <3>1. [sender |-> x.sender, target |-> x.target, messages |-> x.messages]
            = [StoredAll[s] EXCEPT !.target = c.n]
      BY <1>5, <2>1
    <3>2. QED BY ZenonT(30), <1>4, <3>1
  <2>3. Abstract!set_next_target_seq(s, c.n)
    BY <1>3, <2>2 DEF Abstract!set_next_target_seq, StoredAll
  <2>4. QED BY <2>1, <2>3 DEF Abstract!MessageStoreNext
<1>9. CASE c.op = "save_and_advance_sender"
  <2>1. /\ x.sender = c.n + 1 /\ x.target = r.target
        /\ x.messages = IF TraitsOf.bodies THEN r.messages \cup {c.n} ELSE r.messages
    BY ZenonT(30), <1>1, <1>2, <1>3, <1>9, ResultRow DEF x
  <2>2. c.n \in DbNumbers
    BY <1>2, <1>9, DbStoreAssumption DEF DbNumbers, DbStoreAssumption
  <2>3. StoredAll' = [StoredAll EXCEPT
                        ![s].sender = c.n + 1,
                        ![s].messages = IF TraitsOf.bodies THEN @ \cup {c.n} ELSE @]
    <3>1. [sender |-> x.sender, target |-> x.target, messages |-> x.messages]
            = [StoredAll[s] EXCEPT
                 !.sender = c.n + 1,
                 !.messages = IF TraitsOf.bodies THEN @ \cup {c.n} ELSE @]
      <4> DEFINE y == StoredAll[s]
                 m == IF TraitsOf.bodies THEN y.messages \cup {c.n} ELSE y.messages
      <4>1. x.messages = m
        BY <1>5, <2>1
      <4>2. y = [sender |-> r.sender, target |-> r.target, messages |-> r.messages]
        BY <1>5
      <4> HIDE DEF y, m
      <4>3. [sender |-> x.sender, target |-> x.target, messages |-> m]
              = [y EXCEPT !.sender = c.n + 1, !.messages = m]
        <5>1. y = [sender |-> r.sender, target |-> r.target, messages |-> r.messages]
          BY <4>2 DEF y
        <5> DEFINE z == [y EXCEPT !.sender = c.n + 1]
        <5>2. z = [sender |-> x.sender, target |-> x.target, messages |-> r.messages]
          BY <2>1, <5>1
        <5>3. [z EXCEPT !.messages = m] = [y EXCEPT !.sender = c.n + 1, !.messages = m]
          OBVIOUS
        <5> HIDE DEF z
        <5>4. [z EXCEPT !.messages = m]
                = [sender |-> x.sender, target |-> x.target, messages |-> m]
          BY <5>2
        <5>5. QED BY <5>3, <5>4 DEF z
      <4>4. QED BY <4>1, <4>3, ZenonT(30) DEF y, m
    <3>2. QED BY ZenonT(30), <1>4, <3>1
  <2>4. Abstract!save_and_advance_sender(s, c.n)
    BY <1>3, <2>3 DEF Abstract!save_and_advance_sender, StoredAll
  <2>5. QED BY <2>2, <2>4 DEF Abstract!MessageStoreNext
<1>10. CASE c.op = "reset"
  <2>1. x.sender = 1 /\ x.target = 1 /\ x.messages = {}
    BY ZenonT(30), <1>1, <1>2, <1>10, ResultRow DEF x
  <2>2. StoredAll' = [StoredAll EXCEPT ![s] = Abstract!Fresh]
    BY ZenonT(30), <1>4, <2>1 DEF Abstract!Fresh
  <2>3. Abstract!reset(s)
    BY <1>3, <2>2 DEF Abstract!reset, StoredAll
  <2>4. QED BY <2>3 DEF Abstract!MessageStoreNext
<1>11. QED BY <1>2, <1>6, <1>7, <1>8, <1>9, <1>10 DEF Ops

LEMMA StepRefines ==
  DInv /\ [DbNext]_DbVars => Abstract!MessageStoreNext \/ UNCHANGED <<TraitsOf, StoredAll>>
<1> SUFFICES ASSUME DInv, [DbNext]_DbVars
             PROVE  Abstract!MessageStoreNext \/ UNCHANGED <<TraitsOf, StoredAll>>
  OBVIOUS
<1>1. backend' = backend
  BY ZenonT(30) DEF DbNext, DbVars, ExecStatement, StatementFails, OpenStore, Seed, SeedFails,
         SendAndPersist, ReceiveAndPersist, ResetBoth, ConnectionGone, DbCrash
<1>2. CASE rows' = rows
  BY ZenonT(30), <1>1, <1>2 DEF TraitsOf, IsVolatile, StoredAll, StoredOf
<1>3. ASSUME NEW s \in DbSids, ExecStatement(s) \/ StatementFails(s), rows' # rows
      PROVE  Abstract!MessageStoreNext \/ UNCHANGED <<TraitsOf, StoredAll>>
  <2>1. ~AtRest(s)
    BY ZenonT(30), <1>3 DEF ExecStatement, StatementFails
  <2>2. rows' = [rows EXCEPT ![s] = Result(Head(agenda[s]), rows[s])]
    BY <1>3, ExecRows, FailRows
  <2>3. QED BY ZenonT(30), <1>1, <2>1, <2>2, OperationRefines
<1>4. CASE DbCrash /\ rows' # rows
  <2>1. IsVolatile /\ rows' = [s \in DbSids |-> NoRow]
    BY <1>4 DEF DbCrash
  <2>2. TraitsOf' = TraitsOf /\ TraitsOf.volatile
    BY ZenonT(30), <1>1, <2>1 DEF TraitsOf, IsVolatile
  <2>3. StoredAll' = [s \in DbSids |-> Abstract!Fresh]
    BY ZenonT(30), <2>1 DEF StoredAll, StoredOf, NoRow, Abstract!Fresh
  <2>4. Abstract!Lose
    BY <2>2, <2>3 DEF Abstract!Lose, StoredAll
  <2>5. QED BY <2>4 DEF Abstract!MessageStoreNext
<1>5. QED
  BY ZenonT(30), <1>2, <1>3, <1>4 DEF DbNext, DbVars, OpenStore, Seed, SeedFails, SendAndPersist,
                          ReceiveAndPersist, ResetBoth, ConnectionGone

LEMMA InitRefines == DbInit => Abstract!MessageStoreInit
<1> SUFFICES ASSUME DbInit PROVE Abstract!MessageStoreInit
  OBVIOUS
<1>1. TraitsOf \in [volatile: BOOLEAN, bodies: BOOLEAN]
  BY DEF TraitsOf, IsVolatile
<1>2. StoredAll = [s \in DbSids |-> Abstract!Fresh]
  BY ZenonT(30) DEF DbInit, StoredAll, StoredOf, NoRow, Abstract!Fresh
<1>3. QED BY <1>1, <1>2 DEF Abstract!MessageStoreInit, StoredAll

\* Every database store implements the MessageStore trait's promise: what is
\* committed changes by whole operations of one session, through crashes, failed
\* statements and other sessions on the same tables.
THEOREM DatabaseRefines == DbSpec => ImplementsMessageStore
<1>1. DInv /\ [DbNext]_DbVars =>
        [Abstract!MessageStoreNext]_<<TraitsOf, [s \in DbSids |-> StoredOf(s)]>>
  BY StepRefines DEF StoredAll
<1>2. QED BY <1>1, InitRefines, StoreInductive, PTL
          DEF DbSpec, ImplementsMessageStore, Abstract!MessageStoreSpec

-----------------------------------------------------------------------------
(***************************************************************************)
(* The numbers of the file store.  Where an operation is follows from what *)
(* it has still to do: the places are the tails of the lists of calls.     *)
(***************************************************************************)
Writing1 == <<Do("write_born", 0)>>
Writing2 == <<Do("cut_born", 0), Do("write_born", 0)>>
Reset3 == <<Do("clear", 0), Do("cut_born", 0), Do("write_born", 0)>>
Reset4 == <<Do("target", 1), Do("clear", 0), Do("cut_born", 0), Do("write_born", 0)>>
Reset5 == <<Do("sender", 1), Do("target", 1), Do("clear", 0), Do("cut_born", 0),
            Do("write_born", 0)>>
Reset6 == <<Do("rm_target", 0), Do("sender", 1), Do("target", 1), Do("clear", 0),
            Do("cut_born", 0), Do("write_born", 0)>>
Reset7 == <<Do("rm_sender", 0), Do("rm_target", 0), Do("sender", 1), Do("target", 1),
            Do("clear", 0), Do("cut_born", 0), Do("write_born", 0)>>
Reset8 == <<Do("truncate", 0), Do("rm_sender", 0), Do("rm_target", 0), Do("sender", 1),
            Do("target", 1), Do("clear", 0), Do("cut_born", 0), Do("write_born", 0)>>
Open1 == <<Do("read_born", 0)>>
Open2 == <<Do("load", 0), Do("read_born", 0)>>
Open3 == <<Do("migrate_target", 0), Do("load", 0), Do("read_born", 0)>>
Open4 == <<Do("migrate_sender", 0), Do("migrate_target", 0), Do("load", 0),
           Do("read_born", 0)>>
Sender1(v) == <<Do("sender", v)>>
Target1(v) == <<Do("target", v)>>
Save1(n, msg) == <<DoMsg("body", n, msg)>>
Save2(n, msg) == <<DoMsg("header", n, msg), DoMsg("body", n, msg)>>
Save3(v, n, msg) ==
  <<Do("sender", v), DoMsg("header", n, msg), DoMsg("body", n, msg)>>

\* What each place does next, and where that leads.
LEMMA ResetPlaces ==
  /\ Head(Reset8).do = "truncate" /\ Tail(Reset8) = Reset7 /\ Reset8 # <<>>
  /\ Head(Reset7).do = "rm_sender" /\ Tail(Reset7) = Reset6 /\ Reset7 # <<>>
  /\ Head(Reset6).do = "rm_target" /\ Tail(Reset6) = Reset5 /\ Reset6 # <<>>
  /\ Head(Reset5).do = "sender" /\ Head(Reset5).num = 1 /\ Tail(Reset5) = Reset4 /\ Reset5 # <<>>
  /\ Head(Reset4).do = "target" /\ Head(Reset4).num = 1 /\ Tail(Reset4) = Reset3 /\ Reset4 # <<>>
  /\ Head(Reset3).do = "clear" /\ Tail(Reset3) = Writing2 /\ Reset3 # <<>>
  /\ Head(Writing2).do = "cut_born" /\ Tail(Writing2) = Writing1 /\ Writing2 # <<>>
  /\ Head(Writing1).do = "write_born" /\ Tail(Writing1) = <<>> /\ Writing1 # <<>>
<1>1. /\ Head(Reset8).do = "truncate" /\ Tail(Reset8) = Reset7 /\ Reset8 # <<>>
      /\ Head(Reset7).do = "rm_sender" /\ Tail(Reset7) = Reset6 /\ Reset7 # <<>>
  BY DEF Reset6, Reset7, Reset8, Do
<1>2. /\ Head(Reset6).do = "rm_target" /\ Tail(Reset6) = Reset5 /\ Reset6 # <<>>
      /\ Head(Reset5).do = "sender" /\ Head(Reset5).num = 1 /\ Tail(Reset5) = Reset4
      /\ Reset5 # <<>>
  BY DEF Reset4, Reset5, Reset6, Do
<1>3. /\ Head(Reset4).do = "target" /\ Head(Reset4).num = 1 /\ Tail(Reset4) = Reset3
      /\ Reset4 # <<>> /\ Head(Reset3).do = "clear" /\ Tail(Reset3) = Writing2 /\ Reset3 # <<>>
  BY DEF Reset3, Reset4, Writing2, Do
<1>4. /\ Head(Writing2).do = "cut_born" /\ Tail(Writing2) = Writing1 /\ Writing2 # <<>>
      /\ Head(Writing1).do = "write_born" /\ Tail(Writing1) = <<>> /\ Writing1 # <<>>
  BY DEF Writing1, Writing2, Do
<1>5. QED BY ZenonT(30), <1>1, <1>2, <1>3, <1>4

LEMMA OpenPlaces ==
  /\ Head(Open4).do = "migrate_sender" /\ Tail(Open4) = Open3 /\ Open4 # <<>>
  /\ Head(Open3).do = "migrate_target" /\ Tail(Open3) = Open2 /\ Open3 # <<>>
  /\ Head(Open2).do = "load" /\ Tail(Open2) = Open1 /\ Open2 # <<>>
  /\ Head(Open1).do = "read_born" /\ Open1 # <<>>
BY DEF Open1, Open2, Open3, Open4, Do

LEMMA SavePlaces ==
  /\ \A v : /\ Head(Sender1(v)).do = "sender" /\ Head(Sender1(v)).num = v
            /\ Tail(Sender1(v)) = <<>> /\ Sender1(v) # <<>>
  /\ \A v : /\ Head(Target1(v)).do = "target" /\ Head(Target1(v)).num = v
            /\ Tail(Target1(v)) = <<>> /\ Target1(v) # <<>>
  /\ \A v, n, msg : /\ Head(Save3(v, n, msg)).do = "sender" /\ Head(Save3(v, n, msg)).num = v
                    /\ Tail(Save3(v, n, msg)) = Save2(n, msg) /\ Save3(v, n, msg) # <<>>
  /\ \A n, msg : /\ Head(Save2(n, msg)).do = "header" /\ Tail(Save2(n, msg)) = Save1(n, msg)
                 /\ Save2(n, msg) # <<>>
  /\ \A n, msg : /\ Head(Save1(n, msg)).do = "body" /\ Tail(Save1(n, msg)) = <<>>
                 /\ Save1(n, msg) # <<>>
BY DEF Sender1, Target1, Save1, Save2, Save3, Do, DoMsg

\* A number's file that will never be right again: see OldOrNewNumber.
Exempt == "stuck" \in spoiled \/ ("numbers" \in spoiled /\ legacy # NoFile)

\* What opening the store would find, an old `seqnums' file included.
FoundSender ==
  load_seq_value(IF disk.sender = Gone /\ legacy # NoFile THEN legacy[1] ELSE disk.sender)
FoundTarget ==
  load_seq_value(IF disk.target = Gone /\ legacy # NoFile THEN legacy[2] ELSE disk.target)

\* A number is found at its old or at its new value.
SenderKept == Exempt \/ FoundSender \in {before.sender, after.sender}
TargetKept == Exempt \/ FoundTarget \in {before.target, after.target}

\* The same, or the file is missing and a crash now is the exception.
SenderHeld == SenderKept \/ (disk.sender = Gone /\ legacy # NoFile)
TargetHeld == TargetKept \/ (disk.target = Gone /\ legacy # NoFile)

\* No old `seqnums' file is in the way.
SenderThere == Exempt \/ legacy = NoFile \/ disk.sender # Gone
TargetThere == Exempt \/ legacy = NoFile \/ disk.target # Gone

\* Between two operations, and in most places of one.
Settled ==
  /\ SenderKept /\ TargetKept /\ SenderThere /\ TargetThere
  /\ "stuck" \notin spoiled => /\ mem.sender = load_seq_value(disk.sender)
                               /\ mem.target = load_seq_value(disk.target)

NumbersType ==
  /\ legacy = NoFile \/ legacy \in Numbers \X Numbers
  /\ disk = [sender |-> disk.sender, target |-> disk.target, body |-> disk.body,
             born |-> disk.born]
  /\ disk.sender \in Nat /\ disk.target \in Nat
  /\ mem \in Pair /\ mem.sender # 0 /\ mem.target # 0
  /\ before \in Pair /\ after \in Pair
  /\ open \in BOOLEAN

\* What holds in each place.
FileAtRest == (open => Settled) /\ SenderKept /\ TargetKept
AtOpening == ~open /\ SenderKept /\ TargetKept
AtMigrateTarget == AtOpening /\ SenderThere
AtLoad == AtMigrateTarget /\ TargetThere
AtReadBorn == ~open /\ Settled
AtWork == open /\ Settled
AtReset ==
  AtWork /\ before = mem /\ after = [sender |-> 1, target |-> 1]
AtCleared ==
  /\ open /\ mem = [sender |-> 1, target |-> 1] /\ after = mem
  /\ SenderHeld /\ TargetHeld
AtHalf == AtCleared /\ disk.sender = 1
AtSender ==
  /\ AtWork /\ before = mem
  /\ after = [mem EXCEPT !.sender = after.sender] /\ after.sender # 0
AtTarget ==
  /\ AtWork /\ before = mem
  /\ after = [mem EXCEPT !.target = after.target] /\ after.target # 0

SavingBody == \E n \in Nat, msg \in Msgs : todo = Save1(n, msg)
SavingHeader == \E n \in Nat, msg \in Msgs : todo = Save2(n, msg)
SavingNumber == \E n \in Nat, msg \in Msgs : todo = Save3(after.sender, n, msg)

Placed ==
  \/ todo = <<>> /\ FileAtRest
  \/ todo = Open4 /\ AtOpening
  \/ todo = Open3 /\ AtMigrateTarget
  \/ todo = Open2 /\ AtLoad
  \/ todo = Open1 /\ AtReadBorn
  \/ todo = Writing2 /\ Settled
  \/ todo = Writing1 /\ Settled
  \/ todo = Reset3 /\ AtWork
  \/ todo = Reset4 /\ AtHalf
  \/ todo = Reset5 /\ AtCleared
  \/ todo = Reset6 /\ AtCleared
  \/ todo = Reset7 /\ AtCleared
  \/ todo = Reset8 /\ AtReset
  \/ SavingBody /\ AtWork
  \/ SavingHeader /\ AtWork
  \/ SavingNumber /\ AtSender
  \/ todo = Sender1(after.sender) /\ AtSender
  \/ todo = Target1(after.target) /\ AtTarget

NumbersInv == NumbersType /\ Placed

\* The call that is due in each place.
CallOf(q) == Head(q).do
LEMMA Calls ==
  /\ CallOf(Open4) = "migrate_sender" /\ CallOf(Open3) = "migrate_target"
  /\ CallOf(Open2) = "load" /\ CallOf(Open1) = "read_born"
  /\ CallOf(Writing2) = "cut_born" /\ CallOf(Writing1) = "write_born"
  /\ CallOf(Reset3) = "clear" /\ CallOf(Reset4) = "target" /\ CallOf(Reset5) = "sender"
  /\ CallOf(Reset6) = "rm_target" /\ CallOf(Reset7) = "rm_sender" /\ CallOf(Reset8) = "truncate"
  /\ \A v : CallOf(Sender1(v)) = "sender"
  /\ \A v : CallOf(Target1(v)) = "target"
  /\ SavingNumber => CallOf(todo) = "sender"
  /\ SavingHeader => CallOf(todo) = "header"
  /\ SavingBody => CallOf(todo) = "body"
<1>1. /\ CallOf(Open4) = "migrate_sender" /\ CallOf(Open3) = "migrate_target"
      /\ CallOf(Open2) = "load" /\ CallOf(Open1) = "read_born"
  BY OpenPlaces DEF CallOf
<1>2. /\ CallOf(Writing2) = "cut_born" /\ CallOf(Writing1) = "write_born"
      /\ CallOf(Reset3) = "clear" /\ CallOf(Reset4) = "target" /\ CallOf(Reset5) = "sender"
      /\ CallOf(Reset6) = "rm_target" /\ CallOf(Reset7) = "rm_sender" /\ CallOf(Reset8) = "truncate"
  BY ResetPlaces DEF CallOf
<1>3. /\ \A v : CallOf(Sender1(v)) = "sender"
      /\ \A v : CallOf(Target1(v)) = "target"
  BY SavePlaces DEF CallOf
<1>4. SavingNumber => CallOf(todo) = "sender"
  BY SavePlaces DEF CallOf, SavingNumber
<1>5. SavingHeader => CallOf(todo) = "header"
  BY SavePlaces DEF CallOf, SavingHeader
<1>6. SavingBody => CallOf(todo) = "body"
  BY SavePlaces DEF CallOf, SavingBody
<1>7. QED BY <1>1, <1>2, <1>3, <1>4, <1>5, <1>6

\* The call that is due tells the place.
LEMMA PlaceOf ==
  ASSUME Placed
  PROVE  /\ Due("migrate_sender") => todo = Open4 /\ AtOpening
         /\ Due("migrate_target") => todo = Open3 /\ AtMigrateTarget
         /\ Due("load") => todo = Open2 /\ AtLoad
         /\ Due("read_born") => todo = Open1 /\ AtReadBorn
         /\ Due("cut_born") => todo = Writing2 /\ Settled
         /\ Due("write_born") => todo = Writing1 /\ Settled
         /\ Due("clear") => todo = Reset3 /\ AtWork
         /\ Due("rm_target") => todo = Reset6 /\ AtCleared
         /\ Due("rm_sender") => todo = Reset7 /\ AtCleared
         /\ Due("truncate") => todo = Reset8 /\ AtReset
         /\ Due("body") => SavingBody /\ AtWork
         /\ Due("header") => SavingHeader /\ AtWork
         /\ Due("sender") => \/ todo = Reset5 /\ AtCleared
                             \/ todo = Sender1(after.sender) /\ AtSender
                             \/ SavingNumber /\ AtSender
         /\ Due("target") => \/ todo = Reset4 /\ AtHalf
                             \/ todo = Target1(after.target) /\ AtTarget
<1>0. \A name : Due(name) => todo # <<>> /\ CallOf(todo) = name
  BY DEF Due, CallOf
<1>1. Due("migrate_sender") => todo = Open4 /\ AtOpening
  BY ZenonT(30), <1>0, Calls DEF Placed
<1>2. Due("migrate_target") => todo = Open3 /\ AtMigrateTarget
  BY <1>0, Calls DEF Placed
<1>3. Due("load") => todo = Open2 /\ AtLoad
  BY ZenonT(30), <1>0, Calls DEF Placed
<1>4. Due("read_born") => todo = Open1 /\ AtReadBorn
  BY ZenonT(30), <1>0, Calls DEF Placed
<1>5. Due("cut_born") => todo = Writing2 /\ Settled
  BY ZenonT(30), <1>0, Calls DEF Placed
<1>6. Due("write_born") => todo = Writing1 /\ Settled
  BY ZenonT(30), <1>0, Calls DEF Placed
<1>7. Due("clear") => todo = Reset3 /\ AtWork
  BY ZenonT(30), <1>0, Calls DEF Placed
<1>8. Due("rm_target") => todo = Reset6 /\ AtCleared
  BY <1>0, Calls DEF Placed
<1>9. Due("rm_sender") => todo = Reset7 /\ AtCleared
  BY ZenonT(30), <1>0, Calls DEF Placed
<1>10. Due("truncate") => todo = Reset8 /\ AtReset
  BY ZenonT(30), <1>0, Calls DEF Placed
<1>11. Due("body") => SavingBody /\ AtWork
  BY <1>0, Calls DEF Placed
<1>12. Due("header") => SavingHeader /\ AtWork
  BY <1>0, Calls DEF Placed
<1>13. Due("sender") => \/ todo = Reset5 /\ AtCleared
                        \/ todo = Sender1(after.sender) /\ AtSender
                        \/ SavingNumber /\ AtSender
  BY ZenonT(30), <1>0, Calls DEF Placed
<1>14. Due("target") => \/ todo = Reset4 /\ AtHalf
                        \/ todo = Target1(after.target) /\ AtTarget
  BY ZenonT(30), <1>0, Calls DEF Placed
<1> QED BY <1>1, <1>2, <1>3, <1>4, <1>5, <1>6, <1>7, <1>8, <1>9, <1>10, <1>11, <1>12, <1>13, <1>14
\* What is not touched stays as it is.
LEMMA SameNumbers ==
  ASSUME NumbersType, UNCHANGED <<legacy, mem, before, after, spoiled, open>>,
         disk'.sender = disk.sender, disk'.target = disk.target,
         disk' = [sender |-> disk'.sender, target |-> disk'.target, body |-> disk'.body,
                  born |-> disk'.born]
  PROVE  /\ NumbersType'
         /\ SenderKept' = SenderKept /\ TargetKept' = TargetKept
         /\ SenderHeld' = SenderHeld /\ TargetHeld' = TargetHeld
         /\ SenderThere' = SenderThere /\ TargetThere' = TargetThere
         /\ Settled' = Settled
BY ZenonT(30) DEF NumbersType, SenderKept, TargetKept, SenderThere, TargetThere, Settled, Exempt,
       SenderHeld, TargetHeld, FoundSender, FoundTarget, load_seq_value

\* A number in force is replaced by the next one.
LEMMA SenderWritten ==
  ASSUME NumbersType, AtSender, UNCHANGED <<legacy, before, after, spoiled, open>>,
         disk' = [disk EXCEPT !.sender = after.sender],
         mem' = [mem EXCEPT !.sender = after.sender]
  PROVE  NumbersType' /\ AtWork'
<1>1. NumbersType'
  BY DEF NumbersType, AtSender, Pair
<1>2. /\ disk'.sender = after.sender /\ disk'.target = disk.target
      /\ mem'.sender = after.sender /\ mem'.target = mem.target
      /\ after.sender # 0 /\ after.sender \in Nat
  BY DEF NumbersType, AtSender, Pair
<1>3. SenderKept' /\ SenderThere'
  BY <1>2 DEF SenderKept, SenderThere, FoundSender, load_seq_value, Gone, Exempt
<1>4. TargetKept' /\ TargetThere'
  BY <1>2 DEF AtSender, AtWork, Settled, TargetKept, TargetThere, FoundTarget, load_seq_value,
              Exempt
<1>5. QED
  BY <1>1, <1>2, <1>3, <1>4 DEF AtSender, AtWork, Settled, load_seq_value, Gone
LEMMA TargetWritten ==
  ASSUME NumbersType, AtTarget, UNCHANGED <<legacy, before, after, spoiled, open>>,
         disk' = [disk EXCEPT !.target = after.target],
         mem' = [mem EXCEPT !.target = after.target]
  PROVE  NumbersType' /\ AtWork'
<1>1. NumbersType'
  BY DEF NumbersType, AtTarget, Pair
<1>2. /\ disk'.target = after.target /\ disk'.sender = disk.sender
      /\ mem'.target = after.target /\ mem'.sender = mem.sender
      /\ after.target # 0 /\ after.target \in Nat
  BY DEF NumbersType, AtTarget, Pair
<1>3. TargetKept' /\ TargetThere'
  BY <1>2 DEF TargetKept, TargetThere, FoundTarget, load_seq_value, Gone, Exempt
<1>4. SenderKept' /\ SenderThere'
  BY <1>2 DEF AtTarget, AtWork, Settled, SenderKept, SenderThere, FoundSender, load_seq_value,
              Exempt
<1>5. QED
  BY <1>1, <1>2, <1>3, <1>4 DEF AtTarget, AtWork, Settled, load_seq_value, Gone

LEMMA WriteSenderKeeps == NumbersInv /\ WriteSender => NumbersInv'
<1> SUFFICES ASSUME NumbersInv, WriteSender PROVE NumbersInv'
  OBVIOUS
<1>1. /\ NumbersType /\ Placed /\ UNCHANGED <<legacy, before, after, spoiled, open>>
      /\ Due("sender") /\ todo' = Tail(todo)
      /\ disk' = [disk EXCEPT !.sender = Head(todo).num]
      /\ mem' = [mem EXCEPT !.sender = Head(todo).num]
  BY DEF NumbersInv, WriteSender, Done, NotHistory
<1>2. CASE todo = Reset5 /\ AtCleared
  <2>1. /\ disk' = [disk EXCEPT !.sender = 1] /\ mem' = [mem EXCEPT !.sender = 1]
        /\ todo' = Reset4
    BY ZenonT(30), <1>1, <1>2, ResetPlaces
  <2>2. NumbersType' /\ mem' = mem /\ disk'.sender = 1 /\ disk'.target = disk.target
    BY <1>1, <1>2, <2>1 DEF NumbersType, Pair, AtCleared
  <2>3. SenderKept'
    BY <1>1, <1>2, <2>2 DEF SenderKept, FoundSender, load_seq_value, Gone, AtCleared
  <2>4. TargetHeld'
    BY <1>1, <1>2, <2>2 DEF AtCleared, TargetHeld, TargetKept, FoundTarget, Exempt
  <2>5. AtHalf'
    BY <1>1, <1>2, <2>2, <2>3, <2>4 DEF AtHalf, AtCleared, SenderHeld
  <2>6. QED BY <2>1, <2>2, <2>5 DEF NumbersInv, Placed
<1>3. CASE todo = Sender1(after.sender) /\ AtSender
  <2>1. Head(todo).num = after.sender /\ todo' = <<>>
    BY <1>1, <1>3, SavePlaces
  <2>2. NumbersType' /\ AtWork'
    BY <1>1, <1>3, <2>1, SenderWritten
  <2>3. QED BY ZenonT(30), <2>1, <2>2 DEF NumbersInv, Placed, FileAtRest, AtWork, Settled
<1>4. CASE SavingNumber /\ AtSender
  <2>1. Head(todo).num = after.sender /\ SavingHeader'
    <3>1. PICK n \in Nat, msg \in Msgs : todo = Save3(after.sender, n, msg)
      BY <1>4 DEF SavingNumber
    <3>2. Head(todo).num = after.sender /\ todo' = Save2(n, msg)
      BY <1>1, <3>1, SavePlaces
    <3>3. QED BY <3>2 DEF SavingHeader
  <2>2. NumbersType' /\ AtWork'
    BY <1>1, <1>4, <2>1, SenderWritten
  <2>3. QED BY ZenonT(30), <2>1, <2>2 DEF NumbersInv, Placed
<1>5. QED BY <1>1, <1>2, <1>3, <1>4, PlaceOf

LEMMA WriteTargetKeeps == NumbersInv /\ WriteTarget => NumbersInv'
<1> SUFFICES ASSUME NumbersInv, WriteTarget PROVE NumbersInv'
  OBVIOUS
<1>1. /\ NumbersType /\ Placed /\ UNCHANGED <<legacy, before, after, spoiled, open>>
      /\ Due("target") /\ todo' = Tail(todo)
      /\ disk' = [disk EXCEPT !.target = Head(todo).num]
      /\ mem' = [mem EXCEPT !.target = Head(todo).num]
  BY DEF NumbersInv, WriteTarget, Done, NotHistory
<1>2. CASE todo = Reset4 /\ AtHalf
  <2>1. /\ disk' = [disk EXCEPT !.target = 1] /\ mem' = [mem EXCEPT !.target = 1]
        /\ todo' = Reset3
    BY ZenonT(30), <1>1, <1>2, ResetPlaces
  <2>2. NumbersType' /\ mem' = mem /\ disk'.target = 1 /\ disk'.sender = 1
    BY <1>1, <1>2, <2>1 DEF NumbersType, Pair, AtCleared, AtHalf
  <2>3. SenderKept' /\ TargetKept' /\ SenderThere' /\ TargetThere'
    BY <1>1, <1>2, <2>2 DEF SenderKept, TargetKept, FoundSender, FoundTarget, load_seq_value,
                            Gone, AtCleared, AtHalf, SenderThere, TargetThere
  <2>4. AtWork'
    BY <1>1, <1>2, <2>2, <2>3 DEF AtHalf, AtCleared, AtWork, Settled, load_seq_value, Gone
  <2>5. QED BY <2>1, <2>2, <2>4 DEF NumbersInv, Placed
<1>3. CASE todo = Target1(after.target) /\ AtTarget
  <2>1. Head(todo).num = after.target /\ todo' = <<>>
    BY <1>1, <1>3, SavePlaces
  <2>2. NumbersType' /\ AtWork'
    BY <1>1, <1>3, <2>1, TargetWritten
  <2>3. QED BY ZenonT(30), <2>1, <2>2 DEF NumbersInv, Placed, FileAtRest, AtWork, Settled
<1>4. QED BY <1>1, <1>2, <1>3, PlaceOf

\* A file is removed, or could not be.
LEMMA RemoveKeeps ==
  ASSUME NumbersInv, RemoveSender \/ RemoveTarget
  PROVE  NumbersInv'
<1>1. /\ NumbersType /\ Placed /\ UNCHANGED <<legacy, mem, before, after, spoiled, open>>
      /\ todo' = Tail(todo)
  BY DEF NumbersInv, RemoveSender, RemoveTarget, Done, NotHistory
<1>2. CASE RemoveSender
  <2>1. /\ todo = Reset7 /\ AtCleared /\ todo' = Reset6
        /\ disk' = [disk EXCEPT !.sender = Gone]
    BY <1>1, <1>2, PlaceOf, ResetPlaces DEF RemoveSender
  <2>2. NumbersType' /\ disk'.sender = Gone /\ disk'.target = disk.target
    BY <1>1, <2>1 DEF NumbersType, Gone
  <2>3. SenderHeld'
    BY <1>1, <2>1, <2>2 DEF SenderHeld, SenderKept, FoundSender, load_seq_value, AtCleared
  <2>4. TargetHeld'
    BY <1>1, <2>1, <2>2 DEF AtCleared, TargetHeld, TargetKept, FoundTarget, Exempt
  <2>5. QED BY <1>1, <2>1, <2>2, <2>3, <2>4 DEF NumbersInv, Placed, AtCleared
<1>3. CASE RemoveTarget
  <2>1. /\ todo = Reset6 /\ AtCleared /\ todo' = Reset5
        /\ disk' = [disk EXCEPT !.target = Gone]
    BY <1>1, <1>3, PlaceOf, ResetPlaces DEF RemoveTarget
  <2>2. NumbersType' /\ disk'.target = Gone /\ disk'.sender = disk.sender
    BY <1>1, <2>1 DEF NumbersType, Gone
  <2>3. TargetHeld'
    BY <1>1, <2>1, <2>2 DEF TargetHeld, TargetKept, FoundTarget, load_seq_value, AtCleared
  <2>4. SenderHeld'
    BY <1>1, <2>1, <2>2 DEF AtCleared, SenderHeld, SenderKept, FoundSender, Exempt
  <2>5. QED BY <1>1, <2>1, <2>2, <2>3, <2>4 DEF NumbersInv, Placed, AtCleared
<1>4. QED BY <1>2, <1>3
\* The calls that touch no number.
LEMMA OtherCallsKeep ==
  ASSUME NumbersInv, AppendHeader \/ AppendBody \/ ClearCache \/ CutBorn
  PROVE  NumbersInv'
<1>1. /\ NumbersType /\ Placed /\ UNCHANGED <<legacy, mem, before, after, spoiled, open>>
      /\ todo' = Tail(todo)
  BY DEF NumbersInv, AppendHeader, AppendBody, ClearCache, CutBorn, Done, NotHistory
<1>2. /\ disk'.sender = disk.sender /\ disk'.target = disk.target
      /\ disk' = [sender |-> disk'.sender, target |-> disk'.target, body |-> disk'.body,
                  born |-> disk'.born]
  BY <1>1 DEF NumbersType, AppendHeader, AppendBody, ClearCache, CutBorn
<1>3. NumbersType' /\ Settled' = Settled
  BY <1>1, <1>2, SameNumbers
<1>4. CASE AppendHeader
  <2>1. AtWork /\ SavingBody'
    BY <1>1, <1>4, PlaceOf, SavePlaces DEF AppendHeader, SavingHeader, SavingBody
  <2>2. QED BY ZenonT(30), <1>1, <1>3, <2>1 DEF NumbersInv, Placed, AtWork
<1>5. CASE AppendBody
  <2>1. AtWork /\ todo' = <<>>
    BY <1>1, <1>5, PlaceOf, SavePlaces DEF AppendBody, SavingBody
  <2>2. QED BY ZenonT(30), <1>1, <1>3, <2>1 DEF NumbersInv, Placed, AtWork, FileAtRest, Settled
<1>6. CASE ClearCache
  <2>1. AtWork /\ todo' = Writing2
    BY ZenonT(30), <1>1, <1>6, PlaceOf, ResetPlaces DEF ClearCache
  <2>2. QED BY ZenonT(30), <1>1, <1>3, <2>1 DEF NumbersInv, Placed, AtWork
<1>7. CASE CutBorn
  <2>1. Settled /\ todo' = Writing1
    BY <1>1, <1>7, PlaceOf, ResetPlaces DEF CutBorn
  <2>2. QED BY ZenonT(30), <1>1, <1>3, <2>1 DEF NumbersInv, Placed
<1>8. QED BY <1>4, <1>5, <1>6, <1>7

\* The creation time decides whether the store is open.
LEMMA BornKeeps ==
  ASSUME NumbersInv, ReadBorn \/ WriteBorn
  PROVE  NumbersInv'
<1>1. /\ NumbersType /\ Placed /\ UNCHANGED <<legacy, mem, before, after, spoiled>>
      /\ open' \in BOOLEAN
  BY ZenonT(30) DEF NumbersInv, ReadBorn, WriteBorn, NotHistory
<1>2. ASSUME ReadBorn PROVE todo' \in {Writing2, <<>>}
  BY <1>2 DEF ReadBorn, Writing2
<1>3. ASSUME WriteBorn PROVE todo' \in {Writing2, <<>>}
  BY <1>1, <1>3, PlaceOf, ResetPlaces DEF WriteBorn, Done
<1>4. /\ NumbersType /\ Placed /\ UNCHANGED <<legacy, mem, before, after, spoiled>>
      /\ open' \in BOOLEAN /\ todo' \in {Writing2, <<>>}
  BY <1>1, <1>2, <1>3
<1>5. Settled
  BY <1>4, PlaceOf DEF ReadBorn, WriteBorn, AtReadBorn
<1>6. /\ disk'.sender = disk.sender /\ disk'.target = disk.target
      /\ disk' = [sender |-> disk'.sender, target |-> disk'.target, body |-> disk'.body,
                  born |-> disk'.born]
  BY <1>4 DEF NumbersType, ReadBorn, WriteBorn
<1>7. NumbersType'
  BY ZenonT(30), <1>4, <1>6 DEF NumbersType
<1>8. Settled'
  BY ZenonT(30), <1>4, <1>5, <1>6 DEF Settled, SenderKept, TargetKept, SenderThere, TargetThere, Exempt,
                          FoundSender, FoundTarget
<1>9. QED BY ZenonT(30), <1>4, <1>7, <1>8 DEF NumbersInv, Placed, FileAtRest, Settled

\* BodyLog::reset succeeded: from here the new numbers are 1.
LEMMA TruncateKeeps == NumbersInv /\ Truncate => NumbersInv'
<1> SUFFICES ASSUME NumbersInv, Truncate PROVE NumbersInv'
  OBVIOUS
<1>1. /\ NumbersType /\ UNCHANGED <<legacy, before, after, spoiled, open>>
      /\ AtReset /\ todo' = Reset7 /\ mem' = [sender |-> 1, target |-> 1]
      /\ disk' = [disk EXCEPT !.body = <<>>]
  BY PlaceOf, ResetPlaces DEF NumbersInv, Truncate, Done, NotHistory
<1>2. NumbersType' /\ disk'.sender = disk.sender /\ disk'.target = disk.target
  BY <1>1 DEF NumbersType, Pair
<1>3. SenderHeld' /\ TargetHeld'
  BY <1>1, <1>2 DEF AtReset, AtWork, Settled, SenderHeld, TargetHeld, SenderKept, TargetKept,
                    FoundSender, FoundTarget, Exempt
<1>4. QED BY <1>1, <1>2, <1>3 DEF NumbersInv, Placed, AtCleared, AtReset, AtWork

\* The old file is used where a new one is missing.
LEMMA MigrateKeeps ==
  ASSUME NumbersInv, MigrateSender \/ MigrateTarget
  PROVE  NumbersInv'
<1>1. /\ NumbersType /\ Placed /\ UNCHANGED <<legacy, mem, before, after, spoiled, open>>
      /\ todo' = Tail(todo)
  BY DEF NumbersInv, MigrateSender, MigrateTarget, Done, NotHistory
<1>2. legacy # NoFile => legacy[1] \in Nat \ {0} /\ legacy[2] \in Nat \ {0}
  BY <1>1, FileStoreAssumption DEF NumbersType, Numbers
<1>3. CASE MigrateSender
  <2>1. AtOpening /\ todo' = Open3
    BY <1>1, <1>3, PlaceOf, OpenPlaces DEF MigrateSender
  <2>2. /\ NumbersType' /\ disk'.target = disk.target
        /\ disk'.sender = IF disk.sender = Gone /\ legacy # NoFile THEN legacy[1]
                          ELSE disk.sender
    BY <1>1, <1>2, <1>3 DEF NumbersType, MigrateSender
  <2>3. SenderKept' /\ SenderThere'
    BY ZenonT(30), <1>1, <1>2, <2>1, <2>2 DEF AtOpening, SenderKept, SenderThere, FoundSender, Exempt, Gone
  <2>4. TargetKept'
    BY ZenonT(30), <1>1, <2>1, <2>2 DEF AtOpening, TargetKept, FoundTarget, Exempt
  <2>5. QED BY ZenonT(30), <1>1, <2>1, <2>2, <2>3, <2>4 DEF NumbersInv, Placed, AtMigrateTarget, AtOpening
<1>4. CASE MigrateTarget
  <2>1. AtMigrateTarget /\ todo' = Open2
    BY <1>1, <1>4, PlaceOf, OpenPlaces DEF MigrateTarget
  <2>2. /\ NumbersType' /\ disk'.sender = disk.sender
        /\ disk'.target = IF disk.target = Gone /\ legacy # NoFile THEN legacy[2]
                          ELSE disk.target
    BY <1>1, <1>2, <1>4 DEF NumbersType, MigrateTarget
  <2>3. TargetKept' /\ TargetThere'
    BY ZenonT(30), <1>1, <1>2, <2>1, <2>2
       DEF AtMigrateTarget, AtOpening, TargetKept, TargetThere, FoundTarget, Exempt, Gone
  <2>4. SenderKept' /\ SenderThere'
    BY ZenonT(30), <1>1, <2>1, <2>2
       DEF AtMigrateTarget, AtOpening, SenderKept, SenderThere, FoundSender, Exempt
  <2>5. QED BY ZenonT(30), <1>1, <2>1, <2>2, <2>3, <2>4
            DEF NumbersInv, Placed, AtLoad, AtMigrateTarget, AtOpening
<1>5. QED BY <1>3, <1>4

LEMMA LoadKeeps == NumbersInv /\ Load => NumbersInv'
<1> SUFFICES ASSUME NumbersInv, Load PROVE NumbersInv'
  OBVIOUS
<1>1. /\ NumbersType /\ UNCHANGED <<legacy, before, after, spoiled, open>>
      /\ AtLoad /\ todo' = Open1
      /\ mem' = [sender |-> load_seq_value(disk.sender), target |-> load_seq_value(disk.target)]
      /\ disk' = [disk EXCEPT !.body = SubSeq(@, 1, CleanLen(disk.body))]
  BY PlaceOf, OpenPlaces DEF NumbersInv, Load, Done, NotHistory
<1>2. disk'.sender = disk.sender /\ disk'.target = disk.target
  BY <1>1 DEF NumbersType
<1>3. NumbersType'
  <2>1. mem' \in Pair /\ mem'.sender # 0 /\ mem'.target # 0
    BY <1>1 DEF NumbersType, Pair, load_seq_value, Gone
  <2>2. disk' = [sender |-> disk'.sender, target |-> disk'.target, body |-> disk'.body,
                 born |-> disk'.born]
    BY ZenonT(30), <1>1 DEF NumbersType
  <2>3. QED BY <1>1, <1>2, <2>1, <2>2 DEF NumbersType
<1>4. SenderKept' /\ TargetKept' /\ SenderThere' /\ TargetThere'
  BY <1>1, <1>2 DEF AtLoad, AtMigrateTarget, AtOpening, SenderKept, TargetKept, SenderThere,
                    TargetThere, FoundSender, FoundTarget, Exempt
<1>5. QED BY <1>1, <1>2, <1>3, <1>4
          DEF NumbersInv, Placed, AtReadBorn, Settled, AtLoad, AtMigrateTarget, AtOpening

\* Nothing to do is a place of its own.
LEMMA NotBegun ==
  ASSUME Placed, todo = <<>>
  PROVE  FileAtRest
<1>1. ~SavingBody /\ ~SavingHeader /\ ~SavingNumber
  BY SavePlaces DEF SavingBody, SavingHeader, SavingNumber
<1>2. todo # Sender1(after.sender) /\ todo # Target1(after.target)
  BY SavePlaces
<1>3. QED BY <1>1, <1>2, ResetPlaces, OpenPlaces DEF Placed

LEMMA NewPair ==
  ASSUME NEW p \in Pair, NEW v \in Numbers
  PROVE  /\ [p EXCEPT !.sender = v] \in Pair /\ [p EXCEPT !.sender = v].sender = v
         /\ [p EXCEPT !.target = v] \in Pair /\ [p EXCEPT !.target = v].target = v
         /\ v # 0
<1>1. v \in Nat /\ v # 0
  BY FileStoreAssumption DEF Numbers
<1>2. QED BY <1>1 DEF Pair

\* An operation begins: what is in force becomes the old value.
LEMMA BeginSettled ==
  ASSUME NumbersInv, open, todo = <<>>, UNCHANGED <<legacy, disk, mem, open, spoiled>>,
         before' = mem, after' \in Pair
  PROVE  NumbersType' /\ AtWork' /\ mem' = mem
<1>1. NumbersType /\ FileAtRest
  BY NotBegun DEF NumbersInv
<1>2. NumbersType'
  BY ZenonT(30), <1>1 DEF NumbersType
<1>3. Settled
  BY <1>1 DEF FileAtRest
<1>4. SenderKept'
  BY ZenonT(30), <1>1, <1>3 DEF Settled, SenderKept, SenderThere, FoundSender, Exempt
<1>5. TargetKept'
  BY <1>1, <1>3 DEF Settled, TargetKept, TargetThere, FoundTarget, Exempt
<1>6. SenderThere' /\ TargetThere'
  BY ZenonT(30), <1>3 DEF Settled, SenderThere, TargetThere, Exempt
<1>7. QED BY ZenonT(30), <1>2, <1>3, <1>4, <1>5, <1>6 DEF AtWork, Settled

LEMMA BeginsKeep ==
  ASSUME NumbersInv,
         \/ \E v \in {mem.sender, mem.sender + 1} \cap Numbers : set_next_sender_seq(v)
         \/ \E v \in {mem.target, mem.target + 1} \cap Numbers : set_next_target_seq(v)
         \/ \E n \in {mem.sender, mem.sender + 1} \cap 1..MaxSeq, msg \in Msgs :
              save_and_advance_sender(n, msg)
         \/ \E n \in 1..(mem.sender - 1), msg \in Msgs : save(n, msg)
         \/ reset
  PROVE  NumbersInv'
<1>0. NumbersType
  BY DEF NumbersInv
<1>1. ASSUME NEW v \in Numbers, set_next_sender_seq(v) PROVE NumbersInv'
  <2>1. /\ open /\ todo = <<>> /\ UNCHANGED <<legacy, disk, mem, open, spoiled>>
        /\ before' = mem /\ after' = [mem EXCEPT !.sender = v] /\ todo' = Sender1(v)
    BY <1>1 DEF set_next_sender_seq, Begin, Sender1
  <2>2. after' \in Pair /\ after'.sender = v /\ v # 0
    BY ZenonT(30), <1>0, <2>1, NewPair DEF NumbersType
  <2>3. NumbersType' /\ AtWork' /\ mem' = mem
    BY <2>1, <2>2, BeginSettled
  <2>4. QED BY <2>1, <2>2, <2>3 DEF NumbersInv, Placed, AtSender
<1>2. ASSUME NEW v \in Numbers, set_next_target_seq(v) PROVE NumbersInv'
  <2>1. /\ open /\ todo = <<>> /\ UNCHANGED <<legacy, disk, mem, open, spoiled>>
        /\ before' = mem /\ after' = [mem EXCEPT !.target = v] /\ todo' = Target1(v)
    BY <1>2 DEF set_next_target_seq, Begin, Target1
  <2>2. after' \in Pair /\ after'.target = v /\ v # 0
    BY ZenonT(30), <1>0, <2>1, NewPair DEF NumbersType
  <2>3. NumbersType' /\ AtWork' /\ mem' = mem
    BY <2>1, <2>2, BeginSettled
  <2>4. QED BY <2>1, <2>2, <2>3 DEF NumbersInv, Placed, AtTarget
<1>3. ASSUME NEW n \in 1..MaxSeq, NEW msg \in Msgs, save_and_advance_sender(n, msg)
      PROVE  NumbersInv'
  <2>1. /\ open /\ todo = <<>> /\ UNCHANGED <<legacy, disk, mem, open, spoiled>>
        /\ before' = mem /\ after' = [mem EXCEPT !.sender = n + 1]
        /\ todo' = Save3(n + 1, n, msg)
    BY <1>3 DEF save_and_advance_sender, Begin, Save3
  <2>2. after' \in Pair /\ after'.sender = n + 1 /\ n + 1 # 0
    <3>1. n + 1 \in Numbers
      BY FileStoreAssumption DEF Numbers
    <3>2. QED BY ZenonT(30), <1>0, <2>1, <3>1, NewPair DEF NumbersType
  <2>3. NumbersType' /\ AtWork' /\ mem' = mem
    BY <2>1, <2>2, BeginSettled
  <2>4. SavingNumber'
    BY <2>1, <2>2 DEF SavingNumber
  <2>5. QED BY <2>1, <2>2, <2>3, <2>4 DEF NumbersInv, Placed, AtSender
<1>4. ASSUME NEW n \in Nat, NEW msg \in Msgs, save(n, msg) PROVE NumbersInv'
  <2>1. /\ open /\ todo = <<>> /\ UNCHANGED <<legacy, disk, mem, open, spoiled>>
        /\ before' = mem /\ after' = mem /\ todo' = Save2(n, msg)
    BY ZenonT(30), <1>4 DEF save, Begin, Save2
  <2>2. NumbersType' /\ AtWork'
    BY ZenonT(30), <1>0, <2>1, BeginSettled DEF NumbersType
  <2>3. SavingHeader'
    BY <2>1 DEF SavingHeader
  <2>4. QED BY ZenonT(30), <2>2, <2>3 DEF NumbersInv, Placed
<1>5. ASSUME reset PROVE NumbersInv'
  <2>1. /\ open /\ todo = <<>> /\ UNCHANGED <<legacy, disk, mem, open, spoiled>>
        /\ before' = mem /\ after' = [sender |-> 1, target |-> 1] /\ todo' = Reset8
    BY ZenonT(30), <1>5 DEF reset, Begin, Reset8
  <2>2. NumbersType' /\ AtWork' /\ mem' = mem
    BY <2>1, BeginSettled DEF Pair
  <2>3. QED BY ZenonT(30), <2>1, <2>2 DEF NumbersInv, Placed, AtReset
<1>6. QED BY <1>1, <1>2, <1>3, <1>4, <1>5

-----------------------------------------------------------------------------
(***************************************************************************)
(* Errors and crashes: what was kept stays kept when more is exempt.       *)
(***************************************************************************)
LEMMA SpoiledGrows ==
  ASSUME NumbersType, UNCHANGED <<legacy, disk, mem, before, after>>,
         open' \in BOOLEAN, spoiled \subseteq spoiled'
  PROVE  /\ NumbersType'
         /\ SenderKept => SenderKept'
         /\ TargetKept => TargetKept'
         /\ SenderHeld => SenderHeld'
         /\ TargetHeld => TargetHeld'
         /\ Settled => Settled'
<1>1. Exempt => Exempt'
  BY DEF Exempt
<1>2. NumbersType'
  BY DEF NumbersType
<1>3. FoundSender' = FoundSender /\ FoundTarget' = FoundTarget
  BY DEF FoundSender, FoundTarget, load_seq_value
<1>4. (SenderKept => SenderKept') /\ (TargetKept => TargetKept')
  BY ZenonT(30), <1>1, <1>3 DEF SenderKept, TargetKept
<1>5. (SenderHeld => SenderHeld') /\ (TargetHeld => TargetHeld')
  BY ZenonT(30), <1>4 DEF SenderHeld, TargetHeld
<1>6. (SenderThere => SenderThere') /\ (TargetThere => TargetThere')
  BY <1>1 DEF SenderThere, TargetThere
<1>7. Settled => Settled'
  BY <1>4, <1>6 DEF Settled, load_seq_value
<1>8. QED BY <1>2, <1>4, <1>5, <1>7

\* Only a reset that has begun leaves a number without a value to find, and only
\* it has memory and files disagree.
LEMMA PlacesKeep ==
  ASSUME Placed
  PROVE  \/ SenderKept /\ TargetKept /\ (open => Settled)
         \/ AtCleared /\ todo \in {Reset4, Reset5, Reset6, Reset7}
                      /\ (todo = Reset4 => disk.sender = 1)
<1>1. AtOpening => SenderKept /\ TargetKept /\ ~open
  BY DEF AtOpening
<1>2. Settled => SenderKept /\ TargetKept
  BY DEF Settled
<1>3. /\ (AtMigrateTarget => AtOpening) /\ (AtLoad => AtOpening)
      /\ (AtReadBorn => Settled) /\ (AtWork => Settled) /\ (AtReset => Settled)
      /\ (AtSender => Settled) /\ (AtTarget => Settled)
      /\ (AtHalf => AtCleared /\ disk.sender = 1)
  BY DEF AtMigrateTarget, AtLoad, AtReadBorn, AtWork, AtReset, AtSender, AtTarget, AtHalf
<1>4. FileAtRest => SenderKept /\ TargetKept /\ (open => Settled)
  BY DEF FileAtRest
<1>5. Reset5 # Reset4 /\ Reset6 # Reset4 /\ Reset7 # Reset4
  BY ResetPlaces
<1>6. QED BY <1>1, <1>2, <1>3, <1>4, <1>5 DEF Placed

\* A number that is not kept has no file, and that is noted when the reset ends.
LEMMA MissingIsNoted ==
  ASSUME NumbersType, AtCleared, todo # <<>>, NEW s,
         NumberMissing => "numbers" \in s, spoiled \subseteq s,
         UNCHANGED <<legacy, disk, mem, before, after>>, open' \in BOOLEAN, spoiled' = s
  PROVE  SenderKept' /\ TargetKept'
<1>1. open /\ SenderHeld /\ TargetHeld
  BY DEF AtCleared
<1>2. (SenderKept => SenderKept') /\ (TargetKept => TargetKept')
  BY SpoiledGrows
<1>3. ASSUME ~SenderKept PROVE Exempt'
  BY <1>1, <1>3 DEF SenderHeld, NumberMissing, Exempt
<1>4. ASSUME ~TargetKept PROVE Exempt'
  BY <1>1, <1>4 DEF TargetHeld, NumberMissing, Exempt
<1>5. QED BY ZenonT(30), <1>2, <1>3, <1>4 DEF SenderKept, TargetKept

LEMMA FileCrashKeeps == NumbersInv /\ Crash => NumbersInv'
<1> SUFFICES ASSUME NumbersInv, Crash PROVE NumbersInv'
  OBVIOUS
<1>1. /\ NumbersType /\ Placed /\ UNCHANGED <<legacy, disk, mem, before, after>>
      /\ open' = FALSE /\ todo' = <<>> /\ spoiled \subseteq spoiled'
      /\ NumberMissing => "numbers" \in spoiled'
  BY DEF NumbersInv, Crash
<1>2. /\ NumbersType' /\ (SenderKept => SenderKept') /\ (TargetKept => TargetKept')
  BY ZenonT(30), <1>1, SpoiledGrows
<1>3. SenderKept' /\ TargetKept'
  <2>1. CASE AtCleared /\ todo \in {Reset4, Reset5, Reset6, Reset7}
    <3>1. todo # <<>>
      BY ZenonT(30), <2>1, ResetPlaces
    <3>2. QED BY ZenonT(30), <1>1, <2>1, <3>1, MissingIsNoted
  <2>2. QED BY <1>1, <1>2, <2>1, PlacesKeep
<1>4. QED BY ZenonT(30), <1>1, <1>2, <1>3 DEF NumbersInv, Placed, FileAtRest

LEMMA FileFailKeeps == NumbersInv /\ Fail => NumbersInv'
<1> SUFFICES ASSUME NumbersInv, Fail PROVE NumbersInv'
  OBVIOUS
<1>1. /\ NumbersType /\ Placed /\ UNCHANGED <<legacy, disk, mem, before, after, open>>
      /\ todo # <<>> /\ spoiled \subseteq spoiled'
      /\ NumberMissing => "numbers" \in spoiled'
      /\ FileStuck => "stuck" \in spoiled'
      /\ todo' = IF CallOf(todo) \in {"rm_sender", "rm_target"} THEN Tail(todo) ELSE <<>>
  BY DEF NumbersInv, Fail, CallOf
<1>2. open' \in BOOLEAN
  BY <1>1 DEF NumbersType
<1>3. /\ NumbersType'
      /\ SenderKept => SenderKept'
      /\ TargetKept => TargetKept'
      /\ SenderHeld => SenderHeld'
      /\ TargetHeld => TargetHeld'
      /\ Settled => Settled'
  BY <1>1, <1>2, SpoiledGrows
<1>4. CASE todo \in {Reset6, Reset7} /\ AtCleared
  <2>1. todo' \in {Reset5, Reset6}
    <3>1. CASE todo = Reset6
      BY ZenonT(30), <1>1, <3>1, Calls, ResetPlaces
    <3>2. CASE todo = Reset7
      BY ZenonT(30), <1>1, <3>2, Calls, ResetPlaces
    <3>3. QED BY <1>4, <3>1, <3>2
  <2>2. AtCleared'
    BY <1>1, <1>3, <1>4 DEF AtCleared
  <2>3. QED BY ZenonT(30), <1>3, <2>1, <2>2 DEF NumbersInv, Placed
<1>5. CASE todo \in {Reset4, Reset5} /\ AtCleared /\ (todo = Reset4 => disk.sender = 1)
  <2>1. todo' = <<>>
    BY ZenonT(30), <1>1, <1>5, Calls
  <2>2. SenderKept' /\ TargetKept'
    BY <1>1, <1>2, <1>5, MissingIsNoted
  <2>3. Settled'
    <3>1. CASE "stuck" \in spoiled'
      BY <2>2, <3>1 DEF Settled, SenderThere, TargetThere, Exempt
    <3>2. CASE "stuck" \notin spoiled'
      <4>1. \E i \in DOMAIN todo : todo[i].do = "clear"
        <5>1. CASE todo = Reset4
          <6>1. 2 \in DOMAIN todo /\ todo[2].do = "clear"
            BY <5>1 DEF Reset4, Do
          <6>2. QED BY <6>1
        <5>2. CASE todo = Reset5
          <6>1. 3 \in DOMAIN todo /\ todo[3].do = "clear"
            BY <5>2 DEF Reset5, Do
          <6>2. QED BY <6>1
        <5>3. QED BY <1>5, <5>1, <5>2
      <4>2. disk.target = Gone /\ (disk.sender = Gone \/ todo = Reset4)
        BY <1>1, <1>5, <3>2, <4>1, ResetPlaces DEF FileStuck
      <4>3. open /\ mem = [sender |-> 1, target |-> 1]
        BY <1>5 DEF AtCleared
      <4>4. "numbers" \in spoiled'
        BY ZenonT(30), <1>1, <4>2, <4>3 DEF NumberMissing
      <4>5. load_seq_value(disk.sender) = 1 /\ load_seq_value(disk.target) = 1
        BY <1>5, <4>2 DEF load_seq_value, Gone
      <4>6. QED BY ZenonT(30), <1>1, <2>2, <4>3, <4>4, <4>5 DEF Settled, SenderThere, TargetThere, Exempt
    <3>3. QED BY <3>1, <3>2
  <2>4. QED BY ZenonT(30), <1>3, <2>1, <2>2, <2>3 DEF NumbersInv, Placed, FileAtRest
<1>6. CASE SenderKept /\ TargetKept /\ (open => Settled) /\ todo' = <<>>
  BY ZenonT(30), <1>1, <1>3, <1>6 DEF NumbersInv, Placed, FileAtRest
<1>7. CallOf(todo) \in {"rm_sender", "rm_target"} => todo \in {Reset6, Reset7} /\ AtCleared
  BY ZenonT(30), <1>1, PlaceOf DEF Due, CallOf
<1>8. QED BY <1>1, <1>4, <1>5, <1>6, <1>7, PlacesKeep

-----------------------------------------------------------------------------
LEMMA OpenKeeps == NumbersInv /\ open_with_options => NumbersInv'
<1> SUFFICES ASSUME NumbersInv, open_with_options PROVE NumbersInv'
  OBVIOUS
<1>1. /\ NumbersType /\ Placed /\ todo = <<>> /\ ~open /\ todo' = Open4
      /\ UNCHANGED <<legacy, disk, mem, open, before, after, spoiled>>
  BY DEF NumbersInv, open_with_options, Open4
<1>2. FileAtRest
  BY <1>1, NotBegun
<1>3. NumbersType' /\ (SenderKept => SenderKept') /\ (TargetKept => TargetKept')
  <2>1. open' \in BOOLEAN
    BY <1>1 DEF NumbersType
  <2>2. QED BY <1>1, <2>1, SpoiledGrows
<1>4. QED BY ZenonT(30), <1>1, <1>2, <1>3 DEF NumbersInv, Placed, FileAtRest, AtOpening

\* get, and a step that changes nothing.
LEMMA ReadsKeep ==
  ASSUME NumbersInv, UNCHANGED <<legacy, disk, mem, todo, open, before, after, spoiled>>
  PROVE  NumbersInv'
<1>1. /\ NumbersType'
      /\ SenderKept' = SenderKept /\ TargetKept' = TargetKept
      /\ SenderHeld' = SenderHeld /\ TargetHeld' = TargetHeld
      /\ SenderThere' = SenderThere /\ TargetThere' = TargetThere
      /\ Settled' = Settled
  BY ZenonT(30), SameNumbers DEF NumbersInv, NumbersType
<1>2. /\ FileAtRest' = FileAtRest /\ AtOpening' = AtOpening /\ AtMigrateTarget' = AtMigrateTarget
      /\ AtLoad' = AtLoad /\ AtReadBorn' = AtReadBorn /\ AtWork' = AtWork
  BY ZenonT(30), <1>1 DEF FileAtRest, AtOpening, AtMigrateTarget, AtLoad, AtReadBorn, AtWork
<1>3. /\ AtReset' = AtReset /\ AtCleared' = AtCleared /\ AtHalf' = AtHalf
      /\ AtSender' = AtSender /\ AtTarget' = AtTarget
  BY <1>1, <1>2 DEF AtReset, AtCleared, AtHalf, AtSender, AtTarget
<1>4. /\ SavingBody' = SavingBody /\ SavingHeader' = SavingHeader
      /\ SavingNumber' = SavingNumber
  BY DEF SavingBody, SavingHeader, SavingNumber
<1>5. QED BY ZenonT(30), <1>1, <1>2, <1>3, <1>4 DEF NumbersInv, Placed

LEMMA NumbersInit == Init => NumbersInv
<1> SUFFICES ASSUME Init PROVE NumbersInv
  OBVIOUS
<1>1. legacy = NoFile \/ legacy \in Numbers \X Numbers
  BY ZenonT(30), FileStoreAssumption DEF Init
<1>2. before \in Pair /\ after = before
  <2>1. CASE legacy = NoFile
    BY ZenonT(30), <2>1 DEF Init, Pair
  <2>2. CASE legacy # NoFile
    BY <1>1, <2>2, FileStoreAssumption DEF Init, Pair, Numbers
  <2>3. QED BY <2>1, <2>2
<1>3. NumbersType
  <2>1. mem \in Pair /\ mem.sender # 0 /\ mem.target # 0 /\ ~open
    <3>1. mem = [sender |-> 1, target |-> 1] /\ ~open
      BY ZenonT(30) DEF Init
    <3>2. QED BY <3>1 DEF Pair
  <2>2. open \in BOOLEAN
    BY ZenonT(30) DEF Init
  <2>3. /\ disk = [sender |-> disk.sender, target |-> disk.target, body |-> disk.body,
                   born |-> disk.born]
        /\ disk.sender \in Nat /\ disk.target \in Nat
    BY ZenonT(30) DEF Init, Gone
  <2>4. QED BY <1>1, <1>2, <2>1, <2>2, <2>3 DEF NumbersType
<1>4. SenderKept /\ TargetKept
  <2>1. CASE legacy = NoFile
    BY ZenonT(30), <2>1 DEF Init, SenderKept, TargetKept, FoundSender, FoundTarget, load_seq_value, Gone
  <2>2. CASE legacy # NoFile
    <3>1. legacy[1] # Gone /\ legacy[2] # Gone
      BY <1>1, <2>2, FileStoreAssumption DEF Numbers, Gone
    <3>2. QED BY ZenonT(30), <2>2, <3>1
              DEF Init, SenderKept, TargetKept, FoundSender, FoundTarget, load_seq_value
  <2>3. QED BY <2>1, <2>2
<1>5. QED BY ZenonT(30), <1>3, <1>4 DEF NumbersInv, Placed, FileAtRest, Init

LEMMA NumbersStep == NumbersInv /\ [Next]_vars => NumbersInv'
<1> SUFFICES ASSUME NumbersInv, [Next]_vars PROVE NumbersInv'
  OBVIOUS
<1>1. CASE UNCHANGED vars
  BY <1>1, ReadsKeep DEF vars
<1>2. ASSUME NEW begin \in 1..MaxSeq, NEW end \in 1..MaxSeq, get(begin, end)
      PROVE  NumbersInv'
  BY ZenonT(30), <1>2, ReadsKeep DEF get
<1>3. QED BY ZenonT(30), <1>1, <1>2, BeginsKeep, OpenKeeps, WriteSenderKeeps, WriteTargetKeeps,
             OtherCallsKeep, TruncateKeeps, RemoveKeeps, MigrateKeeps, LoadKeeps,
             BornKeeps, FileCrashKeeps, FileFailKeeps
          DEF Next

LEMMA NumbersFollow == NumbersInv => NumbersKept
<1> SUFFICES ASSUME NumbersInv, Idle PROVE OldOrNewNumber /\ RuntimeIsDurable
  BY ZenonT(30) DEF NumbersKept, OldOrNewNumber, RuntimeIsDurable
<1>1. NumbersType /\ Settled
  BY NotBegun DEF Idle, NumbersInv, FileAtRest
<1>2. RuntimeIsDurable
  BY <1>1 DEF RuntimeIsDurable, Settled
<1>3. ASSUME ~Exempt PROVE OldOrNewNumber
  <2>1. /\ mem.sender = load_seq_value(disk.sender)
        /\ mem.target = load_seq_value(disk.target)
    BY ZenonT(30), <1>1, <1>3 DEF Settled, Exempt
  <2>2. /\ FoundSender = load_seq_value(disk.sender)
        /\ FoundTarget = load_seq_value(disk.target)
    BY ZenonT(30), <1>1, <1>3 DEF Settled, SenderThere, TargetThere, FoundSender, FoundTarget
  <2>3. /\ FoundSender \in {before.sender, after.sender}
        /\ FoundTarget \in {before.target, after.target}
    BY <1>1, <1>3 DEF Settled, SenderKept, TargetKept
  <2>4. QED BY ZenonT(30), <2>1, <2>2, <2>3 DEF OldOrNewNumber
<1>4. Exempt => OldOrNewNumber
  BY DEF Exempt, OldOrNewNumber
<1>5. QED BY <1>2, <1>3, <1>4

\* However often the process dies or a file-system call fails, between any two
\* calls of any operation of file.rs (set_next_*, save, save_and_advance_sender,
\* reset, open_with_options), a store that is open again has each number at its
\* old or at its new value, and the numbers in memory are those in the files:
\* the two exceptions are resets cut short in a way the definitions name.
THEOREM NumbersSurvive == Spec => []NumbersKept
<1>1. QED BY NumbersInit, NumbersStep, NumbersFollow, PTL DEF Spec
=============================================================================
