------------------------------ MODULE MCStores ------------------------------
(***************************************************************************)
(* Model checking of what the engine keeps: in one run the file store      *)
(* (FileStore), the stores on a database (DbStore) and the logs (LogSink). *)
(* `part' says which one a behaviour is about; the variables of the others *)
(* keep their initial values.                                              *)
(***************************************************************************)
EXTENDS FileStore, DbStore, LogSink, TLC

CONSTANT Parts   \* the components considered

VARIABLE part

storeVars == <<part, vars, DbVars, LogVars>>

\* The file store may find a `seqnums' file of an old version.
NoOrOldSeqnums == {NoFile, <<2, 3>>}
NoSeqnums == {NoFile}

\* Message bodies are only stored and compared.
BodySymmetry == Permutations(Msgs)

\* Session a sends and receives, session b shares its tables.
MCMaxOutOf == [s \in DbSids |-> IF s = "a" THEN 2 ELSE 1]
MCMaxInOf == [s \in DbSids |-> IF s = "a" THEN 1 ELSE 0]

NoPolicy == [max |-> 0, gens |-> 0, roll |-> 0, beats |-> TRUE]
MCPolicies ==
  {NoPolicy, [NoPolicy EXCEPT !.beats = FALSE],
   [NoPolicy EXCEPT !.max = 2], [NoPolicy EXCEPT !.max = 1, !.gens = 2],
   [NoPolicy EXCEPT !.roll = 1], [NoPolicy EXCEPT !.roll = 1, !.gens = 1]}

MCInit ==
  /\ part \in Parts
  /\ \/ part = "file"
     \/ part # "file" /\ legacy = NoFile
  /\ \/ part = "database"
     \/ part # "database" /\ backend = "memory"
  /\ \/ part = "log"
     \/ part # "log" /\ lkind = "sql" /\ policy = NoPolicy
  /\ Init /\ DbInit /\ LogInit

F == part = "file" /\ UNCHANGED <<part, DbVars, LogVars>>
D == part = "database" /\ UNCHANGED <<part, vars, LogVars>>
L == part = "log" /\ UNCHANGED <<part, vars, DbVars>>

MCNext ==
  \/ F /\ \E v \in {mem.sender, mem.sender + 1} \cap Numbers : set_next_sender_seq(v)
  \/ F /\ \E v \in {mem.target, mem.target + 1} \cap Numbers : set_next_target_seq(v)
  \/ F /\ \E n \in {mem.sender, mem.sender + 1} \cap 1..MaxSeq, msg \in Msgs :
            save_and_advance_sender(n, msg)
  \/ F /\ \E n \in 1..(mem.sender - 1), msg \in Msgs : save(n, msg)
  \/ F /\ reset
  \/ F /\ \E begin \in 1..MaxSeq, end \in 1..MaxSeq : get(begin, end)
  \/ F /\ open_with_options
  \/ F /\ WriteSender
  \/ F /\ WriteTarget
  \/ F /\ AppendHeader
  \/ F /\ AppendBody
  \/ F /\ Truncate
  \/ F /\ RemoveSender
  \/ F /\ RemoveTarget
  \/ F /\ ClearCache
  \/ F /\ MigrateSender
  \/ F /\ MigrateTarget
  \/ F /\ Load
  \/ F /\ ReadBorn
  \/ F /\ CutBorn
  \/ F /\ WriteBorn
  \/ F /\ Crash
  \/ F /\ Fail
  \/ D /\ \E s \in DbSids : ExecStatement(s)
  \/ D /\ \E s \in DbSids : StatementFails(s)
  \/ D /\ \E s \in DbSids : OpenStore(s)
  \/ D /\ \E s \in DbSids : Seed(s)
  \/ D /\ \E s \in DbSids : SeedFails(s)
  \/ D /\ \E s \in DbSids : SendAndPersist(s)
  \/ D /\ \E s \in DbSids : ReceiveAndPersist(s)
  \/ D /\ \E s \in DbSids : ResetBoth(s)
  \/ D /\ \E s \in DbSids : ConnectionGone(s)
  \/ D /\ DbCrash
  \/ L /\ \E dir \in {"I", "E"} : Log(dir, FALSE)
  \/ L /\ seen = 0 /\ \E beat \in BOOLEAN : Log("O", beat)
  \/ L /\ Recv
  \/ L /\ WriterStep
  \/ L /\ WriterFails
  \/ L /\ WriterPanics
  \/ L /\ ShutdownLog
  \/ L /\ ShutdownReturns
  \/ L /\ ProcessEnds
  \/ L /\ OpenLog
  \/ L /\ LogTick

MCSpec == MCInit /\ [][MCNext]_storeVars
=============================================================================
