--------------------------- MODULE MCConnections ---------------------------
(***************************************************************************)
(* Model checking of what happens on and around one connection: that of a  *)
(* FIX session with its store (Connection) and those of the Futu client    *)
(* (FutuClient); and what they are configured with: samples of documents,  *)
(* keys and dictionaries on which Settings, Config and Dictionary are      *)
(* compared with what is promised of them.  `part' says which one a        *)
(* behaviour is about; the variables of the others are idle.               *)
(***************************************************************************)
EXTENDS MCConnection, SequencesExt

VARIABLES part, sample
VARIABLES program, task, actors, in_use, conn_id, packet_serial, reconnect_lock, replay,
          shut, signals, chances, stale, sent

FutuVars == <<program, task, actors, in_use, conn_id, packet_serial, reconnect_lock, replay,
              shut, signals, chances, stale, sent>>
Book == INSTANCE MCFutu
Futu == INSTANCE FutuClient WITH
  Callers <- {"a", "b"}, U32Max <- Book!MaxSerial, MaxConns <- 3, Programs <- Book!MCPrograms,
  conn <- actors, current <- in_use, closed <- shut

-----------------------------------------------------------------------------
(* Documents of up to three sections, with references between keys, to the  *)
(* environment and to themselves.                                           *)
Document == INSTANCE Settings WITH
  Environment <- [E |-> <<[ref |-> FALSE, name |-> "env"]>>], IdentityKeys <- {"SenderCompID"}

Words(ws) == {<<Document!Text(w)>> : w \in ws}
Refs(ns) == {<<Document!Ref(n)>> : n \in ns}
Lines(key, values) == {<<>>} \cup {<<Document!Pair(key, v)>> : v \in values}

Bodies == {i \o a \o b : i \in Lines("SenderCompID", Words({"x", "y"})),
                         a \in Lines("A", Words({"x"}) \cup Refs({"B", "C"})),
                         b \in Lines("B", Words({"y"}) \cup Refs({"A", "E"}))}
SmallBodies == {i \o a : i \in Lines("SenderCompID", Words({"x", "y"}) \cup Refs({"A"})),
                         a \in Lines("A", Words({"x"}))}
Sections(names, bodies) == {<<Document!Section(n)>> \o b : n \in names, b \in bodies}
Kinds == {"DEFAULT", "SESSION"}

Documents ==
  {a \o b : a \in Sections(Kinds, Bodies), b \in Sections(Kinds, Bodies)}
  \cup {a \o b \o c : a \in Sections(Kinds, SmallBodies), b \in Sections(Kinds, SmallBodies),
                      c \in Sections(Kinds, SmallBodies)}
  \cup {a \o b \o m : a \in Bodies, b \in Sections({"OTHER", "DEFAULT"}, SmallBodies),
                      m \in {<<>>, <<Document!Malformed>>}}

-----------------------------------------------------------------------------
(* Sessions between them giving every key something to act on. *)
Builder == INSTANCE Config

Identity == [BeginString |-> "FIXT.1.1", SenderCompID |-> "x", TargetCompID |-> "y"]
Initiator == [ConnectionType |-> "initiator", SocketConnectHost |-> "127.0.0.1",
              SocketConnectPort |-> "5001"] @@ Identity
Acceptor == [ConnectionType |-> "acceptor", SocketAcceptPort |-> "5001"] @@ Identity

Contexts == {
  Initiator,
  [SocketConnectHost1 |-> "10.0.0.1", SocketConnectPort1 |-> "7", SocketLocalHost |-> "10.0.0.1",
   SocketLocalPort |-> "0", ProxyType |-> "Socks5", ProxyHost |-> "p", ProxyPort |-> "7",
   SocketUseSSL |-> "Y", SocketKeyStore |-> "k", UseSNI |-> "Y",
   SocketSynchronousWrites |-> "Y", StartTime |-> "09:00:00", EndTime |-> "17:30",
   StartDay |-> "Monday", EndDay |-> "fri"] @@ Initiator,
  [UseDataDictionary |-> "Y", AppDataDictionary |-> "FIX.5.0SP2",
   TransportDataDictionary |-> "FIXT.1.1", FileStorePath |-> "s", FileLogPath |-> "l",
   StartTime |-> "09:00:00", EndTime |-> "17:30"] @@ Acceptor,
  [JdbcURL |-> "jdbc:postgresql://h/db", JdbcUser |-> "u", JdbcPassword |-> "p",
   UseTCPProxy |-> "Y", UseDataDictionary |-> "Y", DataDictionary |-> "FIX.4.4"] @@ Acceptor}

\* A word for every kind of key.
Vocabulary == {"Y", "N", "7", "1.5", "09:00:00", "fri", "+05:00", "127.0.0.1", "FIX.4.4",
               "NANOS", "FAST", "9001=HOUSE", "TLSv1.3", "Socks4", "acceptor",
               "mssql://h/db", "text"}

Sessions == {
  Initiator, Acceptor, [HeartBtInt |-> "x"] @@ Acceptor,
  [HeartBtInt |-> "x", ContinueInitializationOnError |-> "Y"] @@ Initiator,
  [ContinueInitializationOnError |-> "maybe"] @@ Acceptor}

Databases ==
  {[JdbcURL |-> u] @@ m @@ Acceptor :
     u \in DOMAIN Builder!Url,
     m \in {[JdbcUser |-> "u", JdbcPassword |-> "p"], [JdbcUser |-> "u"],
            [JdbcPassword |-> "p"], [JdbcLogHeartBeats |-> "N"]}}

-----------------------------------------------------------------------------
(* Dictionaries: a few lines that refer to each other, in any order. *)
Dict == INSTANCE Dictionary WITH FieldTypes <- {"Int", "Char"}, MAX_DEPTH <- 2

FieldLine(tag, name, type) == [d |-> "field", tag |-> tag, name |-> name, type |-> type,
                               values |-> {}, open_enum |-> FALSE]
MessageLine(type, required, optional) ==
  [d |-> "message", type |-> type, required |-> required, optional |-> optional, ordered |-> TRUE]
GroupLine(tag, delimiter, members, required) ==
  [d |-> "group", tag |-> tag, delimiter |-> delimiter, members |-> members, required |-> required]
ComponentLine(name, members) == [d |-> "component", name |-> name, members |-> members]
Field(t) == Dict!Tag(t)
Part(c) == Dict!Component(c)

DictLines == {
  FieldLine(1, "one", "Int"), FieldLine(2, "two", "Char"), FieldLine(2, "one", "Char"),
  FieldLine(3, "three", "Odd"), [d |-> "header", tags |-> {1}],
  MessageLine("A", <<Field(1)>>, <<Field(10)>>), MessageLine("A", <<Part(1)>>, <<Field(11)>>),
  MessageLine("B", <<>>, <<Field(10), Field(20)>>),
  GroupLine(10, 2, <<Field(2), Field(11)>>, <<Field(2)>>), GroupLine(11, 1, <<Field(1), Field(10)>>, <<>>),
  GroupLine(10, 2, <<Field(2), Part(2)>>, <<>>), GroupLine(20, 21, <<Field(21), Field(11)>>, <<>>),
  ComponentLine(1, <<Field(20), Part(2)>>), ComponentLine(2, <<Field(1)>>), ComponentLine(2, <<Part(1)>>),
  [d |-> "malformed"]}
Dictionary(lines) == lines \o <<[d |-> "version", of |-> "4.4"]>>
DictDocuments == {Dictionary(lines) : lines \in SeqOf(DictLines, 3)}

\* Dictionaries that parse, of at most two lines.
Dictionaries ==
  {r.ok : r \in {o \in {Dict!parse(Dictionary(lines)) : lines \in SeqOf(DictLines, 2)} :
                   ~Dict!Failed(o)}}

-----------------------------------------------------------------------------
Samples ==
  [kind: {"document"}, of: Documents]
  \cup [kind: {"key"}, of: Builder!APPENDIX_A_KEYS]
  \cup [kind: {"sessions"}, of: SeqOf(Sessions, 3)]
  \cup [kind: {"database"}, of: Databases]
  \cup [kind: {"dictionary"}, of: DictDocuments]
  \cup [kind: {"merge"}, of: Dictionaries \X Dictionaries]

-----------------------------------------------------------------------------
allVars == <<part, vars, FutuVars, sample>>

Unused == "unused"
FutuIdle ==
  /\ program = Unused /\ task = Unused /\ actors = Unused /\ in_use = Unused /\ conn_id = Unused
  /\ packet_serial = Unused /\ reconnect_lock = Unused /\ replay = Unused /\ shut = Unused
  /\ signals = Unused /\ chances = Unused /\ stale = Unused /\ sent = Unused
NoSample == sample = [kind |-> Unused]

MCInit ==
  /\ part \in {"fix", "futu", "settings"}
  /\ Init /\ (part # "fix" => setup = "acceptor")
  /\ IF part = "futu" THEN Futu!FutuInit ELSE FutuIdle
  /\ IF part = "settings" THEN sample \in Samples ELSE NoSample

C == part = "fix" /\ UNCHANGED <<part, FutuVars, sample>>
F == part = "futu" /\ UNCHANGED <<part, vars, sample>>

MCNext ==
  \/ C /\ Next
  \/ F /\ \E p \in {"a", "b"} : Futu!Begin(p)
  \/ F /\ \E p \in {"a", "b"} : Futu!BeginReconnect(p)
  \/ F /\ \E p \in {"a", "b"} : Futu!Close(p)
  \/ F /\ \E p \in {"a", "b"} : Futu!TakeHandle(p)
  \/ F /\ \E p \in {"a", "b"} : Futu!Send(p)
  \/ F /\ \E p \in {"a", "b"} : Futu!Return(p)
  \/ F /\ \E p \in {"a", "b"} : Futu!Remember(p)
  \/ F /\ \E p \in Futu!Tasks : Futu!TimeOut(p)
  \/ F /\ \E p \in Futu!Tasks : Futu!CheckClosed(p)
  \/ F /\ \E p \in Futu!Tasks : Futu!TakeLock(p)
  \/ F /\ \E p \in Futu!Tasks : Futu!ConnectFails(p)
  \/ F /\ \E p \in Futu!Tasks : Futu!ConnectOk(p)
  \/ F /\ \E p \in Futu!Tasks : Futu!Install(p)
  \/ F /\ \E p \in Futu!Tasks : Futu!CloneReplay(p)
  \/ F /\ \E p \in Futu!Tasks : Futu!ReplaySend(p)
  \/ F /\ \E p \in Futu!Tasks : Futu!ReplayReturn(p)
  \/ F /\ \E p \in Futu!Tasks : Futu!ReplayDone(p)
  \/ F /\ Futu!LoopSignal
  \/ F /\ Futu!LoopAgain
  \/ F /\ \E n \in DOMAIN actors : Futu!OnCommand(n)
  \/ F /\ \E n \in DOMAIN actors : Futu!OnShutdown(n)
  \/ F /\ \E n \in DOMAIN actors : Futu!OnFrame(n)
  \/ F /\ \E n \in DOMAIN actors : Futu!ReadFails(n)
  \/ F /\ \E n \in DOMAIN actors : Futu!KeepAlive(n)
  \/ F /\ \E n \in DOMAIN actors : Futu!OpenDAnswers(n)
  \/ F /\ \E n \in DOMAIN actors : Futu!OpenDPushes(n)
  \/ F /\ \E n \in DOMAIN actors : Futu!PartArrives(n)
  \/ F /\ \E n \in DOMAIN actors : Futu!SocketFails(n)

MCSpec == MCInit /\ [][MCNext]_allVars

-----------------------------------------------------------------------------
\* A caller of the Futu client is served around lost and replaced connections.
CallersServed == part = "futu" => Futu!CallersServed

\* What is configured is what runs, or is refused:
\*  - references resolve through any chain or are refused (NEW-46), a session
\*    depends on [DEFAULT] and its own lines only, and the sessions of an accepted
\*    document have different identities (NEW-129);
\*  - a key is Implemented exactly if it is honored somewhere (NEW-10, BUG-03), and
\*    a value it cannot have is refused where it matters (NEW-112, NEW-113);
\*  - ContinueInitializationOnError leaves out the broken sessions only;
\*  - store and log of a jdbc: URL are one database (BUG-04).
Honest(text) ==
  /\ text.kind = "document" => /\ Document!ReferencesResolved(text.of)
                               /\ Document!SessionsStandAlone(text.of)
                               /\ Document!IdentitiesDistinct(text.of)
  /\ text.kind = "key" => /\ Builder!RegistryTellsTruth(text.of, Contexts, Vocabulary)
                          /\ Builder!GarbageRefused(text.of, Contexts, Vocabulary)
  /\ text.kind = "sessions" => Builder!LenientKeepsTheRest(text.of)
  /\ text.kind = "database" => Builder!OneDatabase(text.of)

\* Honest of every sample: each is an initial state of its own, and none changes.
ConfigHonest == Honest(sample) /\ [][Honest(sample')]_allVars

\* A message knows the members of all its groups, whatever the order of the
\* dictionary's lines; merging two dictionaries is symmetric and leaves nothing
\* stale (NEW-53), and merging a self-contained one twice is merging it once.
Closed(text) ==
  /\ text.kind = "dictionary" => Dict!MembersClosed(text.of) /\ Dict!OrderFree(text.of)
  /\ text.kind = "merge" => /\ Dict!MergeSymmetric(text.of[1], text.of[2])
                            /\ Dict!MergeTwice(text.of[1], text.of[2])

\* Closed of every sample.
DictionaryClosed == Closed(sample) /\ [][Closed(sample')]_allVars
=============================================================================
