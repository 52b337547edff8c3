----------------------------- MODULE MCAcceptor -----------------------------
(***************************************************************************)
(* Model checking of the accepting side: in one run the accept loops and   *)
(* their registry (Acceptor), a connection's reader and select loop        *)
(* (ReadLoop), the PROXY and CONNECT dialogues (ProxyPeek) and the engine  *)
(* that starts and stops it all (Engine).  `part' says which one a         *)
(* behaviour is about; the variables of the others keep one initial value. *)
(***************************************************************************)
EXTENDS Acceptor, ReadLoop, ProxyPeek, Engine

VARIABLE part

allVars == <<part, AcceptorVars, ReadLoopVars, PeekVars, EngineVars>>

-----------------------------------------------------------------------------
\* Acceptor: a plain and a TLS acceptor of one session, a TLS group with an
\* allow-list, and a group with one registered session and a template.
MCPeers == {"c1", "c2", "c3"}
MCListeners == {"single", "single_tls", "group", "dynamic"}
MCSids == {"s1", "s2", "s3"}
MCSingleOf == [l \in MCListeners |-> l \in {"single", "single_tls"}]
MCStaticOf == [l \in MCListeners |-> IF l = "group" THEN {"s1", "s2"} ELSE {"s1"}]
MCStoreOf == [l \in MCListeners |-> [s \in MCSids |-> s]]
MCTemplateOf == [l \in MCListeners |-> l = "dynamic"]
MCTemplateStoreOf == [l \in MCListeners |-> "t"]
MCTlsOf == [l \in MCListeners |-> l \in {"single_tls", "group"}]
MCTlsTimeoutOf == [l \in MCListeners |-> l = "single_tls"]
MCAllowedOf == [l \in MCListeners |-> IF l = "group" THEN {"c1", "c2"} ELSE MCPeers]

\* ReadLoop: one channel, two channels, and a binary encoding with two.
MCReaders == {"one", "two", "sbe"}
SomeStreams ==
  {<<"app", "admin", "app">>, <<"admin", "app">>, <<"junk", "app", "admin">>,
   <<"noise", "garbled", "app">>, <<"app", "huge", "admin">>,
   <<"app", "badlen", "app">>, <<"admin", "badlen", "badlen", "app", "admin">>}
MCStreamsOf ==
  [r \in MCReaders |->
     CASE r = "one" -> SomeStreams \cup {<<>>}
       [] r = "two" -> SomeStreams \cup [1..3 -> {"app", "badlen", "noise"}] \cup
                       {<<"app", "app", "app", "app", "admin">>,
                        <<"app", "app", "app", "app", "app", "app">>}
       [] r = "sbe" -> UNION {[1..n -> {"admin", "app", "garbled"}] : n \in 0..3}]
MCAppCapOf == [r \in MCReaders |-> IF r = "one" THEN 0 ELSE 2]
MCBinaryOf == [r \in MCReaders |-> r = "sbe"]

\* Engine: two acceptor sessions that may share an address, an identity, be a
\* template, be lenient or not resolve; a plain and a failover initiator.
AcceptorSession(address, identity, qualifier, template, lenient, resolves) ==
  [kind |-> "acceptor", address |-> address, identity |-> identity,
   qualifier |-> qualifier, template |-> template, allow |-> FALSE,
   lenient |-> lenient, resolves |-> resolves]
InitiatorSession(kind, lenient) ==
  [kind |-> kind, address |-> 0, identity |-> 0, qualifier |-> 0,
   template |-> FALSE, allow |-> FALSE, lenient |-> lenient, resolves |-> TRUE]
AcceptorPairs ==
  {<<AcceptorSession(1, 1, 0, FALSE, l1, TRUE),
     AcceptorSession(a, id, q, t, l2, r)>> :
     a \in {1, 2}, id \in {1, 2}, q \in {0, 1}, t \in BOOLEAN,
     l1 \in BOOLEAN, l2 \in BOOLEAN, r \in BOOLEAN}
MCConfigurations ==
  {<<InitiatorSession("plain", FALSE)>>} \cup
  {<<p[1], p[2], InitiatorSession("plain", l), InitiatorSession("failover", FALSE)>> :
     p \in {x \in AcceptorPairs : <<x[1].identity, x[1].qualifier>> #
                                  <<x[2].identity, x[2].qualifier>>},
     l \in BOOLEAN}

-----------------------------------------------------------------------------
\* The idle components' choices are fixed first, so that TLC does not enumerate
\* their combinations.
MCInit ==
  /\ part \in {"acceptor", "reader", "peek", "engine"}
  /\ \/ part = "acceptor"
     \/ part # "acceptor" /\ listener = "single"
  /\ \/ part = "reader"
     \/ part # "reader" /\ reader = "one" /\ frames = <<>>
  /\ \/ part = "peek"
     \/ /\ part # "peek"
        /\ dialogue = [kind |-> "connect", timeout |-> FALSE] /\ total = 0
  /\ \/ part = "engine"
     \/ /\ part # "engine"
        /\ settings = <<InitiatorSession("plain", FALSE)>>
  /\ AcceptorInit /\ ReadLoopInit /\ PeekInit /\ EngineInit

A == part = "acceptor" /\ UNCHANGED <<part, ReadLoopVars, PeekVars, EngineVars>>
R == part = "reader" /\ UNCHANGED <<part, AcceptorVars, PeekVars, EngineVars>>
P == part = "peek" /\ UNCHANGED <<part, AcceptorVars, ReadLoopVars, EngineVars>>
E == part = "engine" /\ UNCHANGED <<part, AcceptorVars, ReadLoopVars, PeekVars>>

MCNext ==
  \/ \E c \in Peers : Connect(c) /\ A
  \/ \E c \in Peers : AcceptDirect(c) /\ A
  \/ \E c \in Peers : AcceptProxied(c) /\ A
  \/ \E c \in Peers : StripEnds(c) /\ A
  \/ \E c \in Peers : TlsDone(c) /\ A
  \/ \E c \in Peers : TlsFails(c) /\ A
  \/ \E c \in Peers : PrelogonEnds(c) /\ A
  \/ \E c \in Peers, s \in Sids : RouteNotFound(c, s) /\ A
  \/ \E c \in Peers, s \in Sids : RouteStatic(c, s) /\ A
  \/ \E c \in Peers, s \in Sids : RouteDynamic(c, s) /\ A
  \/ \E c \in Peers : FactoryDone(c) /\ A
  \/ \E c \in Peers : FactoryFails(c) /\ A
  \/ \E c \in Peers : InsertActive(c) /\ A
  \/ \E c \in Peers : Register(c) /\ A
  \/ \E c \in Peers : MarkDisconnected(c) /\ A
  \/ \E c \in Peers : GuardDrops(c) /\ A
  \/ \E c \in Peers : Panics(c) /\ A
  \/ Shutdown /\ A
  \/ \E c \in Peers : Aborted(c) /\ A
  \/ ClassifyBuffered /\ R
  \/ ClassifyBinary /\ R
  \/ Reserve /\ R
  \/ Read /\ R
  \/ ReadEof /\ R
  \/ RecvAdmin /\ R
  \/ RecvApp /\ R
  \/ Handled /\ R
  \/ TickDue /\ R
  \/ ServeTick /\ R
  \/ LoopOver /\ R
  \/ Teardown /\ R
  \/ Arrive /\ P
  \/ Close /\ P
  \/ TakeHeader /\ P
  \/ SeesClose /\ P
  \/ GivesUp /\ P
  \/ Grow /\ P
  \/ TimesOut /\ P
  \/ Resolve /\ E
  \/ StartGroup /\ E
  \/ GroupFails /\ E
  \/ GroupsDone /\ E
  \/ StartSingle /\ E
  \/ SingleFails /\ E
  \/ StartDone /\ E
  \/ Cleanup /\ E
  \/ EngineShutdown /\ E
  \/ \E i \in DOMAIN settings : SessionTaskEnds(i) /\ E

(***************************************************************************)
(* Ready tasks are polled, a task that was asked to end ends, and a TLS    *)
(* handshake is bounded where a timeout is configured.  A running          *)
(* connection need not end and a peer need not connect.                    *)
(***************************************************************************)
MCSpec ==
  /\ MCInit /\ [][MCNext]_allVars
  /\ WF_allVars(A /\ \E c \in Peers : AcceptLoopStep(c) \/ TaskStep(c) \/ TlsTimesOut(c))
  /\ WF_allVars(R /\ ReaderStep) /\ WF_allVars(R /\ ConnectionStep)
  /\ WF_allVars(P /\ PeekStep)
  /\ WF_allVars(E /\ \E i \in asked : SessionTaskEnds(i))

-----------------------------------------------------------------------------
\* Nobody on the accepting side waits for ever: not in the backlog, not for a
\* Logon, not for a reader or a proxy, and not for a shutdown.
WaitsEnd ==
  BacklogMoves /\ LogonDecided /\ ShutdownEndsAll /\ ConnectionTerminates /\ DialogueEnds
=============================================================================
