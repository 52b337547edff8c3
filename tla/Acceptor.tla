------------------------------ MODULE Acceptor ------------------------------
(***************************************************************************)
(* The accept loops of truefix-transport (Acceptor::serve for one session, *)
(* AcceptorBuilder::serve for several), the way of a connection from there *)
(* to run_connection (PROXY header, allow-list, TLS, the first Logon,      *)
(* routing, dynamic services, the set of active sessions), and the Monitor *)
(* that run_connection enters itself in.                                   *)
(***************************************************************************)
EXTENDS Naturals, FiniteSets

CONSTANTS
  Peers,        \* connections that may be made, each once
  Sids,         \* session identities
  Listeners,    \* the acceptors considered, by name
  SingleOf,     \* Acceptor (one identity) or AcceptorBuilder
  StaticOf,     \* the registered sessions; for a single acceptor its one
  StoreOf,      \* the place each registered session's store keeps its data
  TemplateOf,   \* is there a dynamic template (with its services factory)?
  TemplateStoreOf, \* the place the factory opens, whatever the identity
  TlsOf, TlsTimeoutOf,
  AllowedOf,    \* the peers on the allow-list
  ViaProxy,     \* peers whose address is one of trusted_proxy_addresses
  MaxPanics     \* bound: application callbacks that panic

NoOne == "none"

ASSUME AcceptorAssumption ==
  /\ \A l \in Listeners :
       /\ StaticOf[l] \subseteq Sids
       /\ SingleOf[l] => Cardinality(StaticOf[l]) = 1 /\ ~TemplateOf[l]
  /\ Peers \cap {"accept", "gone", NoOne} = {}
  /\ MaxPanics \in Nat

VARIABLES
  listener,  \* which acceptor this is; it never changes
  accepting, \* the accept loop: "accept", "gone", or the peer it strips
  pc,        \* each connection: see Stages
  sid,       \* the identity its Logon gave
  store,     \* the place its store keeps its data, once it has one
  active,    \* Registry.active, or the single acceptor's flag
  monitor,   \* the connection whose entry the Monitor has for an identity
  panics

AcceptorVars == <<listener, accepting, pc, sid, store, active, monitor, panics>>

Single == SingleOf[listener]
Static == StaticOf[listener]
Stages == {"unborn", "backlog", "strip", "tls", "prelogon", "factory", "insert",
           "start", "run", "leaving", "gone"}
Holding == {"start", "run", "leaving"}
Owns(c) == pc[c] \in Holding \/ (Single /\ pc[c] = "tls")

AcceptorTypeOK ==
  /\ listener \in Listeners
  /\ accepting \in {"accept", "gone"} \cup Peers
  /\ pc \in [Peers -> Stages]
  /\ sid \in [Peers -> Sids \cup {NoOne}]
  /\ DOMAIN store = Peers
  /\ active \subseteq Sids
  /\ monitor \in [Sids -> Peers \cup {NoOne}]
  /\ panics \in 0..MaxPanics

AcceptorInit ==
  /\ listener \in Listeners
  /\ accepting = "accept"
  /\ pc = [c \in Peers |-> "unborn"]
  /\ sid = [c \in Peers |-> NoOne]
  /\ store = [c \in Peers |-> NoOne]
  /\ active = {}
  /\ monitor = [s \in Sids |-> NoOne]
  /\ panics = 0

-----------------------------------------------------------------------------
(***************************************************************************)
(* The accept loop.                                                        *)
(***************************************************************************)
Connect(c) ==
  /\ pc[c] = "unborn" /\ accepting # "gone"
  /\ pc' = [pc EXCEPT ![c] = "backlog"]
  /\ UNCHANGED <<listener, accepting, sid, store, active, monitor, panics>>

AfterAccept == IF TlsOf[listener] THEN "tls" ELSE IF Single THEN "start" ELSE "prelogon"

\* The single-session acceptor: refuse while the flag is set, else set it and
\* spawn the connection with the guard.
AdmitSingle(c) ==
  IF active # {}
  THEN /\ pc' = [pc EXCEPT ![c] = "gone"]
       /\ UNCHANGED <<sid, store, active>>
  ELSE \E s \in Static :
       /\ active' = {s}
       /\ sid' = [sid EXCEPT ![c] = s]
       /\ store' = [store EXCEPT ![c] = StoreOf[listener][s]]
       /\ pc' = [pc EXCEPT ![c] = AfterAccept]

\* The multi-session acceptor: the allow-list, then a task for route_and_run.
AdmitMulti(c, address) ==
  /\ pc' = [pc EXCEPT ![c] = IF address \in AllowedOf[listener]
                             THEN AfterAccept ELSE "gone"]
  /\ UNCHANGED <<sid, store, active>>

Admit(c, address) ==
  /\ accepting' = "accept"
  /\ IF Single THEN AdmitSingle(c) ELSE AdmitMulti(c, address)
  /\ UNCHANGED <<listener, monitor, panics>>

\* accept() of a connection whose physical address is not a trusted proxy.
AcceptDirect(c) ==
  /\ accepting = "accept" /\ pc[c] = "backlog" /\ c \notin ViaProxy
  /\ Admit(c, c)

\* accept() of one that is: the loop itself waits for the PROXY header.
AcceptProxied(c) ==
  /\ accepting = "accept" /\ pc[c] = "backlog" /\ c \in ViaProxy
  /\ accepting' = c
  /\ pc' = [pc EXCEPT ![c] = "strip"]
  /\ UNCHANGED <<listener, sid, store, active, monitor, panics>>

\* A header names the client; none, an addressless one or PROXY_HEADER_TIMEOUT
\* leaves the physical address.
StripEnds(c) ==
  /\ accepting = c /\ pc[c] = "strip"
  /\ \E address \in Peers : Admit(c, address)

-----------------------------------------------------------------------------
(***************************************************************************)
(* A connection's task.                                                    *)
(***************************************************************************)
Freed(c) == IF Owns(c) THEN active \ {sid[c]} ELSE active

\* The task returns or is dropped, and its ActiveGuard with it.
TaskEnds(c) ==
  /\ pc' = [pc EXCEPT ![c] = "gone"]
  /\ store' = [store EXCEPT ![c] = NoOne]
  /\ active' = Freed(c)
  /\ UNCHANGED <<listener, sid>>

TlsDone(c) ==
  /\ pc[c] = "tls"
  /\ pc' = [pc EXCEPT ![c] = IF Single THEN "start" ELSE "prelogon"]
  /\ UNCHANGED <<listener, accepting, sid, store, active, monitor, panics>>

\* A failed handshake, or connect_timeout where one is configured.
TlsFails(c) ==
  /\ pc[c] = "tls"
  /\ TaskEnds(c) /\ UNCHANGED <<accepting, monitor, panics>>

\* Faulty variant: no prelogon_read_timeout, and the peer sends nothing.
PrelogonWaits(c) == pc[c] = "prelogon" /\ UNCHANGED AcceptorVars

\* End of file, a first message that is no Logon or no frame, the buffer cap,
\* or prelogon_read_timeout.
PrelogonEnds(c) ==
  /\ pc[c] = "prelogon"
  /\ TaskEnds(c) /\ UNCHANGED <<accepting, monitor, panics>>

\* The Logon names s; neither a registered session nor a template: refuse.
RouteNotFound(c, s) ==
  /\ pc[c] = "prelogon" /\ s \notin Static /\ ~TemplateOf[listener]
  /\ TaskEnds(c) /\ UNCHANGED <<accepting, monitor, panics>>

RouteStatic(c, s) ==
  /\ pc[c] = "prelogon" /\ s \in Static
  /\ sid' = [sid EXCEPT ![c] = s]
  /\ store' = [store EXCEPT ![c] = StoreOf[listener][s]]
  /\ pc' = [pc EXCEPT ![c] = "insert"]
  /\ UNCHANGED <<listener, accepting, active, monitor, panics>>

RouteDynamic(c, s) ==
  /\ pc[c] = "prelogon" /\ s \notin Static /\ TemplateOf[listener]
  /\ sid' = [sid EXCEPT ![c] = s]
  /\ pc' = [pc EXCEPT ![c] = "factory"]
  /\ UNCHANGED <<listener, accepting, store, active, monitor, panics>>

\* The factory has opened the template's store.
FactoryDone(c) ==
  /\ pc[c] = "factory"
  /\ store' = [store EXCEPT ![c] = TemplateStoreOf[listener]]
  /\ pc' = [pc EXCEPT ![c] = "insert"]
  /\ UNCHANGED <<listener, accepting, sid, active, monitor, panics>>

FactoryFails(c) ==
  /\ pc[c] = "factory"
  /\ TaskEnds(c) /\ UNCHANGED <<accepting, monitor, panics>>

\* Faulty variant: no check of the active set (what BUG-32 fixed).
InsertUnchecked(c) ==
  /\ pc[c] = "insert"
  /\ active' = active \cup {sid[c]}
  /\ pc' = [pc EXCEPT ![c] = "start"]
  /\ UNCHANGED <<listener, accepting, sid, store, monitor, panics>>

\* Check and insert under one lock; a second connection of an identity goes.
InsertActive(c) ==
  /\ pc[c] = "insert"
  /\ IF sid[c] \in active
     THEN TaskEnds(c)
     ELSE /\ active' = active \cup {sid[c]}
          /\ pc' = [pc EXCEPT ![c] = "start"]
          /\ UNCHANGED <<listener, sid, store>>
  /\ UNCHANGED <<accepting, monitor, panics>>

\* run_connection has seeded its session and enters the monitor.
Register(c) ==
  /\ pc[c] = "start"
  /\ monitor' = [monitor EXCEPT ![sid[c]] = c]
  /\ pc' = [pc EXCEPT ![c] = "run"]
  /\ UNCHANGED <<listener, accepting, sid, store, active, panics>>

\* The connection is over: mark_disconnected, then on_logout is awaited.
MarkDisconnected(c) ==
  /\ pc[c] = "run"
  /\ monitor' = [monitor EXCEPT ![sid[c]] = NoOne]
  /\ pc' = [pc EXCEPT ![c] = "leaving"]
  /\ UNCHANGED <<listener, accepting, sid, store, active, panics>>

GuardDrops(c) ==
  /\ pc[c] = "leaving"
  /\ TaskEnds(c) /\ UNCHANGED <<accepting, monitor, panics>>

\* A callback of the application panics: the task unwinds.
Panics(c) ==
  /\ pc[c] \in Holding /\ panics < MaxPanics
  /\ panics' = panics + 1
  /\ TaskEnds(c) /\ UNCHANGED <<accepting, monitor>>

\* Engine shutdown aborts the accept loop, whose JoinSet aborts every task.
Shutdown ==
  /\ accepting # "gone"
  /\ accepting' = "gone"
  /\ pc' = [c \in Peers |-> IF pc[c] \in {"unborn", "backlog", "strip"}
                            THEN "gone" ELSE pc[c]]
  /\ UNCHANGED <<listener, sid, store, active, monitor, panics>>

Aborted(c) ==
  /\ accepting = "gone" /\ pc[c] # "gone"
  /\ TaskEnds(c) /\ UNCHANGED <<accepting, monitor, panics>>

AcceptLoopStep(c) == AcceptDirect(c) \/ AcceptProxied(c) \/ StripEnds(c)
TaskStep(c) ==
  \/ PrelogonEnds(c) \/ FactoryDone(c) \/ FactoryFails(c)
  \/ InsertActive(c) \/ Register(c) \/ GuardDrops(c) \/ Aborted(c)
TlsTimesOut(c) == TlsTimeoutOf[listener] /\ TlsFails(c)

PeerStep(c) ==
  \/ Connect(c) \/ AcceptLoopStep(c) \/ TaskStep(c) \/ TlsDone(c) \/ TlsFails(c)
  \/ MarkDisconnected(c) \/ Panics(c)
  \/ \E s \in Sids : RouteNotFound(c, s) \/ RouteStatic(c, s) \/ RouteDynamic(c, s)
AcceptorNext == Shutdown \/ \E c \in Peers : PeerStep(c)

AcceptorSpec == AcceptorInit /\ [][AcceptorNext]_AcceptorVars

-----------------------------------------------------------------------------
(***************************************************************************)
(* Properties.                                                             *)
(***************************************************************************)

\* BUG-32: two connections never run one session at the same time, whether
\* they race through TLS, the first Logon or the services factory.
OnePerSession ==
  \A c, d \in Peers :
    (pc[c] \in Holding /\ pc[d] \in Holding /\ sid[c] = sid[d]) => c = d

\* An identity is refused only while some connection has it: every way a task
\* can end (handshake failure, refusal, panic, abort) gives the identity back.
NotLockedOut ==
  \A s \in active : \E c \in Peers : Owns(c) /\ sid[c] = s

\* A running session is found through the Monitor under its identity, as
\* itself: the end of an earlier connection never takes away its entry.
MonitorKnowsRunning ==
  \A c \in Peers : pc[c] = "run" => monitor[sid[c]] = c

\* Monitor::is_connected: "presence in the map now *is* the connected signal".
\* Holds while no task was torn down from outside.
MonitorIsCurrent ==
  (panics = 0 /\ accepting # "gone") =>
    \A s \in Sids : monitor[s] # NoOne => pc[monitor[s]] = "run"

\* Nobody waits in the backlog for ever behind a peer that sends no PROXY
\* header or no bytes at all: the accept loop empties it.
BacklogMoves ==
  (\E c \in Peers : pc[c] = "backlog") ~> (\A c \in Peers : pc[c] # "backlog")

\* A connection that has not logged on does not hold its task, and in a
\* single-session acceptor the only session, for ever (NEW-93), where the TLS
\* handshake has a timeout.
Undecided(c) ==
  pc[c] = "prelogon" \/ (pc[c] = "tls" /\ TlsTimeoutOf[listener])
LogonDecided ==
  (\E c \in Peers : Undecided(c)) ~> (\A c \in Peers : ~Undecided(c))

\* After shutdown nothing is left: no task, and no identity in use.
ShutdownEndsAll == (accepting = "gone") ~> (active = {} /\ \A c \in Peers : pc[c] = "gone")

\* The registry of active sessions and the Monitor agree with the tasks: one
\* connection runs a session, its identity is free again when it ends, and the
\* Monitor shows the connection that runs and, while no task was torn down from
\* outside, no other.
RegistryCorrect ==
  AcceptorTypeOK /\ OnePerSession /\ NotLockedOut /\ MonitorKnowsRunning /\ MonitorIsCurrent
=============================================================================
