------------------------------- MODULE Engine -------------------------------
(***************************************************************************)
(* The truefix facade: Engine::start over the sessions of a configuration, *)
(* its clean-up after a failure, shutdown and Drop, and the services each  *)
(* session of an acceptor group ends up with.                              *)
(*                                                                         *)
(* A configuration is a sequence of sessions in file order; a session is   *)
(* [kind: "acceptor", "plain" or "failover" (initiators without and with   *)
(* backup endpoints), address, identity (what a Logon can show),           *)
(* qualifier, template, allow (has it an allow-list?), lenient             *)
(* (ContinueInitializationOnError), resolves].                             *)
(***************************************************************************)
EXTENDS Naturals, Sequences, SequencesExt, FiniteSets

CONSTANT Configurations

VARIABLES
  settings,   \* the configuration; it never changes
  phase,      \* "resolve", "groups", "singles", "cleanup", "ok" or "err"
  todo,       \* listeners (sets of sessions) or single sessions to start
  skipped,    \* sessions given up with ContinueInitializationOnError
  bound,      \* the listeners that were started, as sets of sessions
  initiators, \* initiators that were started
  alive,      \* sessions whose task (accept loop, connection) exists
  asked,      \* sessions told to end: aborted, stopped or asked to log out
  shut        \* shutdown() was called or the Engine dropped

EngineVars ==
  <<settings, phase, todo, skipped, bound, initiators, alive, asked, shut>>

Sessions == DOMAIN settings
Session(i) == settings[i]
IsAcceptor(i) == Session(i).kind = "acceptor"

EngineInit ==
  /\ settings \in Configurations
  /\ phase = "resolve" /\ todo = <<>>
  /\ skipped = {} /\ bound = {} /\ initiators = {} /\ alive = {} /\ asked = {}
  /\ shut = FALSE

-----------------------------------------------------------------------------
(***************************************************************************)
(* Grouping.                                                               *)
(***************************************************************************)
Resolved == {i \in Sessions : Session(i).resolves}

SharesAddress(i) ==
  \E j \in Resolved \ {i} : IsAcceptor(j) /\ Session(j).address = Session(i).address

Grouped(i) ==
  IsAcceptor(i) /\ (SharesAddress(i) \/ Session(i).template \/ Session(i).allow)

GroupAt(address) ==
  {i \in Resolved : Grouped(i) /\ Session(i).address = address}

\* sorted_by_endpoint: the listeners of groups start in the order of address.
sorted_by_endpoint ==
  LET addresses == {Session(i).address : i \in {j \in Resolved : Grouped(j)}}
      inOrder == SetToSortSeq(addresses, LAMBDA a, b : a < b)
  IN  [n \in DOMAIN inOrder |-> GroupAt(inOrder[n])]

Singles == SetToSortSeq({i \in Resolved : ~Grouped(i)}, LAMBDA a, b : a < b)

\* What a group is refused for before anything of it is built.
Ambiguous(members) ==
  \/ Cardinality({i \in members : Session(i).template}) > 1
  \/ \E i, j \in members : /\ Session(i).identity = Session(j).identity
                           /\ Session(i).qualifier # Session(j).qualifier

-----------------------------------------------------------------------------
(***************************************************************************)
(* Engine::start.                                                          *)
(***************************************************************************)

\* resolve_lenient: a session that does not resolve is skipped if it says so
\* itself, otherwise start returns before anything is started.
Resolve ==
  /\ phase = "resolve"
  /\ IF \E i \in Sessions \ Resolved : ~Session(i).lenient
     THEN phase' = "err" /\ UNCHANGED <<todo, skipped>>
     ELSE /\ skipped' = Sessions \ Resolved
          /\ todo' = sorted_by_endpoint
          /\ phase' = "groups"
  /\ UNCHANGED <<settings, bound, initiators, alive, asked, shut>>

\* One group: its services, its stores, one listener with all its members.
StartGroup ==
  /\ phase = "groups" /\ todo # <<>>
  /\ ~Ambiguous(Head(todo))
  /\ bound' = bound \cup {Head(todo)}
  /\ alive' = alive \cup Head(todo)
  /\ todo' = Tail(todo)
  /\ UNCHANGED <<settings, phase, skipped, initiators, asked, shut>>

\* Strictest member wins.
Tolerated(members) == \A i \in members : Session(i).lenient

FailAfter(members, rest) ==
  /\ IF Tolerated(members)
     THEN /\ todo' = rest /\ skipped' = skipped \cup members
          /\ UNCHANGED phase
     ELSE phase' = "cleanup" /\ UNCHANGED <<todo, skipped>>
  /\ UNCHANGED <<settings, bound, initiators, alive, asked, shut>>

\* An ambiguous group, or an error of its store, log, bind or TLS.
GroupFails ==
  /\ phase = "groups" /\ todo # <<>>
  /\ FailAfter(Head(todo), Tail(todo))

GroupsDone ==
  /\ phase = "groups" /\ todo = <<>>
  /\ phase' = "singles" /\ todo' = Singles
  /\ UNCHANGED <<settings, skipped, bound, initiators, alive, asked, shut>>

StartSingle ==
  /\ phase = "singles" /\ todo # <<>>
  /\ LET i == Head(todo)
     IN  /\ bound' = IF IsAcceptor(i) THEN bound \cup {{i}} ELSE bound
         /\ initiators' = IF IsAcceptor(i) THEN initiators ELSE initiators \cup {i}
         /\ alive' = alive \cup {i}
  /\ todo' = Tail(todo)
  /\ UNCHANGED <<settings, phase, skipped, asked, shut>>

\* An error of its override, store, log, bind, TLS, proxy or connect.  A
\* failover initiator connects in its own task, after start.
SingleFails ==
  /\ phase = "singles" /\ todo # <<>>
  /\ FailAfter({Head(todo)}, Tail(todo))

StartDone ==
  /\ phase = "singles" /\ todo = <<>>
  /\ phase' = "ok"
  /\ UNCHANGED <<settings, todo, skipped, bound, initiators, alive, asked, shut>>

Failovers == {i \in initiators : Session(i).kind = "failover"}
Plains == initiators \ Failovers
Listening == UNION bound

\* Faulty variant: plain initiators are forgotten (what BUG-11 fixed).
CleanupListeners ==
  /\ phase = "cleanup"
  /\ asked' = asked \cup Listening \cup Failovers
  /\ phase' = "err"
  /\ UNCHANGED <<settings, todo, skipped, bound, initiators, alive, shut>>

\* cleanup_partial_start: abort the listeners, stop the failover loops, ask
\* every plain initiator to log out; then start returns the error.
Cleanup ==
  /\ phase = "cleanup"
  /\ asked' = asked \cup Listening \cup Failovers \cup Plains
  /\ phase' = "err"
  /\ UNCHANGED <<settings, todo, skipped, bound, initiators, alive, shut>>

\* shutdown() or Drop: abort_everything.
EngineShutdown ==
  /\ phase = "ok" /\ ~shut
  /\ shut' = TRUE
  /\ asked' = asked \cup Listening \cup initiators
  /\ UNCHANGED <<settings, phase, todo, skipped, bound, initiators, alive>>

\* A task that was asked to end has ended; an initiator may end by itself.
SessionTaskEnds(i) ==
  /\ i \in alive /\ (i \in asked \/ Session(i).kind = "plain")
  /\ alive' = alive \ {i}
  /\ UNCHANGED <<settings, phase, todo, skipped, bound, initiators, asked, shut>>

-----------------------------------------------------------------------------
(***************************************************************************)
(* The services of a group's sessions.  A service is named by the session  *)
(* whose configuration it was built from.                                  *)
(***************************************************************************)
Fields == {"store", "log", "validator", "fixt_dictionaries", "sync_write_timeout"}

Primary(members) == CHOOSE i \in members : \A j \in members : i <= j

\* with_session_store for every registered session, with_session_services for
\* all but the first.
Overrides(members, i) ==
  {"store"} \cup IF i = Primary(members) THEN {}
                 ELSE {"log", "validator", "fixt_dictionaries"}

\* What a connection routed to session i runs with: the group's services with
\* the session's overrides, or what the factory builds from the template.
ServicesFor(members, i) ==
  [f \in Fields |-> IF Session(i).template \/ f \in Overrides(members, i)
                    THEN i ELSE Primary(members)]

-----------------------------------------------------------------------------
(***************************************************************************)
(* Properties.                                                             *)
(***************************************************************************)

\* BUG-03: an address is bound once, whatever keys its sessions set, and every
\* acceptor session that runs is served by exactly one listener.
AddressBoundOnce ==
  \A m, n \in bound : \A i \in m, j \in n :
    Session(i).address = Session(j).address => m = n

\* A started engine runs every session that did not ask to be left out: a
\* session is skipped only with its own consent and that of its whole group.
StrictSessionsRun ==
  phase = "ok" =>
    \A i \in Sessions :
      \/ i \in Listening \cup initiators
      \/ i \in skipped /\ Session(i).lenient

\* A session of a group keeps its numbers, writes its log and validates by its
\* own configuration, not by that of the session that happens to come first.
OwnServices ==
  \A members \in bound : \A i \in members : \A f \in Fields \ {"sync_write_timeout"} :
    ServicesFor(members, i)[f] = i

\* All or nothing: after an error of start nothing it had started stays (BUG-11).
ErrorLeavesNothing == phase = "err" ~> alive = {}

\* shutdown() and Drop end every session task (BUG-27).
ShutdownEndsSessions == shut ~> alive = {}

\* Engine::start is all or nothing: what runs is what was configured, each
\* session with its own services, and what an error or shutdown ends is all.
StartAllOrNothing ==
  /\ [](AddressBoundOnce /\ StrictSessionsRun /\ OwnServices)
  /\ ErrorLeavesNothing
  /\ ShutdownEndsSessions
=============================================================================
