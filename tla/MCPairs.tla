------------------------------ MODULE MCPairs ------------------------------
(***************************************************************************)
(* Model checking of two ends that have to agree: two FIX engines over a   *)
(* link that breaks (SessionPair), and a client with the venue it talks    *)
(* to: OKX by request (OkxRest) and by stream (OkxStream), IG (IgClient)   *)
(* and TWS (TwsClient).  `part' says which one a behaviour is about; the   *)
(* variables of the others are idle.                                       *)
(***************************************************************************)
EXTENDS MCSessionPair, OkxRest, OkxStream

VARIABLE part
VARIABLES ig_program, ig_now, ig_task, ig_session, ig_server, ig_streams, ig_faults
VARIABLES script, taken, socket, server_version, api_ready, queue, reader, out, heard, called

IgVars == <<ig_program, ig_now, ig_task, ig_session, ig_server, ig_streams, ig_faults>>
TwsVars == <<script, taken, socket, server_version, api_ready, queue, reader, out, heard,
             called>>

-----------------------------------------------------------------------------
(* What callers of the IG and OKX clients do. *)
IgCall(method) == [call |-> method, account |-> "A", id |-> 0, bad |-> FALSE]
Bad(method) == [IgCall(method) EXCEPT !.bad = TRUE]
Deal(method, id) == [IgCall(method) EXCEPT !.id = id]
SwitchTo(account) == [IgCall("switch_account") EXCEPT !.account = account]
IgWork(first, second) ==
  [calls |-> [a |-> first, b |-> second], credentials |-> TRUE, lives |-> {0, 3}, faults |-> 0]

MCIgPrograms ==
  {IgWork(<<IgCall("login_v3"), IgCall("get"), IgCall("logout")>>,
          <<IgCall("search_markets"), IgCall("historical_prices")>>),
   \* a second login beside reads that refresh
   IgWork(<<IgCall("login_v3"), IgCall("login_v3"), IgCall("connect_streaming")>>,
          <<IgCall("get"), IgCall("get")>>),
   IgWork(<<IgCall("login_v2"), SwitchTo("B"), IgCall("connect_streaming"), SwitchTo("A")>>,
          <<IgCall("get"), IgCall("connect_streaming")>>),
   \* a switch is refused for a V3 session
   IgWork(<<IgCall("login_v3"), SwitchTo("B")>>, <<Bad("category_instruments"),
                                                   Bad("account_activity_next")>>),
   [IgWork(<<IgCall("login_v3"), Deal("create_position", 1), Deal("update_working_order", 2)>>,
           <<IgCall("account_activity"), IgCall("connect_streaming")>>) EXCEPT !.faults = 2],
   [IgWork(<<IgCall("login_v2"), SwitchTo("B"), Deal("create_working_order", 1),
             IgCall("logout"), Deal("delete_working_order", 2)>>, <<IgCall("get")>>)
      EXCEPT !.faults = 1],
   [IgWork(<<IgCall("login_v3"), Bad("login_v3")>>, <<IgCall("get")>>)
      EXCEPT !.credentials = FALSE]}

MCRestPrograms ==
  [calls : [{"a", "b"} -> {<<q>> : q \in Requests} \cup {<<>>}], credentials : {TRUE}]
  \cup [calls : {[a |-> <<q>>, b |-> <<>>] : q \in Requests}, credentials : {FALSE}]

\* Time passes on a public connection, much happens on the others.
MCStreamBounds ==
  [public |-> [app |-> 1, ends |-> 1, ticks |-> 12],
   private |-> [app |-> 4, ends |-> 1, ticks |-> 0],
   business |-> [app |-> 4, ends |-> 1, ticks |-> 0]]

-----------------------------------------------------------------------------
Ig == INSTANCE IgClient WITH
  IgCallers <- {"a", "b"}, First <- "a", IgPrograms <- MCIgPrograms, MaxNow <- 3
Scribe == INSTANCE MCTws WITH Scripts <- {}, pending <- queue
Tws == INSTANCE TwsClient WITH Scripts <- Scribe!MCScripts, pending <- queue

allVars == <<part, vars, RestVars, StreamVars, IgVars, TwsVars>>

Unused == "unused"
NoRequests == [calls |-> [a |-> <<>>, b |-> <<>>], credentials |-> TRUE]
IgIdle ==
  /\ ig_program = Unused /\ ig_now = Unused /\ ig_task = Unused /\ ig_session = Unused
  /\ ig_server = Unused /\ ig_streams = Unused /\ ig_faults = Unused
TwsIdle ==
  /\ script = Unused /\ taken = Unused /\ socket = Unused /\ server_version = Unused
  /\ api_ready = Unused /\ queue = Unused /\ reader = Unused /\ out = Unused /\ heard = Unused
  /\ called = Unused

MCInit ==
  /\ part \in {"fix", "rest", "stream", "ig", "tws"}
  /\ Init /\ (part # "fix" => setup = "plain")
  /\ RestInit /\ (part # "rest" => rest_program = NoRequests)
  /\ StreamInit /\ (part # "stream" => kind = "public")
  /\ IF part = "ig" THEN Ig!IgInit ELSE IgIdle
  /\ IF part = "tws" THEN Tws!TwsInit ELSE TwsIdle

P == part = "fix" /\ UNCHANGED <<part, RestVars, StreamVars, IgVars, TwsVars>>
R == part = "rest" /\ UNCHANGED <<part, vars, StreamVars, IgVars, TwsVars>>
S == part = "stream" /\ UNCHANGED <<part, vars, RestVars, IgVars, TwsVars>>
I == part = "ig" /\ UNCHANGED <<part, vars, RestVars, StreamVars, TwsVars>>
W == part = "tws" /\ UNCHANGED <<part, vars, RestVars, StreamVars, IgVars>>

MCNext ==
  \/ P /\ Next
  \/ R /\ RestNext
  \/ S /\ StreamNext
  \/ I /\ Ig!IgNext
  \/ W /\ Tws!Call
  \/ W /\ Tws!Disconnect
  \/ W /\ Tws!ReadHandshake
  \/ W /\ Tws!QueueEarly
  \/ W /\ Tws!ReadPending
  \/ W /\ Tws!ReadEvent
  \/ W /\ Tws!ReadFails

MCSpec == MCInit /\ [][MCNext]_allVars

-----------------------------------------------------------------------------
\* A TWS request goes out in the form and with the fields its server understands.
RequestsUnderstood == part = "tws" => Tws!RequestsUnderstood

\* TWS events reach the application as the messages that were sent, in order.
EventsFaithful == part = "tws" => Tws!EventsFaithful

\* The IG client: its credentials belong together and are the ones IG takes, a
\* call that changes something is carried out once, and after a logout there is
\* no session before the next login.
IgHonest ==
  /\ [](part = "ig" => /\ Ig!CredentialsBelong
                       /\ Ig!RefreshKeepsSession
                       /\ Ig!DealtOnce)
  /\ [][(part = "ig" /\ ig_session = <<>> /\ ig_session' # <<>>) =>
          \E p \in {"a", "b"} : Ig!LoginDone(p)]_allVars
=============================================================================
