------------------------------- MODULE MCTws -------------------------------
(***************************************************************************)
(* What the servers of TwsClient announce and send, and what applications  *)
(* call: every request before and after the client becomes ready, every    *)
(* message in both forms, and some mixed streams.                          *)
(***************************************************************************)
EXTENDS TwsClient

\* Before and after most gates of the field encoding, and on both sides of the
\* first protobuf versions.
Versions == {38, 66, 110, 188, 201, 203, 213, 225}

Text(name) == Message(name, FALSE, FALSE, TRUE, FALSE)
\* A message as a server of this version sends it.
At(version, name, proto) == Message(name, proto, version >= V.PROTOBUF, TRUE, FALSE)

Traits == {"BAG", "SMART", "PEG BENCH", "IBKRATS", "PEG BEST", "mid offsets"}
Parameters(method) ==
  Traits \cup Names(Calls[method].layout.fields) \cup Calls[method].layout.proto
         \cup {p \in Order : method = "place_order"}
AllOf(method) == [method |-> method, given |-> Parameters(method)]
Without(method, p) == [method |-> method, given |-> Parameters(method) \ p]
Script(version, prefer, stream, calls) ==
  [version |-> version, prefer |-> prefer, stream |-> stream, calls |-> calls]

CallScripts ==
  {Script(v, TRUE, <<Announce, At(v, "NextValidId", FALSE)>>, <<AllOf(m), AllOf(m)>>) :
     v \in Versions, m \in DOMAIN Calls}
  \cup {Script(v, p, <<Announce, At(v, "ManagedAccounts", FALSE)>>,
               <<Without("place_order", x)>>) :
          v \in {188, 201, 203, 213, 225}, p \in BOOLEAN,
          x \in {AttachedOrders, {"hedge_max_size"} \cup AttachedOrders, {"conditions"}}}

EventScripts ==
  {Script(v, FALSE, <<Announce, At(v, m, FALSE)>>
                    \o (IF v >= V.PROTOBUF THEN <<At(v, m, TRUE)>> ELSE <<>>), <<>>) :
     v \in {110, 201, 225}, m \in DOMAIN Incoming}
  \* with and without a version field, before a symbol that is a number or not
  \cup {Script(v, FALSE, <<Announce, Message(m, FALSE, v >= V.PROTOBUF, ver, num),
                          At(v, "TickSize", FALSE)>>, <<>>) :
          v \in {110, 201}, m \in GuessesVersion, ver \in BOOLEAN, num \in BOOLEAN}
  \cup {Script(110, FALSE, <<Announce, Oversize, At(110, "TickSize", FALSE)>>, <<>>)}
  \cup {Script(v, TRUE, <<Announce, At(v, "NextValidId", FALSE),
                         At(v, "OpenOrder", v >= V.PLACE_ORDER)>>, <<AllOf("place_order")>>) :
          v \in Versions}

\* Before the announcement, and after it.
EarlyScripts ==
  {Script(v, TRUE, <<Text(m), Announce, At(v, "ScannerData", v = 225),
                    At(v, "NextValidId", FALSE)>>, <<AllOf("req_ids")>>) :
     v \in {66, 110, 225}, m \in {"ScannerData", "NextValidId", "TickSize", "ErrorMessage"}}

QuietScript == Script(110, FALSE, <<Announce>>, <<>>)
MCScripts == CallScripts \cup EventScripts \cup EarlyScripts
ShortScripts ==
  EarlyScripts \cup {QuietScript, Script(110, FALSE, <<Announce, Oversize>>, <<>>),
                     Script(110, FALSE, <<Announce, At(110, "ScannerData", FALSE)>>, <<>>)}
=============================================================================
