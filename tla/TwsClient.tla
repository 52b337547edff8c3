----------------------------- MODULE TwsClient -----------------------------
(***************************************************************************)
(* TwsApiClient of truefix-twsapi-client: the handshake, the event loop    *)
(* (run_with) and the requests of the application, which share one object  *)
(* and one socket.  The server is a script: the version it announces, what *)
(* it sends and in which order, the announcement included.                 *)
(***************************************************************************)
EXTENDS TwsEvents

CONSTANT
  Scripts  \* records [version, prefer, stream, calls]

VARIABLES
  script,          \* the script, which never changes
  taken,           \* how much of the stream the client has read
  socket,            \* ConnectionState; Connecting until connect() returns
  server_version,
  api_ready,
  pending,         \* pending_events
  reader,          \* "open", or "failed" once a read has returned an error
  out,             \* history: the frames written and the calls refused
  heard,           \* history: events with the callbacks they reached
  called           \* how many of the script's calls were made

TwsVars == <<script, taken, socket, server_version, api_ready, pending, reader, out, heard,
             called>>

ClientConfig == script.prefer
Announce == Message("announce", FALSE, FALSE, FALSE, FALSE)
Oversize == Message("oversize", FALSE, FALSE, FALSE, FALSE)
OnWire == taken < Len(script.stream)
Payload == script.stream[taken + 1]

TwsInit ==
  /\ script \in Scripts
  /\ taken = 0 /\ socket = "Connecting" /\ server_version = 0 /\ api_ready = FALSE
  /\ pending = <<>> /\ reader = "open" /\ out = <<>> /\ heard = <<>> /\ called = 0

-----------------------------------------------------------------------------
(***************************************************************************)
(* The application's calls: the message and the layout of each method.     *)
(***************************************************************************)
Of(message, layout) == [message |-> message, layout |-> layout]
OfId(message) == Of(message, IdRequest(message))
OfVersion(message) == Of(message, VersionedRequest(message))
OfNothing(message) == Of(message, EmptyRequest(message))

SystemCalls ==
  [req_current_time |-> OfVersion("ReqCurrentTime"), req_ids |-> OfId("ReqIds"),
   req_positions |-> OfVersion("ReqPositions"), raw_request |-> Of("ReqIds", RawRequest),
   set_server_log_level |-> Of("SetServerLogLevel", SetServerLogLevelRequest)]
MarketCalls ==
  [req_mkt_data |-> Of("ReqMktData", MarketDataRequest),
   cancel_mkt_data |-> OfId("CancelMktData"),
   req_market_data_type |-> Of("ReqMarketDataType", MarketDataTypeRequest),
   req_smart_components |-> Of("ReqSmartComponents", SmartComponentsRequest),
   req_market_rule |-> OfId("ReqMarketRule"),
   req_mkt_depth |-> Of("ReqMktDepth", MarketDepthRequest),
   cancel_mkt_depth |-> Of("CancelMktDepth", CancelMarketDepthRequest)]
OrderCalls ==
  [place_order |-> Of("PlaceOrder", PlaceOrderRequest),
   cancel_order |-> Of("CancelOrder", CancelOrderRequest),
   req_open_orders |-> OfVersion("ReqOpenOrders"),
   req_auto_open_orders |-> Of("ReqAutoOpenOrders", AutoOpenOrdersRequest),
   req_all_open_orders |-> OfVersion("ReqAllOpenOrders"),
   req_global_cancel |-> Of("ReqGlobalCancel", GlobalCancelRequest)]
AccountCalls ==
  [req_account_updates |-> Of("ReqAcctData", AccountDataRequest),
   req_account_summary |-> Of("ReqAccountSummary", AccountSummaryRequest),
   cancel_account_summary |-> OfId("CancelAccountSummary"),
   cancel_positions |-> OfVersion("CancelPositions"),
   req_positions_multi |-> Of("ReqPositionsMulti", PositionsMultiRequest),
   cancel_positions_multi |-> OfId("CancelPositionsMulti"),
   req_account_updates_multi |-> Of("ReqAccountUpdatesMulti", AccountUpdatesMultiRequest),
   cancel_account_updates_multi |-> OfId("CancelAccountUpdatesMulti"),
   req_pnl |-> Of("ReqPnl", PnlRequest), cancel_pnl |-> OfId("CancelPnl"),
   req_pnl_single |-> Of("ReqPnlSingle", PnlSingleRequest),
   cancel_pnl_single |-> OfId("CancelPnlSingle")]
ContractCalls ==
  [req_executions |-> Of("ReqExecutions", ExecutionRequest),
   req_contract_details |-> Of("ReqContractData", ContractDetailsRequest),
   cancel_contract_data |-> OfId("CancelContractData"),
   req_mkt_depth_exchanges |-> OfNothing("ReqMktDepthExchanges"),
   req_news_bulletins |-> Of("ReqNewsBulletins", NewsBulletinsRequest),
   cancel_news_bulletins |-> OfVersion("CancelNewsBulletins"),
   req_managed_accounts |-> OfVersion("ReqManagedAccounts"),
   request_fa |-> Of("ReqFa", FinancialAdvisorRequest),
   replace_fa |-> Of("ReplaceFa", ReplaceFinancialAdvisorRequest),
   req_historical_data |-> Of("ReqHistoricalData", HistoricalDataRequest),
   cancel_historical_data |-> OfId("CancelHistoricalData"),
   req_scanner_parameters |-> OfVersion("ReqScannerParameters"),
   req_scanner_subscription |-> Of("ReqScannerSubscription", ScannerSubscriptionRequest),
   cancel_scanner_subscription |-> OfId("CancelScannerSubscription"),
   id_request_with_options |-> Of("ReqIds", RawRequest)]
TickCalls ==
  [req_tick_by_tick_data |-> Of("ReqTickByTickData", TickByTickRequest),
   cancel_tick_by_tick_data |-> OfId("CancelTickByTickData"),
   calculate_implied_volatility |->
     Of("ReqCalcImpliedVolat", CalculateImpliedVolatilityRequest),
   cancel_calculate_implied_volatility |-> OfId("CancelCalcImpliedVolat"),
   calculate_option_price |-> Of("ReqCalcOptionPrice", CalculateOptionPriceRequest),
   cancel_calculate_option_price |-> OfId("CancelCalcOptionPrice"),
   exercise_options |-> Of("ExerciseOptions", ExerciseOptionsRequest),
   req_head_timestamp |-> Of("ReqHeadTimestamp", HeadTimestampRequest),
   cancel_head_timestamp |-> OfId("CancelHeadTimestamp"),
   req_histogram_data |-> Of("ReqHistogramData", HistogramDataRequest),
   cancel_histogram_data |-> OfId("CancelHistogramData"),
   req_historical_ticks |-> Of("ReqHistoricalTicks", HistoricalTicksRequest),
   cancel_historical_ticks |-> OfId("CancelHistoricalTicks"),
   req_real_time_bars |-> Of("ReqRealTimeBars", RealTimeBarsRequest),
   cancel_real_time_bars |-> OfId("CancelRealTimeBars")]
NewsCalls ==
  [req_news_providers |-> OfNothing("ReqNewsProviders"),
   req_news_article |-> Of("ReqNewsArticle", NewsArticleRequest),
   req_historical_news |-> Of("ReqHistoricalNews", HistoricalNewsRequest),
   query_display_groups |-> OfId("QueryDisplayGroups"),
   subscribe_to_group_events |-> Of("SubscribeToGroupEvents", SubscribeToGroupEventsRequest),
   update_display_group |-> Of("UpdateDisplayGroup", UpdateDisplayGroupRequest),
   unsubscribe_from_group_events |-> OfId("UnsubscribeFromGroupEvents"),
   verify_request |-> Of("VerifyRequest", VerifyRequest),
   verify_message |-> Of("VerifyMessage", VerifyMessageRequest),
   verify_and_auth_request |-> Of("VerifyAndAuthRequest", VerifyAndAuthRequest),
   verify_and_auth_message |-> Of("VerifyAndAuthMessage", VerifyAndAuthMessageRequest)]
ReferenceCalls ==
  [req_sec_def_opt_params |-> Of("ReqSecDefOptParams", SecDefOptParamsRequest),
   req_soft_dollar_tiers |-> OfId("ReqSoftDollarTiers"),
   req_family_codes |-> OfNothing("ReqFamilyCodes"),
   req_matching_symbols |-> Of("ReqMatchingSymbols", MatchingSymbolsRequest),
   req_completed_orders |-> Of("ReqCompletedOrders", CompletedOrdersRequest),
   req_wsh_meta_data |-> OfId("ReqWshMetaData"),
   cancel_wsh_meta_data |-> OfId("CancelWshMetaData"),
   req_wsh_event_data |-> Of("ReqWshEventData", WshEventDataRequest),
   cancel_wsh_event_data |-> OfId("CancelWshEventData"),
   req_user_info |-> OfId("ReqUserInfo"),
   req_current_time_in_millis |-> OfNothing("ReqCurrentTimeInMillis")]
\* Payloads the application has serialised itself.
PayloadCalls ==
  [m \in {"req_config_protobuf", "update_config_protobuf", "send_protobuf_request"} |->
     Of([req_config_protobuf |-> "ReqConfig", update_config_protobuf |-> "UpdateConfig",
         send_protobuf_request |-> "ReqIds"][m], RawRequest)]
Calls ==
  SystemCalls @@ MarketCalls @@ OrderCalls @@ AccountCalls @@ ContractCalls @@ TickCalls
  @@ NewsCalls @@ ReferenceCalls @@ PayloadCalls

use_protobuf(message) == SupportsProtobuf(message, server_version)

send_request(message, layout, given) ==
  encode_request_frame_with_protobuf(message, layout, server_version,
                                     api_ready /\ ClientConfig, given)

place_order(given) ==
  IF /\ use_protobuf("PlaceOrder")
     /\ given \cap (validate_order_parameters(server_version)
                    \cup validate_attached_orders_parameters(server_version)) # {}
  THEN Frame("PlaceOrder", "refused", FALSE, {})
  ELSE send_request("PlaceOrder", PlaceOrderRequest, given)
req_positions ==
  IF server_version < V.POSITIONS THEN Frame("ReqPositions", "refused", FALSE, {})
  ELSE send_request("ReqPositions", VersionedRequest("ReqPositions"), {})
send_protobuf(message, given) == Frame(message, "protobuf", TRUE, given)
send_protobuf_request(message, given) ==
  IF use_protobuf(message) THEN send_protobuf(message, given)
  ELSE Frame(message, "refused", FALSE, {})

Invoke(method, given) ==
  CASE method = "place_order" -> place_order(given)
    [] method = "req_positions" -> req_positions
    [] method \in {"req_config_protobuf", "update_config_protobuf"} ->
         send_protobuf(Calls[method].message, given)
    [] method = "send_protobuf_request" ->
         send_protobuf_request(Calls[method].message, given)
    [] OTHER -> send_request(Calls[method].message, Calls[method].layout, given)

\* A call writes to the socket, which fails once it is shut down.  After a read
\* error the client still has its socket and goes on writing.
Call ==
  /\ socket # "Connecting" /\ called < Len(script.calls)
  /\ called' = called + 1
  /\ out' = IF socket = "Connected"
            THEN LET c == script.calls[called + 1]
                 IN  Append(out, [method |-> c.method, given |-> c.given, ready |-> api_ready,
                                  frame |-> Invoke(c.method, c.given)])
            ELSE out
  /\ UNCHANGED <<script, taken, socket, server_version, api_ready, pending, reader, heard>>

Disconnect ==
  /\ socket = "Connected"
  /\ socket' = "Disconnected"
  /\ UNCHANGED <<script, taken, server_version, api_ready, pending, reader, out, heard,
                 called>>

-----------------------------------------------------------------------------
\* Messages whose body is one field: with the id they are two fields, as the
\* announcement (version, connection time) is.
OneField ==
  {"NextValidId", "CurrentTime", "CurrentTimeInMillis", "ManagedAccounts", "AccountUpdateTime",
   "AccountDownloadEnd", "ScannerParameters", "TickSnapshotEnd", "ContractDataEnd",
   "ExecutionDataEnd"}
IsAnswer(m) == m = Announce \/ (m.name \in OneField /\ ~m.proto /\ ~m.raw)
VersionIn(m) == IF m = Announce THEN script.version ELSE WireId(m.name, FALSE)

StartApi(version) ==
  [method |-> "start_api", given |-> {"client_id", "optional_capabilities"}, ready |-> FALSE,
   frame |-> encode_request_frame_with_protobuf("StartApi", StartApiRequest, version, FALSE,
                                                {"client_id", "optional_capabilities"})]

\* The payload read_payload returns next; an oversized one is an error.
Takes(m) == m # Oversize /\ taken' = taken + 1

ReadHandshake ==
  /\ socket = "Connecting" /\ reader = "open" /\ OnWire
  /\ \E m \in {Payload} : Takes(m) /\ IsAnswer(m)
       /\ server_version' = VersionIn(m)
       /\ out' = Append(out, StartApi(VersionIn(m)))
  /\ socket' = "Connected"
  /\ UNCHANGED <<script, api_ready, pending, reader, heard, called>>

\* Faulty variant: an early event is passed on without what follows from it.
QueueEarlyWithoutFollowUp ==
  /\ socket = "Connecting" /\ reader = "open" /\ OnWire
  /\ \E m \in {Payload} : Takes(m) /\ ~IsAnswer(m)
       /\ \E event \in decode_payload(FALSE, m) \ {Undecodable} :
            pending' = Append(pending, event)
  /\ UNCHANGED <<script, socket, server_version, api_ready, reader, out, heard, called>>

QueueEarly ==
  /\ socket = "Connecting" /\ reader = "open" /\ OnWire
  /\ \E m \in {Payload} : Takes(m) /\ ~IsAnswer(m)
       /\ \E event \in decode_payload(FALSE, m) \ {Undecodable} :
            pending' = Append(pending, event) \o follow_up_event(event)
  /\ UNCHANGED <<script, socket, server_version, api_ready, reader, out, heard, called>>

\* The announcement read as an event, because a message was taken for it: the
\* version is an id that heads a body which is none.
decode_announcement(raw) ==
  LET name == try_from(IF script.version > PROTOBUF_MSG_ID
                       THEN script.version - PROTOBUF_MSG_ID ELSE script.version)
  IN  IF raw THEN {Undecodable}
      ELSE {Undecodable, Misread(IF name \in DOMAIN FieldEvents THEN FieldEvents[name]
                                 ELSE "Raw", Announce)}
Decoded(m) ==
  LET raw == server_version >= V.PROTOBUF
  IN  IF m = Announce THEN decode_announcement(raw) ELSE decode_payload(raw, m)

ReadPending ==
  /\ socket # "Connecting" /\ pending # <<>>
  /\ heard' = Append(heard, <<Head(pending), dispatch(Head(pending))>>)
  /\ pending' = Tail(pending)
  /\ UNCHANGED <<script, taken, socket, server_version, api_ready, reader, out, called>>

ReadEvent ==
  /\ socket # "Connecting" /\ pending = <<>> /\ reader = "open" /\ OnWire
  /\ \E m \in {Payload} : Takes(m)
       /\ \E event \in Decoded(m) \ {Undecodable} :
            /\ heard' = Append(heard, <<event, dispatch(event)>>)
            /\ api_ready' = (api_ready \/ event.name \in {"NextValidId", "ManagedAccounts"})
            /\ pending' = follow_up_event(event)
  /\ UNCHANGED <<script, socket, server_version, reader, out, called>>

\* The end of the stream, an oversized frame and a payload that does not decode
\* end connect() or run_with with an error; the connection state stays.
ReadFails ==
  /\ reader = "open" /\ (socket = "Connecting" \/ pending = <<>>)
  /\ \/ ~OnWire /\ UNCHANGED taken
     \/ OnWire /\ Payload = Oversize /\ UNCHANGED taken
     \/ /\ OnWire /\ Payload # Oversize
        /\ ~(socket = "Connecting" /\ IsAnswer(Payload))
        /\ Undecodable \in IF socket = "Connecting" THEN decode_payload(FALSE, Payload)
                           ELSE Decoded(Payload)
        /\ taken' = taken + 1
  /\ reader' = "failed"
  /\ UNCHANGED <<script, socket, server_version, api_ready, pending, out, heard, called>>

TwsRead == ReadHandshake \/ QueueEarly \/ ReadPending \/ ReadEvent \/ ReadFails

-----------------------------------------------------------------------------
(***************************************************************************)
(* Properties.                                                             *)
(***************************************************************************)
\* read_handshake takes the first payload of two fields for the announcement; a
\* server that sends a one-field message before it is taken at its word.
EarlyAnswer ==
  \E i \in DOMAIN script.stream :
    IsAnswer(script.stream[i]) /\ script.stream[i] # Announce
    /\ \A j \in 1..i : script.stream[j] # Announce

PayloadMethods == DOMAIN PayloadCalls

\* What the server can parse is what was negotiated with it: a raw message id
\* exactly from version 201 on, and protobuf bodies only for messages the
\* announced version has them for, after the callbacks that follow startApi and
\* when the configuration asks for them.  (The methods for payloads the caller
\* has serialised are the caller's choice.)
FramesNegotiated ==
  ~EarlyAnswer =>
    \A i \in DOMAIN out :
      LET f == out[i].frame
      IN  /\ f.form = "fields" => (f.raw <=> script.version >= V.PROTOBUF)
          /\ f.form # "refused" => (f.id > PROTOBUF_MSG_ID <=> f.form = "protobuf")
          /\ (f.form = "protobuf" /\ out[i].method \notin PayloadMethods) =>
               /\ SupportsProtobuf(f.message, script.version) /\ script.prefer
               /\ \E j \in DOMAIN heard :
                    heard[j][1].name \in {"NextValidId", "ManagedAccounts"}

\* What an order loses in protobuf: see order_to_proto.
LostInProtobuf ==
  [method \in DOMAIN Calls |->
     IF method = "place_order" THEN Conditions \cup {"auction_strategy", "extra_fields"}
     ELSE {}]

\* The same call made before and after the client switches to protobuf carries
\* the same parameters at least: the switch happens between two calls, when an
\* event arrives, and the application does not see it.
SwitchKeepsParameters ==
  \A i, j \in DOMAIN out :
    (out[i].method = out[j].method /\ out[i].given = out[j].given
     /\ out[i].frame.form = "fields" /\ out[j].frame.form = "protobuf") =>
      out[i].frame.carries \subseteq
        out[j].frame.carries \cup LostInProtobuf[out[i].method]

\* place_order refuses the parameters the server is too old for, whichever form
\* the order would take, and a protobuf order carries the ones it validates.
OrderAsValidated ==
  ~EarlyAnswer =>
    \A i \in DOMAIN out :
      LET checked == validate_order_parameters(0) \cup validate_attached_orders_parameters(0)
          unknown == validate_order_parameters(script.version)
                     \cup validate_attached_orders_parameters(script.version)
      IN  (out[i].method = "place_order" /\ out[i].frame.form # "refused"
           /\ script.version >= V.PLACE_ORDER) =>
            /\ out[i].given \cap unknown = {}
            /\ out[i].frame.form = "protobuf" =>
                 out[i].given \cap checked \subseteq out[i].frame.carries

-----------------------------------------------------------------------------
\* The event of a message, and the event that follows from it.
Meaning(m) ==
  LET name == IF m.proto
              THEN IF m.name \in DOMAIN ProtoEvents THEN ProtoEvents[m.name] ELSE "RawProtobuf"
              ELSE IF m.name \in DOMAIN FieldEvents THEN FieldEvents[m.name] ELSE "Raw"
  IN  IF name = "ScannerData" THEN <<name, "ScannerDataEnd">> ELSE <<name>>
Meanings[n \in 0..taken] ==
  IF n = 0 THEN <<>>
  ELSE Meanings[n - 1] \o
         (IF script.stream[n] = Announce THEN <<>> ELSE Meaning(script.stream[n]))

\* Every message of the server becomes its event, once and in the order sent,
\* those that came before the handshake was over included, and a scanner result
\* is followed at once by its end.  A message that does not decode is the last.
EventsInOrder ==
  ~EarlyAnswer =>
    LET all == [i \in DOMAIN heard |-> heard[i][1].name]
               \o [i \in DOMAIN pending |-> pending[i].name]
    IN  all = Meanings[taken] \/ (reader = "failed" /\ all = Meanings[taken - 1])

\* The values of an event are those of its message, unless the decoder had to
\* guess whether a version comes first and the symbol looked like a number.
HeardAsSent ==
  \A i \in DOMAIN heard :
    heard[i][1].misread =>
      \/ EarlyAnswer
      \/ \E j \in 1..taken : /\ script.stream[j].name = heard[i][1].message
                            /\ ~script.stream[j].versioned /\ script.stream[j].numeric

\* Messages with another callback in each form, and what protobuf leaves out.
OtherInProtobuf ==
  {"BondContractData", "SecurityDefinitionOptionParameter",
   "SecurityDefinitionOptionParameterEnd", "TickEfp", "DeltaNeutralValidation",
   "VerifyAndAuthMessageApi", "VerifyAndAuthCompleted", "ConfigResponse",
   "UpdateConfigResponse"}
Fills(event) == IF event.proto THEN ProtoFills[event.message] ELSE FieldFills[event.message]

\* A message means the same to the application in both encodings: it reaches the
\* same callback, and the protobuf form fills in what the fields did, but for the
\* conditions of an order.
SwitchKeepsEvents ==
  \A i, j \in DOMAIN heard :
    LET old == heard[i][1]
        new == heard[j][1]
    IN  (old.message = new.message /\ ~old.proto /\ new.proto
         /\ ~(old.name = "ScannerDataEnd" \/ new.name = "ScannerDataEnd")
         /\ ~EarlyAnswer) =>
          /\ (old.name = new.name) <=> (old.message \notin OtherInProtobuf)
          /\ old.message \in DOMAIN FieldFills =>
               \A k \in 1..2 : Fills(old)[k] \subseteq Fills(new)[k] \cup {"conditions"}

\* An order placed in protobuf comes back in OpenOrder with every parameter the
\* request carried, but for the orders attached to it and the leg prices.
PlacedOrderComesBack ==
  \A i \in DOMAIN out, j \in DOMAIN heard :
    (out[i].method = "place_order" /\ heard[j][1].message = "OpenOrder"
     /\ out[i].frame.form = "protobuf" /\ heard[j][1].proto) =>
      (out[i].frame.carries \cap Order) \ (AttachedOrders \cup {"order_combo_legs"})
        \subseteq Fills(heard[j][1])[2]

\* What was queued is delivered even when the server falls silent.
QueueIsDelivered ==
  (socket = "Connected" /\ pending # <<>>) ~> pending = <<>>

\* A request reaches the server in a form it knows and with what was asked.
RequestsUnderstood == FramesNegotiated /\ SwitchKeepsParameters /\ OrderAsValidated

\* The application hears what the server said: all of it, in order, and the same
\* in both encodings.
EventsFaithful ==
  EventsInOrder /\ HeardAsSent /\ SwitchKeepsEvents /\ PlacedOrderComesBack
=============================================================================
