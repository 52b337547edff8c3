----------------------------- MODULE TwsEvents -----------------------------
(***************************************************************************)
(* The messages of the server to truefix-twsapi-client: their ids, the     *)
(* event each is decoded into in either form, which attributes of a        *)
(* structured event a form fills, and the callback an event is dispatched  *)
(* to.  The values of the attributes and their positions are left out.     *)
(***************************************************************************)
EXTENDS TwsRequests, Sequences

Same(names) == [n \in names |-> n]

-----------------------------------------------------------------------------
(***************************************************************************)
(* Ids.                                                                    *)
(***************************************************************************)

IncomingTo59 ==
  [TickPrice |-> 1, TickSize |-> 2, OrderStatus |-> 3, ErrorMessage |-> 4, OpenOrder |-> 5,
   AccountValue |-> 6, PortfolioValue |-> 7, AccountUpdateTime |-> 8, NextValidId |-> 9,
   ContractData |-> 10, ExecutionData |-> 11, MarketDepth |-> 12, MarketDepthL2 |-> 13,
   NewsBulletins |-> 14, ManagedAccounts |-> 15, ReceiveFa |-> 16, HistoricalData |-> 17,
   BondContractData |-> 18, ScannerParameters |-> 19, ScannerData |-> 20,
   TickOptionComputation |-> 21, TickGeneric |-> 45, TickString |-> 46, TickEfp |-> 47,
   CurrentTime |-> 49, RealTimeBars |-> 50, ContractDataEnd |-> 52, OpenOrderEnd |-> 53,
   AccountDownloadEnd |-> 54, ExecutionDataEnd |-> 55, DeltaNeutralValidation |-> 56,
   TickSnapshotEnd |-> 57, MarketDataType |-> 58, CommissionAndFeesReport |-> 59]
IncomingFrom61 ==
  [PositionData |-> 61, PositionEnd |-> 62, AccountSummary |-> 63, AccountSummaryEnd |-> 64,
   VerifyMessageApi |-> 65, VerifyCompleted |-> 66, DisplayGroupList |-> 67,
   DisplayGroupUpdated |-> 68, VerifyAndAuthMessageApi |-> 69, VerifyAndAuthCompleted |-> 70,
   PositionMulti |-> 71, PositionMultiEnd |-> 72, AccountUpdateMulti |-> 73,
   AccountUpdateMultiEnd |-> 74, SecurityDefinitionOptionParameter |-> 75,
   SecurityDefinitionOptionParameterEnd |-> 76, SoftDollarTiers |-> 77, FamilyCodes |-> 78,
   SymbolSamples |-> 79, MarketDepthExchanges |-> 80, TickRequestParameters |-> 81,
   SmartComponents |-> 82, NewsArticle |-> 83, TickNews |-> 84, NewsProviders |-> 85,
   HistoricalNews |-> 86, HistoricalNewsEnd |-> 87, HeadTimestamp |-> 88,
   HistogramData |-> 89, HistoricalDataUpdate |-> 90, RerouteMarketDataRequest |-> 91,
   RerouteMarketDepthRequest |-> 92, MarketRule |-> 93, Pnl |-> 94, PnlSingle |-> 95,
   HistoricalTicks |-> 96, HistoricalTicksBidAsk |-> 97, HistoricalTicksLast |-> 98,
   TickByTick |-> 99, OrderBound |-> 100, CompletedOrder |-> 101, CompletedOrdersEnd |-> 102,
   ReplaceFaEnd |-> 103, WshMetaData |-> 104, WshEventData |-> 105, HistoricalSchedule |-> 106,
   UserInfo |-> 107, HistoricalDataEnd |-> 108, CurrentTimeInMillis |-> 109,
   ConfigResponse |-> 110, UpdateConfigResponse |-> 111]
Incoming == IncomingTo59 @@ IncomingFrom61

\* The id on the wire; Incoming::try_from the other way ("unknown" is its Err).
WireId(message, proto) == IF proto THEN Incoming[message] + PROTOBUF_MSG_ID ELSE Incoming[message]
try_from(id) ==
  IF \E m \in DOMAIN Incoming : Incoming[m] = id
  THEN CHOOSE m \in DOMAIN Incoming : Incoming[m] = id ELSE "unknown"

-----------------------------------------------------------------------------
(***************************************************************************)
(* decode_payload: from the fields of a message to an event.               *)
(***************************************************************************)
FieldsReference ==
  Same({"NextValidId", "CurrentTime", "CurrentTimeInMillis", "ManagedAccounts",
        "AccountValue", "AccountUpdateTime", "AccountDownloadEnd", "ReceiveFa",
        "ScannerParameters", "ScannerData", "SoftDollarTiers", "FamilyCodes",
        "SymbolSamples", "SmartComponents", "MarketDepthExchanges", "HeadTimestamp",
        "HistogramData", "RerouteMarketDataRequest", "RerouteMarketDepthRequest",
        "MarketRule", "DisplayGroupList", "DisplayGroupUpdated", "MarketDataType"})
  @@ [ErrorMessage |-> "Error", NewsBulletins |-> "NewsBulletin"]
FieldsTicksAndOrders ==
  Same({"TickPrice", "TickSize", "TickGeneric", "TickString", "TickOptionComputation",
        "TickEfp", "TickSnapshotEnd", "MarketDepth", "OrderStatus",
        "DeltaNeutralValidation", "CommissionAndFeesReport", "PortfolioValue", "OpenOrder",
        "OpenOrderEnd"})
  @@ [TickRequestParameters |-> "TickReqParams", MarketDepthL2 |-> "MarketDepth",
      ContractData |-> "ContractDetails", BondContractData |-> "ContractDetails",
      ContractDataEnd |-> "ContractDetailsEnd", ExecutionData |-> "ExecutionDetails",
      ExecutionDataEnd |-> "ExecutionDetailsEnd"]
FieldsPositions ==
  Same({"PositionEnd", "PositionMulti", "PositionMultiEnd", "AccountSummary",
        "AccountSummaryEnd", "AccountUpdateMulti", "AccountUpdateMultiEnd",
        "VerifyMessageApi", "VerifyCompleted", "VerifyAndAuthMessageApi",
        "VerifyAndAuthCompleted", "SecurityDefinitionOptionParameter",
        "SecurityDefinitionOptionParameterEnd"})
  @@ [PositionData |-> "Position"]
FieldsHistoryAndNews ==
  Same({"HistoricalDataUpdate", "HistoricalTicks", "HistoricalTicksBidAsk",
        "HistoricalTicksLast", "TickByTick", "HistoricalSchedule", "Pnl", "PnlSingle",
        "NewsArticle", "NewsProviders", "HistoricalNews", "HistoricalNewsEnd", "TickNews",
        "HistoricalDataEnd", "ReplaceFaEnd", "WshMetaData", "WshEventData",
        "CompletedOrdersEnd", "CompletedOrder", "OrderBound", "UserInfo"})
  @@ [HistoricalData |-> "HistoricalDataBars", RealTimeBars |-> "RealTimeBar"]
FieldEvents ==
  FieldsReference @@ FieldsTicksAndOrders @@ FieldsPositions @@ FieldsHistoryAndNews

(***************************************************************************)
(* decode_protobuf_event.                                                  *)
(***************************************************************************)
ProtoReference ==
  Same({"NextValidId", "CurrentTime", "CurrentTimeInMillis", "ManagedAccounts",
        "OrderStatus", "TickString", "TickPrice", "TickSize", "TickGeneric",
        "TickOptionComputation", "CommissionAndFeesReport", "TickSnapshotEnd",
        "MarketDataType", "OpenOrderEnd"})
  @@ [ErrorMessage |-> "Error", TickRequestParameters |-> "TickReqParams"]
ProtoOrdersAndContracts ==
  Same({"AccountValue", "PortfolioValue", "AccountUpdateTime", "AccountDownloadEnd",
        "MarketDepth", "MarketDepthExchanges", "SmartComponents",
        "RerouteMarketDataRequest", "RerouteMarketDepthRequest", "OpenOrder"})
  @@ [MarketDepthL2 |-> "MarketDepth", ContractData |-> "ContractDetails",
      BondContractData |-> "BondContractDetails", ContractDataEnd |-> "ContractDetailsEnd",
      ExecutionData |-> "ExecutionDetails", ExecutionDataEnd |-> "ExecutionDetailsEnd"]
ProtoBarsAndScanner ==
  Same({"HistoricalDataUpdate", "HeadTimestamp", "HistogramData", "ScannerParameters",
        "ScannerData", "SoftDollarTiers", "FamilyCodes", "SymbolSamples", "MarketRule"})
  @@ [HistoricalData |-> "HistoricalDataBars", RealTimeBars |-> "RealTimeBar"]
ProtoPositionsAndTicks ==
  Same({"PositionEnd", "PositionMulti", "PositionMultiEnd", "AccountSummary",
        "AccountSummaryEnd", "AccountUpdateMulti", "AccountUpdateMultiEnd",
        "HistoricalDataEnd", "HistoricalTicks", "HistoricalTicksBidAsk",
        "HistoricalTicksLast", "TickByTick", "HistoricalSchedule", "Pnl", "PnlSingle"})
  @@ [PositionData |-> "Position"]
ProtoNewsAndConfig ==
  Same({"NewsArticle", "NewsProviders", "HistoricalNews", "HistoricalNewsEnd", "TickNews",
        "WshMetaData", "WshEventData", "ReceiveFa", "ReplaceFaEnd", "DisplayGroupList",
        "DisplayGroupUpdated", "VerifyMessageApi", "VerifyCompleted", "OrderBound",
        "CompletedOrder", "CompletedOrdersEnd", "UserInfo", "ConfigResponse",
        "UpdateConfigResponse"})
  @@ [NewsBulletins |-> "NewsBulletin"]
ProtoEvents ==
  ProtoReference @@ ProtoOrdersAndContracts @@ ProtoBarsAndScanner
  @@ ProtoPositionsAndTicks @@ ProtoNewsAndConfig

-----------------------------------------------------------------------------
(***************************************************************************)
(* What the two forms fill of contracts, orders, executions and details.   *)
(* Contracts first, by the function that reads them from fields.           *)
(***************************************************************************)
decode_portfolio_value_fields ==
  (Instrument \ {"exchange"}) \cup {"con_id", "primary_exchange", "trading_class"}
decode_scanner_data_fields == (Instrument \ {"multiplier"}) \cup {"con_id", "trading_class"}
decode_symbol_samples_fields ==
  {"con_id", "symbol", "sec_type", "primary_exchange", "currency", "description", "issuer_id"}
decode_position_contract_fields == Instrument \cup {"con_id", "trading_class"}
decode_order_contract_prefix == Instrument \cup {"con_id", "trading_class"}
ExecutionContract == Instrument \cup {"con_id", "trading_class"}
DetailsContract ==
  Instrument \cup {"con_id", "last_trade_date", "primary_exchange", "trading_class"}
BondContract ==
  {"symbol", "sec_type", "last_trade_date_or_contract_month", "exchange", "currency",
   "con_id", "trading_class"}
proto_contract_to_contract == Contract

\* Executions.
Execution ==
  {"order_id", "exec_id", "time", "acct_number", "exchange", "side", "shares", "price",
   "perm_id", "client_id", "liquidation", "cum_qty", "avg_price", "order_ref", "ev_rule",
   "ev_multiplier", "model_code", "last_liquidity", "pending_price_revision", "submitter",
   "opt_exercise_or_lapse_type"}
decode_execution_data_fields == Execution \ {"opt_exercise_or_lapse_type"}
proto_execution_to_execution == Execution

\* Contract details.
Fund ==
  {"fund_name", "fund_family", "fund_type", "fund_front_load", "fund_back_load",
   "fund_back_load_time_interval", "fund_management_fee", "fund_closed",
   "fund_closed_for_new_investors", "fund_closed_for_new_money", "fund_notify_amount",
   "fund_minimum_initial_purchase", "fund_minimum_subsequent_purchase",
   "fund_blue_sky_states", "fund_blue_sky_territories",
   "fund_distribution_policy_indicator", "fund_asset_type"}
Bond ==
  {"cusip", "issue_date", "ratings", "bond_type", "coupon", "coupon_type", "convertible",
   "callable", "puttable", "desc_append", "next_option_date", "next_option_type",
   "next_option_partial", "bond_notes"}
DetailsCommon ==
  {"market_name", "min_tick", "order_types", "valid_exchanges", "long_name",
   "time_zone_id", "trading_hours", "liquid_hours", "ev_rule", "ev_multiplier",
   "sec_id_list", "aggregate_group", "market_rule_ids"}
DetailsOfShares ==
  {"price_magnifier", "under_con_id", "contract_month", "industry", "category",
   "subcategory", "under_symbol", "under_sec_type", "real_expiration_date", "stock_type",
   "min_size", "size_increment", "suggested_size_increment", "ineligibility_reason_list"}
DetailsNew ==
  {"event_contract1", "event_contract_description1", "event_contract_description2",
   "min_algo_size", "last_price_precision", "last_size_precision"}
ContractDetails == DetailsCommon \cup DetailsOfShares \cup Fund \cup Bond \cup DetailsNew
\* The first decoder reads the fund attributes for a FUND only.
decode_contract_data_fields == DetailsCommon \cup DetailsOfShares \cup Fund
decode_bond_contract_data_fields == DetailsCommon \cup Bond
proto_contract_details_to_contract_details == ContractDetails

\* Orders.
OrderState ==
  {"status", "commission_and_fees", "min_commission_and_fees", "max_commission_and_fees",
   "commission_and_fees_currency", "margin_currency", "margins", "margins_outside_rth",
   "suggested_size", "reject_reason", "order_allocations", "warning_text",
   "completed_time", "completed_status"}
decode_order_core_after_contract ==
  {"action", "total_quantity", "order_type", "limit_price", "aux_price", "tif",
   "oca_group", "account", "open_close", "origin", "order_ref", "order.order_id"}
decode_order_common_after_perm_id ==
  {"outside_rth", "hidden", "discretionary_amount", "good_after_time", "fa_group",
   "fa_method", "fa_percentage", "model_code", "good_till_date", "rule80a",
   "percent_offset", "settling_firm", "short_sale_slot", "designated_location",
   "exempt_code", "oca_type", "all_or_none", "min_qty", "parent_id", "trigger_method",
   "volatility", "volatility_type", "delta_neutral_order_type", "delta_neutral_aux_price",
   "continuous_update", "reference_price_type", "trail_stop_price", "trailing_percent",
   "scale_init_level_size", "scale_subs_level_size", "scale_price_increment",
   "scale_table", "active_start_time", "active_stop_time", "hedge_type", "hedge_param",
   "opt_out_smart_routing", "clearing_account", "clearing_intent", "not_held",
   "algo_strategy", "algo_params"} \cup DeltaNeutralMore \cup ScaleMore
decode_order_state_tail_fields ==
  {"min_trade_qty", "min_compete_size", "compete_against_best_offset",
   "mid_offset_at_whole", "mid_offset_at_half", "customer_account",
   "professional_customer", "bond_accrued_interest", "include_overnight",
   "manual_order_indicator", "submitter"}
decode_order_open_state_fields == OrderState
decode_open_order_fields ==
  decode_order_core_after_contract \cup {"client_id", "perm_id"}
  \cup decode_order_common_after_perm_id \cup {"what_if"} \cup decode_order_open_state_fields
  \cup decode_order_state_tail_fields \cup {"imbalance_only"}
decode_completed_order_fields ==
  (decode_order_core_after_contract \ {"order.order_id"}) \cup {"perm_id"}
  \cup decode_order_common_after_perm_id
  \cup {"solicited", "status", "randomize_size", "randomize_price", "conditions"}
  \cup PegBenchmark \cup Adjusted
  \cup {"cash_qty", "dont_use_auto_price_for_hedge", "is_oms_container",
        "auto_cancel_date", "filled_quantity", "ref_futures_con_id", "auto_cancel_parent",
        "shareholder", "imbalance_only", "route_marketable_to_bbo", "parent_perm_id",
        "completed_time", "completed_status"}
  \cup decode_order_state_tail_fields
proto_order_to_order ==
  Order \ ({"conditions", "auction_strategy", "basis_points", "basis_points_type",
            "order_combo_legs"} \cup AttachedOrders)
proto_order_state_to_order_state == OrderState

\* <<contract, the rest>> by message: attributes the decoder of a form fills.
FieldFills ==
  [PortfolioValue |-> <<decode_portfolio_value_fields, {}>>,
   ScannerData |-> <<decode_scanner_data_fields, {}>>,
   SymbolSamples |-> <<decode_symbol_samples_fields, {}>>,
   PositionData |-> <<decode_position_contract_fields, {}>>,
   PositionMulti |-> <<decode_position_contract_fields, {}>>,
   ExecutionData |-> <<ExecutionContract, decode_execution_data_fields>>,
   ContractData |-> <<DetailsContract, decode_contract_data_fields>>,
   BondContractData |-> <<BondContract, decode_bond_contract_data_fields>>,
   OpenOrder |-> <<decode_order_contract_prefix, decode_open_order_fields>>,
   CompletedOrder |-> <<decode_order_contract_prefix, decode_completed_order_fields>>]
ProtoFills ==
  [m \in {"PortfolioValue", "ScannerData", "SymbolSamples", "PositionData",
          "PositionMulti"} |-> <<proto_contract_to_contract, {}>>]
  @@ [m \in {"ContractData", "BondContractData"} |->
        <<proto_contract_to_contract, proto_contract_details_to_contract_details>>]
  @@ [m \in {"OpenOrder", "CompletedOrder"} |->
        <<proto_contract_to_contract,
          proto_order_to_order \cup proto_order_state_to_order_state>>]
  @@ [ExecutionData |-> <<proto_contract_to_contract, proto_execution_to_execution>>]

-----------------------------------------------------------------------------
(***************************************************************************)
(* Decoding a payload.  A message of the server is a record: its name, its *)
(* form, whether its id is a raw integer, whether its fields begin with a  *)
(* version, and whether the field that the decoder looks at to find that   *)
(* out (the symbol, when there is no version) reads as an integer.         *)
(***************************************************************************)
Message(name, proto, raw, versioned, numeric) ==
  [name |-> name, proto |-> proto, raw |-> raw, versioned |-> versioned,
   numeric |-> numeric]

GuessesVersion == {"ContractData", "BondContractData", "ExecutionData", "OpenOrder"}

\* The decoders' guess: with a version that field is an id, always an integer.
has_version(m) == m.versioned \/ m.numeric

\* An event, with the message and the form it was decoded from.
Event(name, m) ==
  [name |-> name, message |-> m.name, proto |-> m.proto, misread |-> FALSE]
Misread(name, m) == [Event(name, m) EXCEPT !.misread = TRUE]
Undecodable == Event("Err", Message("none", FALSE, FALSE, FALSE, FALSE))

\* split_message_id: the id, or an error where a text id is expected and the
\* bytes of a raw one (the first of which is zero) are found.
split_message_id(raw, m) == IF raw = m.raw THEN WireId(m.name, m.proto) ELSE 0

\* What decode_payload can return.  Fields shifted by a wrong guess are an error
\* or an event of wrong values, which depends on the values.
decode_payload(raw, m) ==
  LET id == split_message_id(raw, m)
      name == try_from(IF id > PROTOBUF_MSG_ID THEN id - PROTOBUF_MSG_ID ELSE id)
  IN  IF id = 0 THEN {Undecodable}
      ELSE IF id > PROTOBUF_MSG_ID
           THEN {Event(IF name \in DOMAIN ProtoEvents THEN ProtoEvents[name]
                       ELSE "RawProtobuf", m)}
      ELSE IF name \notin DOMAIN FieldEvents THEN {Event("Raw", m)}
      ELSE IF name \in GuessesVersion /\ has_version(m) # m.versioned
           THEN {Undecodable, Misread(FieldEvents[name], m)}
      ELSE {Event(FieldEvents[name], m)}

-----------------------------------------------------------------------------
(***************************************************************************)
(* Events and Wrapper::dispatch.                                           *)
(***************************************************************************)
TickCallbacks ==
  [ConnectAck |-> "connect_ack", ConnectionClosed |-> "connection_closed",
   MarketDataType |-> "market_data_type", TickPrice |-> "tick_price",
   TickSize |-> "tick_size", TickGeneric |-> "tick_generic", TickString |-> "tick_string",
   TickEfp |-> "tick_efp", TickSnapshotEnd |-> "tick_snapshot_end",
   TickOptionComputation |-> "tick_option_computation", TickReqParams |-> "tick_req_params",
   CommissionAndFeesReport |-> "commission_and_fees_report",
   DeltaNeutralValidation |-> "delta_neutral_validation"]
OrderCallbacks ==
  [NextValidId |-> "next_valid_id", CurrentTime |-> "current_time",
   CurrentTimeInMillis |-> "current_time_in_millis", Error |-> "error_with_advanced",
   OrderStatus |-> "order_status", OpenOrder |-> "open_order",
   ContractDetails |-> "contract_details", BondContractDetails |-> "bond_contract_details",
   OpenOrderEnd |-> "open_order_end", ContractDetailsEnd |-> "contract_details_end",
   ExecutionDetails |-> "execution_details",
   ExecutionDetailsEnd |-> "execution_details_end", MarketDepth |-> "market_depth",
   SmartComponents |-> "smart_components",
   RerouteMarketDataRequest |-> "reroute_market_data",
   RerouteMarketDepthRequest |-> "reroute_market_depth"]
HistoryCallbacks ==
  [HistoricalData |-> "historical_data", HistoricalDataBars |-> "historical_data_bars",
   HistoricalDataUpdate |-> "historical_data_update",
   HistoricalDataEnd |-> "historical_data_end", HistoricalTicks |-> "historical_ticks",
   HistoricalTicksBidAsk |-> "historical_ticks_bid_ask",
   HistoricalTicksLast |-> "historical_ticks_last", TickByTick |-> "tick_by_tick",
   HistoricalSchedule |-> "historical_schedule", RealTimeBar |-> "real_time_bar",
   Position |-> "position", PositionEnd |-> "position_end",
   PositionMulti |-> "position_multi", PositionMultiEnd |-> "position_multi_end",
   AccountValue |-> "account_value", AccountSummary |-> "account_summary",
   PortfolioValue |-> "portfolio_value", AccountUpdateTime |-> "account_update_time",
   AccountDownloadEnd |-> "account_download_end",
   AccountSummaryEnd |-> "account_summary_end",
   AccountUpdateMulti |-> "account_update_multi",
   AccountUpdateMultiEnd |-> "account_update_multi_end"]
ReferenceCallbacks ==
  [FamilyCodes |-> "family_codes", NewsProviders |-> "news_providers",
   MarketDepthExchanges |-> "market_depth_exchanges", MarketRule |-> "market_rule",
   ReceiveFa |-> "receive_fa", WshEventData |-> "wsh_event_data",
   HeadTimestamp |-> "head_timestamp", HistogramData |-> "histogram_data",
   ScannerParameters |-> "scanner_parameters", ScannerData |-> "scanner_data",
   ScannerDataEnd |-> "scanner_data_end", SoftDollarTiers |-> "soft_dollar_tiers",
   SymbolSamples |-> "symbol_samples",
   SecurityDefinitionOptionParameter |-> "security_definition_option_parameter",
   SecurityDefinitionOptionParameterEnd |-> "security_definition_option_parameter_end",
   Pnl |-> "pnl", PnlSingle |-> "pnl_single", NewsArticle |-> "news_article",
   NewsBulletin |-> "news_bulletin", HistoricalNews |-> "historical_news",
   HistoricalNewsEnd |-> "historical_news_end", TickNews |-> "tick_news",
   WshMetaData |-> "wsh_metadata", ReplaceFaEnd |-> "replace_fa_end",
   DisplayGroupList |-> "display_group_list",
   DisplayGroupUpdated |-> "display_group_updated", ManagedAccounts |-> "managed_accounts",
   VerifyMessageApi |-> "verify_message_api", VerifyCompleted |-> "verify_completed",
   VerifyAndAuthMessageApi |-> "verify_and_auth_message_api",
   VerifyAndAuthCompleted |-> "verify_and_auth_completed",
   ConfigResponse |-> "config_response",
   UpdateConfigResponse |-> "update_config_response", OrderBound |-> "order_bound",
   CompletedOrder |-> "completed_order", CompletedOrdersEnd |-> "completed_orders_end",
   UserInfo |-> "user_info", Raw |-> "raw", RawProtobuf |-> "raw_protobuf"]
Callbacks == TickCallbacks @@ OrderCallbacks @@ HistoryCallbacks @@ ReferenceCallbacks

\* on_event comes first, then the callback of its own.
dispatch(event) == <<"on_event", Callbacks[event.name]>>

follow_up_event(event) ==
  IF event.name = "ScannerData" THEN <<[event EXCEPT !.name = "ScannerDataEnd"]>> ELSE <<>>
=============================================================================
