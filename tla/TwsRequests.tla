---------------------------- MODULE TwsRequests ----------------------------
(***************************************************************************)
(* The requests of truefix-twsapi-client.  A request is encoded in fields, *)
(* whose layout depends on the server's version, or in protobuf.  What is  *)
(* modelled of a layout is which of the caller's parameters it carries: a  *)
(* set of groups of parameter names, each sent from some server version on *)
(* and, where the code tests a value of the request, only with that trait. *)
(* The order of the fields and their text are left out.                    *)
(***************************************************************************)
EXTENDS Naturals, TLC

Since(version, names) == [from |-> version, needs |-> {}, names |-> names]
Always(names) == Since(0, names)
Having(trait, version, names) == [from |-> version, needs |-> {trait}, names |-> names]

\* The layout of a request: the oldest server it is sent to, the groups of its
\* fields, and what its protobuf form carries; NoProto is encode_protobuf's None.
NoProto == {"no protobuf form"}
Layout(fields, proto) == [oldest |-> 0, fields |-> fields, proto |-> proto]
Names(groups) == UNION {g.names : g \in groups}
\* Both forms carry the same parameters.
Both(fields) == Layout(fields, Names(fields))

\* What is in the fields of a request given these parameters and traits.
InFields(layout, version, given) ==
  Names({g \in layout.fields : g.from <= version /\ g.needs \subseteq given}) \cap given
InProto(layout, given) == layout.proto \cap given

-----------------------------------------------------------------------------
(***************************************************************************)
(* Server versions (server_versions.rs).                                   *)
(***************************************************************************)
VersionsTo70 ==
  [PTA_ORDERS |-> 39, DELTA_NEUTRAL |-> 40, SCALE_ORDERS2 |-> 40, ALGO_ORDERS |-> 41,
   EXECUTION_DATA_CHAIN |-> 42, NOT_HELD |-> 44, SEC_ID_TYPE |-> 45, PLACE_ORDER_CONID |-> 46,
   REQ_MKT_DATA_CONID |-> 47, REQ_CALC_IMPLIED_VOLAT |-> 49, SSHORTX_OLD |-> 51,
   HEDGE_ORDERS |-> 54, OPT_OUT_SMART_ROUTING |-> 56, SMART_COMBO_ROUTING_PARAMS |-> 57,
   DELTA_NEUTRAL_CONID |-> 58, SCALE_ORDERS3 |-> 60, ORDER_COMBO_LEGS_PRICE |-> 61,
   TRAILING_PERCENT |-> 62, DELTA_NEUTRAL_OPEN_CLOSE |-> 66, POSITIONS |-> 67,
   TRADING_CLASS |-> 68, SCALE_TABLE |-> 69, LINKING |-> 70]
VersionsTo140 ==
  [ALGO_ID |-> 71, OPTIONAL_CAPABILITIES |-> 72, ORDER_SOLICITED |-> 73, PRIMARYEXCH |-> 75,
   RANDOMIZE_SIZE_AND_PRICE |-> 76, PEGGED_TO_BENCHMARK |-> 102, MODELS_SUPPORT |-> 103,
   EXT_OPERATOR |-> 105, SOFT_DOLLAR_TIER |-> 106, CASH_QTY |-> 111,
   REQ_SMART_COMPONENTS |-> 114, SYNT_REALTIME_BARS |-> 124, NEWS_QUERY_ORIGINS |-> 128,
   HISTORICAL_TICKS |-> 130, TICK_BY_TICK |-> 137, DECISION_MAKER |-> 138,
   MIFID_EXECUTION |-> 139, TICK_BY_TICK_IGNORE_SIZE |-> 140]
VersionsTo200 ==
  [AUTO_PRICE_FOR_HEDGE |-> 141, SCANNER_GENERIC_OPTS |-> 143, ORDER_CONTAINER |-> 145,
   SMART_DEPTH |-> 146, D_PEG_ORDERS |-> 148, MKT_DEPTH_PRIM_EXCHANGE |-> 149,
   PRICE_MGMT_ALGO |-> 151, REPLACE_FA_END |-> 157, DURATION |-> 158, POST_TO_ATS |-> 160,
   AUTO_CANCEL_PARENT |-> 162, ADVANCED_ORDER_REJECT |-> 166, MANUAL_ORDER_TIME |-> 169,
   PEGBEST_PEGMID_OFFSETS |-> 170, BOND_ISSUERID |-> 176,
   MANUAL_ORDER_TIME_EXERCISE_OPTIONS |-> 180, CUSTOMER_ACCOUNT |-> 183,
   PROFESSIONAL_CUSTOMER |-> 184, INCLUDE_OVERNIGHT |-> 189, CME_TAGGING_FIELDS |-> 192,
   IMBALANCE_ONLY |-> 199, PARAMETRIZED_DAYS_OF_EXECUTIONS |-> 200]
VersionsProtobuf ==
  [PROTOBUF |-> 201, PLACE_ORDER |-> 203, COMPLETED_ORDER |-> 204, CONTRACT_DATA |-> 205,
   MARKET_DATA |-> 206, ACCOUNTS_POSITIONS |-> 207, HISTORICAL_DATA |-> 208,
   NEWS_DATA |-> 209, SCAN_DATA |-> 210, REST_MESSAGES_1 |-> 211, REST_MESSAGES_2 |-> 212,
   REST_MESSAGES_3 |-> 213, ADDITIONAL_ORDER_PARAMS_1 |-> 216,
   ADDITIONAL_ORDER_PARAMS_2 |-> 217, ATTACHED_ORDERS |-> 218, HEDGE_MAX_SIZE |-> 223,
   MAX_CLIENT_VER |-> 225]
V == VersionsTo70 @@ VersionsTo140 @@ VersionsTo200 @@ VersionsProtobuf

-----------------------------------------------------------------------------
(***************************************************************************)
(* Contracts.  The traits of a contract: "BAG" (its sec_type) and "SMART"  *)
(* (its exchange is BEST or SMART).                                        *)
(***************************************************************************)
Instrument ==
  {"symbol", "sec_type", "last_trade_date_or_contract_month", "strike", "right",
   "multiplier", "exchange", "currency", "local_symbol"}
Contract ==
  Instrument \cup
  {"con_id", "last_trade_date", "primary_exchange", "trading_class", "include_expired",
   "sec_id_type", "sec_id", "description", "issuer_id", "combo_legs_description",
   "combo_legs", "delta_neutral_contract"}
\* Of a combo leg: the first four everywhere, the others when an order is placed.
ComboLegMore ==
  {"leg_open_close", "leg_short_sale_slot", "leg_designated_location", "leg_exempt_code"}

\* Faulty variant: combo legs are left with their con_id and ratio.
contract_to_proto_bare_legs == Contract
contract_to_proto == Contract \cup ComboLegMore

encode_contract_head_or_histogram ==
  {Always(Instrument \cup {"con_id", "primary_exchange", "trading_class", "include_expired"})}

encode_contract_real_time_bars ==
  {Since(V.TRADING_CLASS, {"con_id", "trading_class"}),
   Always(Instrument \cup {"primary_exchange"})}

encode_contract_market_data ==
  {Always(Instrument \cup {"primary_exchange"}), Since(V.TRADING_CLASS, {"trading_class"})}

encode_contract_historical_data ==
  encode_contract_market_data \cup {Always({"include_expired"})}

encode_contract_for_calculation ==
  {Always(Instrument \cup {"con_id", "primary_exchange"}),
   Since(V.TRADING_CLASS, {"trading_class"})}

-----------------------------------------------------------------------------
(***************************************************************************)
(* Orders.                                                                 *)
(***************************************************************************)
OrderTerms ==
  {"soft_dollar_tier", "order.order_id", "client_id", "perm_id", "action", "total_quantity",
   "order_type", "limit_price", "aux_price", "tif", "active_start_time", "active_stop_time",
   "oca_group", "oca_type", "order_ref", "transmit", "parent_id", "block_order",
   "sweep_to_fill", "display_size", "trigger_method", "outside_rth", "hidden",
   "good_after_time", "good_till_date", "rule80a", "all_or_none", "min_qty",
   "percent_offset", "override_percentage_constraints", "trail_stop_price",
   "trailing_percent", "fa_group", "fa_method", "fa_percentage", "designated_location",
   "open_close", "origin", "short_sale_slot", "exempt_code", "discretionary_amount",
   "opt_out_smart_routing", "auction_strategy", "starting_price", "stock_ref_price",
   "delta", "stock_range_lower", "stock_range_upper", "randomize_price", "randomize_size"}
DeltaNeutralMore ==
  {"delta_neutral_con_id", "delta_neutral_settling_firm", "delta_neutral_clearing_account",
   "delta_neutral_clearing_intent", "delta_neutral_open_close", "delta_neutral_short_sale",
   "delta_neutral_short_sale_slot", "delta_neutral_designated_location"}
ScaleMore ==
  {"scale_price_adjust_value", "scale_price_adjust_interval", "scale_profit_offset",
   "scale_auto_reset", "scale_init_position", "scale_init_fill_qty", "scale_random_percent"}
PegBenchmark ==
  {"reference_contract_id", "is_pegged_change_amount_decrease", "pegged_change_amount",
   "reference_change_amount", "reference_exchange_id"}
Adjusted ==
  {"adjusted_order_type", "trigger_price", "limit_price_offset", "adjusted_stop_price",
   "adjusted_stop_limit_price", "adjusted_trailing_amount", "adjustable_trailing_unit"}
Conditions == {"conditions", "conditions_cancel_order", "conditions_ignore_rth"}
OrderStrategies ==
  {"volatility", "volatility_type", "delta_neutral_order_type", "delta_neutral_aux_price",
   "continuous_update", "reference_price_type", "basis_points", "basis_points_type",
   "scale_init_level_size", "scale_subs_level_size", "scale_price_increment", "scale_table",
   "hedge_type", "hedge_param", "hedge_max_size", "account", "settling_firm",
   "clearing_account", "clearing_intent", "model_code", "algo_strategy", "algo_params",
   "smart_combo_routing_params", "algo_id", "what_if", "not_held", "solicited",
   "order_combo_legs", "order_misc_options"}
  \cup DeltaNeutralMore \cup ScaleMore \cup PegBenchmark \cup Adjusted \cup Conditions
AttachedOrders ==
  {"stop_loss_order_id", "stop_loss_order_type", "profit_taker_order_id",
   "profit_taker_order_type"}
OrderReporting ==
  {"ext_operator", "cash_qty", "mifid2_decision_maker", "mifid2_decision_algo",
   "mifid2_execution_trader", "mifid2_execution_algo", "dont_use_auto_price_for_hedge",
   "is_oms_container", "discretionary_up_to_limit_price", "auto_cancel_date",
   "filled_quantity", "ref_futures_con_id", "auto_cancel_parent", "shareholder",
   "imbalance_only", "route_marketable_to_bbo", "parent_perm_id", "use_price_mgmt_algo",
   "duration", "post_to_ats", "advanced_error_override", "manual_order_time",
   "min_trade_qty", "min_compete_size", "compete_against_best_offset",
   "mid_offset_at_whole", "mid_offset_at_half", "customer_account",
   "professional_customer", "bond_accrued_interest", "include_overnight",
   "manual_order_indicator", "submitter", "post_only", "allow_pre_open",
   "ignore_open_auction", "deactivate", "seek_price_improvement", "what_if_type"}
  \cup AttachedOrders
Order == OrderTerms \cup OrderStrategies \cup OrderReporting

\* protobuf::Order; the prices of order_combo_legs go into the contract's legs.
order_to_proto ==
  Order \ (Conditions \cup AttachedOrders
           \cup {"auction_strategy", "basis_points", "basis_points_type", "order_combo_legs"})

attached_orders_to_proto == AttachedOrders

\* encode_place_order_fields up to the combo legs ...
PlaceOrderTerms ==
  {Always({"order_id"} \cup Instrument \cup {"primary_exchange"}),
   Since(V.PLACE_ORDER_CONID, {"con_id"}), Since(V.TRADING_CLASS, {"trading_class"}),
   Since(V.SEC_ID_TYPE, {"sec_id_type", "sec_id"}),
   Always({"action", "total_quantity", "order_type", "limit_price", "aux_price", "tif",
           "oca_group", "account", "open_close", "origin", "order_ref", "transmit",
           "parent_id", "block_order", "sweep_to_fill", "display_size", "trigger_method",
           "outside_rth", "hidden"}),
   Having("BAG", 0, {"combo_legs"} \cup (ComboLegMore \ {"leg_exempt_code"})),
   Having("BAG", V.SSHORTX_OLD, {"leg_exempt_code"}),
   Having("BAG", V.ORDER_COMBO_LEGS_PRICE, {"order_combo_legs"}),
   Having("BAG", V.SMART_COMBO_ROUTING_PARAMS, {"smart_combo_routing_params"})}

\* ... to the algorithm of the order ...
PlaceOrderStrategies ==
  {Always({"discretionary_amount", "good_after_time", "good_till_date", "fa_group",
           "fa_method", "fa_percentage"}),
   Since(V.MODELS_SUPPORT, {"model_code"}),
   Always({"short_sale_slot", "designated_location"}), Since(V.SSHORTX_OLD, {"exempt_code"}),
   Always({"oca_type", "rule80a", "settling_firm", "all_or_none", "min_qty",
           "percent_offset", "auction_strategy", "starting_price", "stock_ref_price",
           "delta", "stock_range_lower", "stock_range_upper",
           "override_percentage_constraints", "volatility", "volatility_type",
           "delta_neutral_order_type", "delta_neutral_aux_price"}),
   Having("delta_neutral_order_type", V.DELTA_NEUTRAL_CONID,
          {"delta_neutral_con_id", "delta_neutral_settling_firm",
           "delta_neutral_clearing_account", "delta_neutral_clearing_intent"}),
   Having("delta_neutral_order_type", V.DELTA_NEUTRAL_OPEN_CLOSE,
          {"delta_neutral_open_close", "delta_neutral_short_sale",
           "delta_neutral_short_sale_slot", "delta_neutral_designated_location"}),
   Always({"continuous_update", "reference_price_type", "trail_stop_price"}),
   Since(V.TRAILING_PERCENT, {"trailing_percent"}),
   Always({"scale_init_level_size", "scale_price_increment"}),
   Since(V.SCALE_ORDERS2, {"scale_subs_level_size"}),
   Having("scale_price_increment", V.SCALE_ORDERS3, ScaleMore),
   Since(V.SCALE_TABLE, {"scale_table", "active_start_time", "active_stop_time"}),
   Since(V.HEDGE_ORDERS, {"hedge_type"}),
   Having("hedge_type", V.HEDGE_ORDERS, {"hedge_param"}),
   Since(V.OPT_OUT_SMART_ROUTING, {"opt_out_smart_routing"}),
   Since(V.PTA_ORDERS, {"clearing_account", "clearing_intent"}),
   Since(V.NOT_HELD, {"not_held"}), Since(V.DELTA_NEUTRAL, {"delta_neutral_contract"}),
   Since(V.ALGO_ORDERS, {"algo_strategy"}),
   Having("algo_strategy", V.ALGO_ORDERS, {"algo_params"})}

\* ... and to its end.
PlaceOrderReporting ==
  {Since(V.ALGO_ID, {"algo_id"}), Always({"what_if"}),
   Since(V.LINKING, {"order_misc_options"}), Since(V.ORDER_SOLICITED, {"solicited"}),
   Since(V.RANDOMIZE_SIZE_AND_PRICE, {"randomize_size", "randomize_price"}),
   Having("PEG BENCH", V.PEGGED_TO_BENCHMARK, PegBenchmark),
   Having("conditions", V.PEGGED_TO_BENCHMARK, Conditions),
   Since(V.PEGGED_TO_BENCHMARK, Adjusted),
   Since(V.EXT_OPERATOR, {"ext_operator"}), Since(V.SOFT_DOLLAR_TIER, {"soft_dollar_tier"}),
   Since(V.CASH_QTY, {"cash_qty"}),
   Since(V.DECISION_MAKER, {"mifid2_decision_maker", "mifid2_decision_algo"}),
   Since(V.MIFID_EXECUTION, {"mifid2_execution_trader", "mifid2_execution_algo"}),
   Since(V.AUTO_PRICE_FOR_HEDGE, {"dont_use_auto_price_for_hedge"}),
   Since(V.ORDER_CONTAINER, {"is_oms_container"}),
   Since(V.D_PEG_ORDERS, {"discretionary_up_to_limit_price"}),
   Since(V.PRICE_MGMT_ALGO, {"use_price_mgmt_algo"}), Since(V.DURATION, {"duration"}),
   Since(V.POST_TO_ATS, {"post_to_ats"}), Since(V.AUTO_CANCEL_PARENT, {"auto_cancel_parent"}),
   Since(V.ADVANCED_ORDER_REJECT, {"advanced_error_override"}),
   Since(V.MANUAL_ORDER_TIME, {"manual_order_time"}),
   Having("IBKRATS", V.PEGBEST_PEGMID_OFFSETS, {"min_trade_qty"}),
   Having("PEG BEST", V.PEGBEST_PEGMID_OFFSETS,
          {"min_compete_size", "compete_against_best_offset"}),
   Having("mid offsets", V.PEGBEST_PEGMID_OFFSETS,
          {"mid_offset_at_whole", "mid_offset_at_half"}),
   Since(V.CUSTOMER_ACCOUNT, {"customer_account"}),
   Since(V.PROFESSIONAL_CUSTOMER, {"professional_customer"}),
   Since(V.INCLUDE_OVERNIGHT, {"include_overnight"}),
   Since(V.CME_TAGGING_FIELDS, {"manual_order_indicator"}),
   Since(V.IMBALANCE_ONLY, {"imbalance_only"}), Always({"extra_fields"})}

PlaceOrderRequest ==
  Layout(PlaceOrderTerms \cup PlaceOrderStrategies \cup PlaceOrderReporting,
         {"order_id", "order_combo_legs"} \cup contract_to_proto \cup order_to_proto
         \cup attached_orders_to_proto)

CancelOrderRequest ==
  Both({Always({"order_id"}), Since(V.MANUAL_ORDER_TIME, {"manual_order_cancel_time"}),
        Since(V.CME_TAGGING_FIELDS, {"ext_operator", "manual_order_indicator"})})

GlobalCancelRequest ==
  Layout({Since(V.CME_TAGGING_FIELDS, {"ext_operator", "manual_order_indicator"})},
         {"ext_operator", "manual_order_indicator", "manual_order_cancel_time"})

-----------------------------------------------------------------------------
(***************************************************************************)
(* Market data.                                                            *)
(***************************************************************************)
MarketDataRequest ==
  Layout({Always({"req_id"}), Since(V.REQ_MKT_DATA_CONID, {"con_id"}),
          Having("BAG", 0, {"combo_legs"}),
          Since(V.DELTA_NEUTRAL, {"delta_neutral_contract"}),
          Always({"generic_tick_list", "snapshot"}),
          Since(V.REQ_SMART_COMPONENTS, {"regulatory_snapshot"}),
          Since(V.LINKING, {"market_data_options"})} \cup encode_contract_market_data,
         {"req_id", "generic_tick_list", "snapshot", "regulatory_snapshot",
          "market_data_options"} \cup contract_to_proto)
MarketDataTypeRequest == Both({Always({"market_data_type"})})
SmartComponentsRequest == Both({Always({"req_id", "bbo_exchange"})})
MarketDepthRequest ==
  Layout({Always({"req_id"} \cup Instrument),
          Since(V.TRADING_CLASS, {"con_id", "trading_class"}),
          Since(V.MKT_DEPTH_PRIM_EXCHANGE, {"primary_exchange"}),
          Always({"num_rows"}), Since(V.SMART_DEPTH, {"is_smart_depth"}),
          Since(V.LINKING, {"market_depth_options"})},
         {"req_id", "num_rows", "is_smart_depth", "market_depth_options"}
         \cup contract_to_proto)
CancelMarketDepthRequest == Both({Always({"req_id"}), Since(V.SMART_DEPTH, {"is_smart_depth"})})
TickByTickRequest ==
  [Layout({Always({"req_id", "con_id", "primary_exchange", "trading_class", "tick_type"}
                  \cup Instrument),
           Since(V.TICK_BY_TICK_IGNORE_SIZE, {"number_of_ticks", "ignore_size"})},
          {"req_id", "tick_type", "number_of_ticks", "ignore_size"} \cup contract_to_proto)
   EXCEPT !.oldest = V.TICK_BY_TICK]
CalculateImpliedVolatilityRequest ==
  [Layout({Always({"req_id", "option_price", "under_price"}),
           Since(V.LINKING, {"implied_volatility_options"})}
          \cup encode_contract_for_calculation,
          {"req_id", "option_price", "under_price", "implied_volatility_options"}
          \cup contract_to_proto)
   EXCEPT !.oldest = V.REQ_CALC_IMPLIED_VOLAT]
CalculateOptionPriceRequest ==
  [Layout({Always({"req_id", "volatility", "under_price"}),
           Since(V.LINKING, {"option_price_options"})} \cup encode_contract_for_calculation,
          {"req_id", "volatility", "under_price", "option_price_options"}
          \cup contract_to_proto)
   EXCEPT !.oldest = V.REQ_CALC_IMPLIED_VOLAT]
ExerciseOptionsRequest ==
  Layout({Always({"order_id"} \cup Instrument),
          Since(V.TRADING_CLASS, {"con_id", "trading_class"}),
          Always({"exercise_action", "exercise_quantity", "account",
                  "override_system_action"}),
          Since(V.MANUAL_ORDER_TIME_EXERCISE_OPTIONS, {"manual_order_time"}),
          Since(V.CUSTOMER_ACCOUNT, {"customer_account"}),
          Since(V.PROFESSIONAL_CUSTOMER, {"professional_customer"})},
         {"order_id", "exercise_action", "exercise_quantity", "account",
          "override_system_action", "manual_order_time", "customer_account",
          "professional_customer"} \cup contract_to_proto)

(***************************************************************************)
(* Contracts, history and the scanner.                                     *)
(***************************************************************************)
ContractDetailsRequest ==
  Layout({Always({"req_id", "con_id", "include_expired"} \cup (Instrument \ {"exchange"})),
          Since(V.LINKING, {"exchange"}), Having("SMART", V.LINKING, {"primary_exchange"}),
          Since(V.PRIMARYEXCH, {"primary_exchange"}),
          Since(V.TRADING_CLASS, {"trading_class"}),
          Since(V.SEC_ID_TYPE, {"sec_id_type", "sec_id"}),
          Since(V.BOND_ISSUERID, {"issuer_id"})},
         {"req_id"} \cup contract_to_proto)
HistoricalDataRequest ==
  Layout({Always({"req_id", "end_date_time", "bar_size_setting", "duration_str", "use_rth",
                  "what_to_show", "format_date"}),
          Since(V.TRADING_CLASS, {"con_id"}), Having("BAG", 0, {"combo_legs"}),
          Since(V.SYNT_REALTIME_BARS, {"keep_up_to_date"}),
          Since(V.LINKING, {"chart_options"})} \cup encode_contract_historical_data,
         {"req_id", "end_date_time", "bar_size_setting", "duration_str", "use_rth",
          "what_to_show", "format_date", "keep_up_to_date", "chart_options"}
         \cup contract_to_proto)
HeadTimestampRequest ==
  Layout({Always({"req_id", "use_rth", "what_to_show", "format_date"})}
         \cup encode_contract_head_or_histogram,
         {"req_id", "use_rth", "what_to_show", "format_date"} \cup contract_to_proto)
HistogramDataRequest ==
  Layout({Always({"req_id", "use_rth", "time_period"})}
         \cup encode_contract_head_or_histogram,
         {"req_id", "use_rth", "time_period"} \cup contract_to_proto)
RealTimeBarsRequest ==
  Layout({Always({"req_id", "bar_size", "what_to_show", "use_rth"}),
          Since(V.LINKING, {"real_time_bars_options"})} \cup encode_contract_real_time_bars,
         {"req_id", "bar_size", "what_to_show", "use_rth", "real_time_bars_options"}
         \cup contract_to_proto)
HistoricalTicksRequest ==
  [Layout({Always({"req_id", "start_date_time", "end_date_time", "number_of_ticks",
                   "what_to_show", "use_rth", "ignore_size", "misc_options"})}
          \cup encode_contract_head_or_histogram,
          {"req_id", "start_date_time", "end_date_time", "number_of_ticks", "what_to_show",
           "use_rth", "ignore_size", "misc_options"} \cup contract_to_proto)
   EXCEPT !.oldest = V.HISTORICAL_TICKS]
ScannerSubscription ==
  {"number_of_rows", "instrument", "location_code", "scan_code", "above_price",
   "below_price", "above_volume", "market_cap_above", "market_cap_below",
   "moody_rating_above", "moody_rating_below", "sp_rating_above", "sp_rating_below",
   "maturity_date_above", "maturity_date_below", "coupon_rate_above", "coupon_rate_below",
   "exclude_convertible", "average_option_volume_above", "scanner_setting_pairs",
   "stock_type_filter"}
scanner_subscription_to_proto ==
  ScannerSubscription \cup {"scanner_subscription_options",
                            "scanner_subscription_filter_options"}
ScannerSubscriptionRequest ==
  Layout({Always({"req_id"} \cup ScannerSubscription),
          Since(V.SCANNER_GENERIC_OPTS, {"scanner_subscription_filter_options"}),
          Since(V.LINKING, {"scanner_subscription_options"})},
         {"req_id"} \cup scanner_subscription_to_proto)
SecDefOptParamsRequest ==
  Both({Always({"req_id", "underlying_symbol", "fut_fop_exchange", "underlying_sec_type",
                "underlying_con_id"})})
MatchingSymbolsRequest == Both({Always({"req_id", "pattern"})})

(***************************************************************************)
(* Accounts, executions, news, configuration of the connection.            *)
(***************************************************************************)
ExecutionFilter ==
  {"client_id", "acct_code", "time", "symbol", "sec_type", "exchange", "side",
   "last_n_days", "specific_dates"}
execution_filter_to_proto == ExecutionFilter
ExecutionRequest ==
  Layout({Since(V.EXECUTION_DATA_CHAIN, {"req_id"}),
          Always(ExecutionFilter \ {"last_n_days", "specific_dates"}),
          Since(V.PARAMETRIZED_DAYS_OF_EXECUTIONS, {"last_n_days", "specific_dates"})},
         {"req_id"} \cup execution_filter_to_proto)
AutoOpenOrdersRequest == Both({Always({"auto_bind"})})
CompletedOrdersRequest == Both({Always({"api_only"})})
AccountDataRequest == Both({Always({"subscribe", "account_code"})})
AccountSummaryRequest == Both({Always({"req_id", "group_name", "tags"})})
PositionsMultiRequest == Both({Always({"req_id", "account", "model_code"})})
AccountUpdatesMultiRequest ==
  Both({Always({"req_id", "account", "model_code", "ledger_and_nlv"})})
PnlRequest == Both({Always({"req_id", "account", "model_code"})})
PnlSingleRequest == Both({Always({"req_id", "account", "model_code", "con_id"})})
NewsBulletinsRequest == Both({Always({"all_messages"})})
NewsArticleRequest ==
  Both({Always({"req_id", "provider_code", "article_id"}),
        Since(V.NEWS_QUERY_ORIGINS, {"news_article_options"})})
HistoricalNewsRequest ==
  Both({Always({"req_id", "con_id", "provider_codes", "start_date_time", "end_date_time",
                "total_results"}),
        Since(V.NEWS_QUERY_ORIGINS, {"historical_news_options"})})
WshEventDataRequest ==
  Both({Always({"req_id", "con_id", "filter", "fill_watchlist", "fill_portfolio",
                "fill_competitors", "start_date", "end_date", "total_limit"})})
FinancialAdvisorRequest == Both({Always({"fa_data_type"})})
ReplaceFinancialAdvisorRequest ==
  Both({Always({"fa_data_type", "xml"}), Since(V.REPLACE_FA_END, {"req_id"})})
SetServerLogLevelRequest == Both({Always({"log_level"})})
SubscribeToGroupEventsRequest == Both({Always({"req_id", "group_id"})})
UpdateDisplayGroupRequest == Both({Always({"req_id", "contract_info"})})
VerifyRequest == Both({Always({"api_name", "api_version"})})
VerifyMessageRequest == Both({Always({"api_data"})})
VerifyAndAuthRequest ==
  Layout({Always({"api_name", "api_version", "opaque_isv_key"})}, NoProto)
VerifyAndAuthMessageRequest == Layout({Always({"api_data", "xyz_response"})}, NoProto)
StartApiRequest ==
  Layout({Always({"client_id"}),
          Since(V.OPTIONAL_CAPABILITIES, {"optional_capabilities"})}, NoProto)

\* Requests without parameters, with a version number only, and with an id only:
\* their protobuf form exists for some messages.
EmptyRequest(message) ==
  Layout({}, IF message \in {"ReqMktDepthExchanges", "ReqNewsProviders", "ReqFamilyCodes",
                             "ReqCurrentTimeInMillis"} THEN {} ELSE NoProto)
VersionedRequest(message) ==
  Layout({}, IF message \in {"ReqCurrentTime", "ReqCurrentTimeInMillis", "ReqPositions",
                             "CancelPositions", "ReqOpenOrders", "ReqAllOpenOrders",
                             "ReqManagedAccounts", "ReqScannerParameters",
                             "CancelNewsBulletins"} THEN {} ELSE NoProto)
IdsWithProto ==
  {"ReqIds", "CancelMktData", "CancelMktDepth", "CancelAccountSummary",
   "CancelPositionsMulti", "CancelAccountUpdatesMulti", "CancelPnl", "CancelPnlSingle",
   "CancelCalcImpliedVolat", "CancelCalcOptionPrice", "CancelContractData",
   "CancelHistoricalData", "CancelScannerSubscription", "CancelTickByTickData",
   "CancelWshMetaData", "CancelWshEventData", "CancelHeadTimestamp",
   "CancelHistogramData", "CancelRealTimeBars", "QueryDisplayGroups",
   "UnsubscribeFromGroupEvents", "ReqMarketRule", "ReqSoftDollarTiers",
   "ReqWshMetaData", "ReqUserInfo"}
IdRequest(message) ==
  Layout({Always({"req_id"})}, IF message \in IdsWithProto THEN {"req_id"} ELSE NoProto)
\* The caller's fields as they are.
RawRequest == Layout({Always({"fields"})}, NoProto)

-----------------------------------------------------------------------------
(***************************************************************************)
(* The choice of the form.                                                 *)
(***************************************************************************)
MinVersion(messages, version) == [m \in messages |-> version]

\* The messages that have a protobuf form, with the first version that has it.
protobuf_min_server_version ==
     MinVersion({"ReqExecutions"}, V.PROTOBUF)
  @@ MinVersion({"PlaceOrder", "CancelOrder", "ReqGlobalCancel"}, V.PLACE_ORDER)
  @@ MinVersion({"ReqAllOpenOrders", "ReqAutoOpenOrders", "ReqOpenOrders", "ReqCompletedOrders"},
         V.COMPLETED_ORDER)
  @@ MinVersion({"ReqContractData"}, V.CONTRACT_DATA)
  @@ MinVersion({"ReqMktData", "CancelMktData", "ReqMktDepth", "CancelMktDepth",
          "ReqMarketDataType"}, V.MARKET_DATA)
  @@ MinVersion({"ReqAcctData", "ReqManagedAccounts", "ReqPositions", "CancelPositions",
          "ReqAccountSummary", "CancelAccountSummary", "ReqPositionsMulti",
          "CancelPositionsMulti", "ReqAccountUpdatesMulti", "CancelAccountUpdatesMulti"},
         V.ACCOUNTS_POSITIONS)
  @@ MinVersion({"ReqHistoricalData", "CancelHistoricalData", "ReqRealTimeBars",
          "CancelRealTimeBars", "ReqHeadTimestamp", "CancelHeadTimestamp",
          "ReqHistogramData", "CancelHistogramData", "ReqHistoricalTicks",
          "ReqTickByTickData", "CancelTickByTickData"}, V.HISTORICAL_DATA)
  @@ MinVersion({"ReqNewsBulletins", "CancelNewsBulletins", "ReqNewsArticle", "ReqNewsProviders",
          "ReqHistoricalNews", "ReqWshMetaData", "CancelWshMetaData", "ReqWshEventData",
          "CancelWshEventData"}, V.NEWS_DATA)
  @@ MinVersion({"ReqScannerParameters", "ReqScannerSubscription", "CancelScannerSubscription",
          "ReqPnl", "CancelPnl", "ReqPnlSingle", "CancelPnlSingle"}, V.SCAN_DATA)
  @@ MinVersion({"ReqFa", "ReplaceFa", "ExerciseOptions", "ReqCalcImpliedVolat",
          "CancelCalcImpliedVolat", "ReqCalcOptionPrice", "CancelCalcOptionPrice"},
         V.REST_MESSAGES_1)
  @@ MinVersion({"ReqSecDefOptParams", "ReqSoftDollarTiers", "ReqFamilyCodes",
          "ReqMatchingSymbols", "ReqSmartComponents", "ReqMarketRule", "ReqUserInfo"},
         V.REST_MESSAGES_2)
  @@ MinVersion({"ReqIds", "ReqCurrentTime", "ReqCurrentTimeInMillis", "SetServerLogLevel",
          "VerifyRequest", "VerifyMessage", "QueryDisplayGroups", "SubscribeToGroupEvents",
          "UpdateDisplayGroup", "UnsubscribeFromGroupEvents", "ReqMktDepthExchanges"},
         V.REST_MESSAGES_3)

SupportsProtobuf(message, version) ==
  /\ message \in DOMAIN protobuf_min_server_version
  /\ version >= protobuf_min_server_version[message]

\* Message ids; the one of a protobuf frame is PROTOBUF_MSG_ID more.
OutgoingTo59 ==
  [ReqMktData |-> 1, CancelMktData |-> 2, PlaceOrder |-> 3, CancelOrder |-> 4,
   ReqOpenOrders |-> 5, ReqAcctData |-> 6, ReqExecutions |-> 7, ReqIds |-> 8,
   ReqContractData |-> 9, ReqMktDepth |-> 10, CancelMktDepth |-> 11,
   ReqNewsBulletins |-> 12, CancelNewsBulletins |-> 13, SetServerLogLevel |-> 14,
   ReqAutoOpenOrders |-> 15, ReqAllOpenOrders |-> 16, ReqManagedAccounts |-> 17,
   ReqFa |-> 18, ReplaceFa |-> 19, ReqHistoricalData |-> 20, ExerciseOptions |-> 21,
   ReqScannerSubscription |-> 22, CancelScannerSubscription |-> 23,
   ReqScannerParameters |-> 24, CancelHistoricalData |-> 25, ReqCurrentTime |-> 49,
   ReqRealTimeBars |-> 50, CancelRealTimeBars |-> 51, ReqCalcImpliedVolat |-> 54,
   ReqCalcOptionPrice |-> 55, CancelCalcImpliedVolat |-> 56,
   CancelCalcOptionPrice |-> 57, ReqGlobalCancel |-> 58, ReqMarketDataType |-> 59]
OutgoingFrom61 ==
  [ReqPositions |-> 61, ReqAccountSummary |-> 62, CancelAccountSummary |-> 63,
   CancelPositions |-> 64, VerifyRequest |-> 65, VerifyMessage |-> 66,
   QueryDisplayGroups |-> 67, SubscribeToGroupEvents |-> 68, UpdateDisplayGroup |-> 69,
   UnsubscribeFromGroupEvents |-> 70, StartApi |-> 71, VerifyAndAuthRequest |-> 72,
   VerifyAndAuthMessage |-> 73, ReqPositionsMulti |-> 74, CancelPositionsMulti |-> 75,
   ReqAccountUpdatesMulti |-> 76, CancelAccountUpdatesMulti |-> 77,
   ReqSecDefOptParams |-> 78, ReqSoftDollarTiers |-> 79, ReqFamilyCodes |-> 80,
   ReqMatchingSymbols |-> 81, ReqMktDepthExchanges |-> 82, ReqSmartComponents |-> 83,
   ReqNewsArticle |-> 84, ReqNewsProviders |-> 85, ReqHistoricalNews |-> 86,
   ReqHeadTimestamp |-> 87, ReqHistogramData |-> 88, CancelHistogramData |-> 89,
   CancelHeadTimestamp |-> 90, ReqMarketRule |-> 91, ReqPnl |-> 92, CancelPnl |-> 93,
   ReqPnlSingle |-> 94, CancelPnlSingle |-> 95, ReqHistoricalTicks |-> 96,
   ReqTickByTickData |-> 97, CancelTickByTickData |-> 98, ReqCompletedOrders |-> 99,
   ReqWshMetaData |-> 100, CancelWshMetaData |-> 101, ReqWshEventData |-> 102,
   CancelWshEventData |-> 103, ReqUserInfo |-> 104, ReqCurrentTimeInMillis |-> 105,
   CancelContractData |-> 106, CancelHistoricalTicks |-> 107, ReqConfig |-> 108,
   UpdateConfig |-> 109]
Outgoing == OutgoingTo59 @@ OutgoingFrom61
PROTOBUF_MSG_ID == 200
protobuf_id(message) == Outgoing[message] + PROTOBUF_MSG_ID

\* A frame on the wire: its id, whether that is a raw integer, the form of the
\* body and what it carries; "refused" where nothing is sent.
Frame(message, form, raw, carries) ==
  [message |-> message, form |-> form, raw |-> raw, carries |-> carries,
   id |-> IF form = "protobuf" THEN protobuf_id(message) ELSE Outgoing[message]]

encode_request_frame_with_protobuf(message, layout, version, prefer_protobuf, given) ==
  IF prefer_protobuf /\ SupportsProtobuf(message, version) /\ layout.proto # NoProto
  THEN Frame(message, "protobuf", TRUE, InProto(layout, given))
  ELSE IF version < layout.oldest THEN Frame(message, "refused", FALSE, {})
  ELSE Frame(message, "fields", version >= V.PROTOBUF, InFields(layout, version, given))

\* Order parameters a server is too old for.
validate_order_parameters(version) ==
  {p \in {"deactivate", "post_only", "allow_pre_open", "ignore_open_auction"} :
     version < V.ADDITIONAL_ORDER_PARAMS_1}
  \cup {p \in {"route_marketable_to_bbo", "seek_price_improvement", "what_if_type"} :
         version < V.ADDITIONAL_ORDER_PARAMS_2}
  \cup {p \in {"hedge_max_size"} : version < V.HEDGE_MAX_SIZE}
validate_attached_orders_parameters(version) ==
  {p \in AttachedOrders : version < V.ATTACHED_ORDERS}
=============================================================================
