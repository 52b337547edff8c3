------------------------------ MODULE FutuCalls ------------------------------
(***************************************************************************)
(* What a program can ask of truefix-futu-client (QuoteClient and          *)
(* TradeClient): the requests by protocol number, which of them carry a    *)
(* serial number of their own, what the answer must hold, and what the     *)
(* client remembers of them for the next connection.  A method is known by *)
(* the protocol number it sends; aliases are the method they call.         *)
(***************************************************************************)
EXTENDS Naturals, Sequences, TLC

SessionAndTradeIds ==
  [INIT_CONNECT |-> 1001, GET_GLOBAL_STATE |-> 1002, NOTIFY |-> 1003,
   KEEP_ALIVE |-> 1004, GET_USER_INFO |-> 1005, VERIFICATION |-> 1006,
   GET_DELAY_STATISTICS |-> 1007, TEST_CMD |-> 1008, TRD_GET_ACC_LIST |-> 2001,
   TRD_UNLOCK_TRADE |-> 2005, TRD_SUB_ACC_PUSH |-> 2008, TRD_GET_FUNDS |-> 2101,
   TRD_GET_POSITION_LIST |-> 2102, TRD_GET_MAX_TRD_QTYS |-> 2111,
   TRD_GET_COMBO_MAX_TRD_QTYS |-> 2112, TRD_GET_ORDER_LIST |-> 2201,
   TRD_PLACE_ORDER |-> 2202, TRD_MODIFY_ORDER |-> 2205,
   TRD_UPDATE_ORDER |-> 2208, TRD_GET_ORDER_FILL_LIST |-> 2211,
   TRD_UPDATE_ORDER_FILL |-> 2218, TRD_GET_HISTORY_ORDER_LIST |-> 2221,
   TRD_GET_HISTORY_ORDER_FILL_LIST |-> 2222, TRD_GET_MARGIN_RATIO |-> 2223,
   TRD_GET_ORDER_FEE |-> 2225, TRD_FLOW_SUMMARY |-> 2226,
   TRD_PLACE_COMBO_ORDER |-> 2227]
QuoteIds ==
  [QOT_SUB |-> 3001, QOT_REG_QOT_PUSH |-> 3002, QOT_GET_SUB_INFO |-> 3003,
   QOT_GET_BASIC_QOT |-> 3004, QOT_UPDATE_BASIC_QOT |-> 3005,
   QOT_GET_KL |-> 3006, QOT_UPDATE_KL |-> 3007, QOT_GET_RT |-> 3008,
   QOT_UPDATE_RT |-> 3009, QOT_GET_TICKER |-> 3010, QOT_UPDATE_TICKER |-> 3011,
   QOT_GET_ORDER_BOOK |-> 3012, QOT_UPDATE_ORDER_BOOK |-> 3013,
   QOT_GET_BROKER |-> 3014, QOT_UPDATE_BROKER |-> 3015,
   QOT_UPDATE_PRICE_REMINDER |-> 3019, QOT_REQUEST_HISTORY_KL |-> 3103,
   QOT_REQUEST_HISTORY_KL_QUOTA |-> 3104, QOT_REQUEST_REHAB |-> 3105,
   QOT_REQUEST_TRADE_DATE |-> 3219, QOT_GET_STATIC_INFO |-> 3202,
   QOT_GET_SECURITY_SNAPSHOT |-> 3203, QOT_GET_PLATE_SET |-> 3204,
   QOT_GET_PLATE_SECURITY |-> 3205, QOT_GET_REFERENCE |-> 3206,
   QOT_GET_OWNER_PLATE |-> 3207, QOT_GET_HOLDING_CHANGE_LIST |-> 3208,
   QOT_GET_OPTION_CHAIN |-> 3209, QOT_GET_WARRANT |-> 3210,
   QOT_GET_CAPITAL_FLOW |-> 3211, QOT_GET_CAPITAL_DISTRIBUTION |-> 3212,
   QOT_GET_USER_SECURITY |-> 3213, QOT_MODIFY_USER_SECURITY |-> 3214,
   QOT_STOCK_FILTER |-> 3215, QOT_GET_CODE_CHANGE |-> 3216,
   QOT_GET_IPO_LIST |-> 3217, QOT_GET_FUTURE_INFO |-> 3218,
   QOT_SET_PRICE_REMINDER |-> 3220, QOT_GET_PRICE_REMINDER |-> 3221,
   QOT_GET_USER_SECURITY_GROUP |-> 3222, QOT_GET_MARKET_STATE |-> 3223,
   QOT_GET_OPTION_EXPIRATION_DATE |-> 3224,
   QOT_GET_FINANCIALS_EARNINGS_PRICE_MOVE |-> 3225,
   QOT_GET_FINANCIALS_EARNINGS_PRICE_HISTORY |-> 3226,
   QOT_GET_FINANCIALS_STATEMENTS |-> 3227,
   QOT_GET_FINANCIALS_REVENUE_BREAKDOWN |-> 3228,
   QOT_GET_RESEARCH_ANALYST_CONSENSUS |-> 3229,
   QOT_GET_RESEARCH_RATING_SUMMARY |-> 3230,
   QOT_GET_RESEARCH_MORNINGSTAR_REPORT |-> 3231,
   QOT_GET_VALUATION_DETAIL |-> 3232,
   QOT_GET_VALUATION_PLATE_STOCK_LIST |-> 3233,
   QOT_GET_CORPORATE_ACTIONS_DIVIDENDS |-> 3234,
   QOT_GET_CORPORATE_ACTIONS_BUYBACKS |-> 3235,
   QOT_GET_CORPORATE_ACTIONS_STOCK_SPLITS |-> 3236,
   QOT_GET_SHAREHOLDERS_OVERVIEW |-> 3237,
   QOT_GET_SHAREHOLDERS_HOLDING_CHANGES |-> 3238,
   QOT_GET_SHAREHOLDERS_HOLDER_DETAIL |-> 3239,
   QOT_GET_SHAREHOLDERS_INSTITUTIONAL |-> 3240,
   QOT_GET_INSIDER_HOLDER_LIST |-> 3241, QOT_GET_INSIDER_TRADE_LIST |-> 3242,
   QOT_GET_COMPANY_PROFILE |-> 3243, QOT_GET_COMPANY_EXECUTIVES |-> 3244,
   QOT_GET_COMPANY_EXECUTIVE_BACKGROUND |-> 3245,
   QOT_GET_COMPANY_OPERATIONAL_EFFICIENCY |-> 3246,
   QOT_GET_TOP_TEN_BUY_SELL_BROKERS |-> 3247,
   QOT_GET_DAILY_SHORT_VOLUME |-> 3248, QOT_GET_SHORT_INTEREST |-> 3249,
   QOT_GET_OPTION_VOLATILITY |-> 3250,
   QOT_GET_OPTION_EXERCISE_PROBABILITY |-> 3251, QOT_STOCK_SCREEN |-> 3252,
   QOT_OPTION_SCREEN |-> 3253, QOT_WARRANT_SCREEN |-> 3254,
   QOT_GET_OPTION_QUOTE |-> 3255, QOT_GET_OPTION_STRATEGY |-> 3256,
   QOT_GET_OPTION_STRATEGY_ANALYSIS |-> 3257,
   QOT_GET_OPTION_STRATEGY_SPREAD |-> 3258, QOT_GET_INDICATOR_LIST |-> 3259,
   QOT_REQUEST_INDICATOR_CALC |-> 3260, QOT_GET_SEARCH_QUOTE |-> 3262,
   QOT_GET_SEARCH_NEWS |-> 3263]
ScreenAndRankIds ==
  [QOT_GET_OPTION_MARKET_STATISTIC |-> 3301,
   QOT_GET_OPTION_UNDERLYING_HIS_STATISTIC |-> 3302,
   QOT_GET_OPTION_UNDERLYING_OVERVIEW |-> 3303,
   QOT_GET_OPTION_UNDERLYING_HIS_VOLATILITY |-> 3304,
   QOT_GET_OPTION_UNDERLYING_RANK |-> 3305, QOT_GET_OPTION_RANK |-> 3306,
   QOT_GET_OPTION_EVENT |-> 3307, QOT_GET_OPTION_EVENT_ALERT |-> 3308,
   QOT_SET_OPTION_EVENT_ALERT |-> 3309,
   QOT_GET_OPTION_ZERO_DTE_SCREENER |-> 3311,
   QOT_GET_OPTION_ZERO_DTE_CONTRACT |-> 3312,
   QOT_GET_OPTION_EARNINGS_SCREENER |-> 3313,
   QOT_GET_OPTION_SELLER_SCREENER |-> 3314, QOT_GET_EARNINGS_CALENDAR |-> 3401,
   QOT_GET_MACRO_INDICATOR_LIST |-> 3402,
   QOT_GET_MACRO_INDICATOR_HISTORY |-> 3403,
   QOT_GET_FED_WATCH_TARGET_RATE |-> 3404, QOT_GET_FED_WATCH_DOT_PLOT |-> 3405,
   QOT_GET_EARNINGS_BEAT_RANK |-> 3406, QOT_GET_DIVIDEND_RANK |-> 3407,
   QOT_GET_DIVIDEND_CALENDAR |-> 3408, QOT_GET_ECONOMIC_CALENDAR |-> 3409,
   QOT_GET_US_PRE_MARKET_RANK |-> 3410, QOT_GET_US_AFTER_HOURS_RANK |-> 3411,
   QOT_GET_US_OVERNIGHT_RANK |-> 3412, QOT_GET_TOP_MOVERS_RANK |-> 3413,
   QOT_GET_HOT_LIST |-> 3414, QOT_GET_SHORT_SELLING_RANK |-> 3415,
   QOT_GET_PERIOD_CHANGE_RANK |-> 3416, QOT_GET_HIGH_DIVIDEND_SOE_RANK |-> 3417,
   QOT_GET_INSTITUTION_LIST |-> 3418, QOT_GET_INSTITUTION_PROFILE |-> 3419,
   QOT_GET_INSTITUTION_DISTRIBUTION |-> 3420,
   QOT_GET_INSTITUTION_HOLDING_CHANGE |-> 3421,
   QOT_GET_INSTITUTION_HOLDING_LIST |-> 3422, QOT_GET_ARK_FUND_HOLDING |-> 3423,
   QOT_GET_ARK_STOCK_DYNAMIC |-> 3424, QOT_GET_ARK_ACTIVE_TRANSACTION |-> 3425,
   QOT_GET_RATING_CHANGE |-> 3426, QOT_GET_INDUSTRIAL_CHAIN_LIST |-> 3427,
   QOT_GET_INDUSTRIAL_CHAIN_DETAIL |-> 3428,
   QOT_GET_INDUSTRIAL_CHAIN_BY_PLATE |-> 3429,
   QOT_GET_INDUSTRIAL_PLATE_INFO |-> 3430,
   QOT_GET_INDUSTRIAL_PLATE_STOCK |-> 3431, QOT_GET_HEAT_MAP_DATA |-> 3432,
   QOT_GET_RISE_FALL_DISTRIBUTION |-> 3433,
   SKILL_WRAP_TECHNICAL_UNUSUAL |-> 3801, SKILL_WRAP_FINANCIAL_UNUSUAL |-> 3802,
   SKILL_WRAP_DERIVATIVE_UNUSUAL |-> 3803, QOT_PUSH_INDICATOR_CALC |-> 3261,
   QOT_UPDATE_OPTION_EVENT |-> 3310]

proto_id == SessionAndTradeIds @@ QuoteIds @@ ScreenAndRankIds

ALL_PUSH_IDS ==
  {proto_id[name] :
     name \in {"NOTIFY", "TRD_UPDATE_ORDER", "TRD_UPDATE_ORDER_FILL", "QOT_UPDATE_BROKER",
               "QOT_UPDATE_ORDER_BOOK", "QOT_UPDATE_KL", "QOT_UPDATE_RT",
               "QOT_UPDATE_BASIC_QOT", "QOT_UPDATE_TICKER", "QOT_UPDATE_PRICE_REMINDER",
               "QOT_UPDATE_OPTION_EVENT", "QOT_PUSH_INDICATOR_CALC"}}

is_push(id) == id \in ALL_PUSH_IDS

-----------------------------------------------------------------------------
\* A request: its number; whether the method has what it insists on (a trade
\* header, a security); whether the answer must have a payload; whether the
\* method numbers the frame itself; what it changes at OpenD and what of.
Request(name) ==
  [id |-> proto_id[name], complete |-> TRUE, payload |-> TRUE, own |-> FALSE,
   does |-> "query", things |-> {}]
Unit(name) == [Request(name) EXCEPT !.payload = FALSE]
Changing(name, does, things) == [Unit(name) EXCEPT !.does = does, !.things = things]

\* The methods that return the payload of the answer as it is.
MarketRequests ==
  {"GET_GLOBAL_STATE", "TEST_CMD", "QOT_REQUEST_TRADE_DATE",
   "QOT_GET_MARKET_STATE", "QOT_GET_INDICATOR_LIST",
   "QOT_REQUEST_INDICATOR_CALC", "QOT_GET_BASIC_QOT"}
SnapshotRequests == {"QOT_GET_STATIC_INFO", "QOT_GET_SECURITY_SNAPSHOT"}
ScreenRequests ==
  {"QOT_GET_RT", "QOT_GET_BROKER", "QOT_STOCK_FILTER", "QOT_GET_OPTION_CHAIN",
   "QOT_GET_WARRANT", "QOT_GET_OPTION_QUOTE", "QOT_GET_SEARCH_QUOTE",
   "QOT_GET_SEARCH_NEWS"}
ScreenerRequests ==
  {"QOT_STOCK_SCREEN", "QOT_WARRANT_SCREEN", "QOT_OPTION_SCREEN",
   "QOT_GET_OPTION_EXPIRATION_DATE"}
OptionRequests ==
  {"QOT_GET_OPTION_MARKET_STATISTIC", "QOT_GET_OPTION_UNDERLYING_HIS_STATISTIC",
   "QOT_GET_OPTION_UNDERLYING_OVERVIEW",
   "QOT_GET_OPTION_UNDERLYING_HIS_VOLATILITY", "QOT_GET_OPTION_UNDERLYING_RANK",
   "QOT_GET_OPTION_RANK", "QOT_GET_OPTION_EVENT", "QOT_GET_OPTION_EVENT_ALERT"}
OptionScreenRequests ==
  {"QOT_GET_OPTION_ZERO_DTE_SCREENER", "QOT_GET_OPTION_ZERO_DTE_CONTRACT",
   "QOT_GET_OPTION_EARNINGS_SCREENER", "QOT_GET_OPTION_SELLER_SCREENER"}
HistoryRequests ==
  {"QOT_GET_SUB_INFO", "QOT_REQUEST_HISTORY_KL", "QOT_REQUEST_HISTORY_KL_QUOTA",
   "QOT_REQUEST_REHAB"}
UserRequests ==
  {"GET_USER_INFO", "QOT_GET_PRICE_REMINDER",
   "QOT_SET_PRICE_REMINDER", "QOT_GET_USER_SECURITY",
   "QOT_MODIFY_USER_SECURITY", "QOT_GET_USER_SECURITY_GROUP", "VERIFICATION",
   "GET_DELAY_STATISTICS"}
CompanyRequests ==
  {"QOT_GET_FINANCIALS_EARNINGS_PRICE_MOVE",
   "QOT_GET_FINANCIALS_EARNINGS_PRICE_HISTORY", "QOT_GET_FINANCIALS_STATEMENTS",
   "QOT_GET_FINANCIALS_REVENUE_BREAKDOWN", "QOT_GET_RESEARCH_ANALYST_CONSENSUS",
   "QOT_GET_RESEARCH_RATING_SUMMARY", "QOT_GET_RESEARCH_MORNINGSTAR_REPORT",
   "QOT_GET_VALUATION_DETAIL", "QOT_GET_VALUATION_PLATE_STOCK_LIST",
   "QOT_GET_CORPORATE_ACTIONS_DIVIDENDS", "QOT_GET_CORPORATE_ACTIONS_BUYBACKS",
   "QOT_GET_CORPORATE_ACTIONS_STOCK_SPLITS", "QOT_GET_SHAREHOLDERS_OVERVIEW",
   "QOT_GET_SHAREHOLDERS_HOLDING_CHANGES", "QOT_GET_SHAREHOLDERS_HOLDER_DETAIL",
   "QOT_GET_SHAREHOLDERS_INSTITUTIONAL", "QOT_GET_INSIDER_HOLDER_LIST",
   "QOT_GET_INSIDER_TRADE_LIST", "QOT_GET_COMPANY_PROFILE",
   "QOT_GET_COMPANY_EXECUTIVES", "QOT_GET_COMPANY_EXECUTIVE_BACKGROUND",
   "QOT_GET_COMPANY_OPERATIONAL_EFFICIENCY", "QOT_GET_TOP_TEN_BUY_SELL_BROKERS",
   "QOT_GET_DAILY_SHORT_VOLUME", "QOT_GET_SHORT_INTEREST",
   "QOT_GET_OPTION_EXERCISE_PROBABILITY", "QOT_GET_OPTION_VOLATILITY"}
RankRequests ==
  {"QOT_GET_EARNINGS_CALENDAR", "QOT_GET_MACRO_INDICATOR_LIST",
   "QOT_GET_MACRO_INDICATOR_HISTORY", "QOT_GET_FED_WATCH_TARGET_RATE",
   "QOT_GET_FED_WATCH_DOT_PLOT", "QOT_GET_ECONOMIC_CALENDAR",
   "QOT_GET_EARNINGS_BEAT_RANK", "QOT_GET_DIVIDEND_RANK",
   "QOT_GET_DIVIDEND_CALENDAR", "QOT_GET_US_PRE_MARKET_RANK",
   "QOT_GET_US_AFTER_HOURS_RANK", "QOT_GET_US_OVERNIGHT_RANK",
   "QOT_GET_TOP_MOVERS_RANK", "QOT_GET_HOT_LIST", "QOT_GET_SHORT_SELLING_RANK",
   "QOT_GET_PERIOD_CHANGE_RANK", "QOT_GET_HIGH_DIVIDEND_SOE_RANK",
   "QOT_GET_INSTITUTION_LIST", "QOT_GET_INSTITUTION_PROFILE",
   "QOT_GET_INSTITUTION_DISTRIBUTION", "QOT_GET_INSTITUTION_HOLDING_CHANGE",
   "QOT_GET_INSTITUTION_HOLDING_LIST"}
IndustryRequests ==
  {"QOT_GET_ARK_FUND_HOLDING", "QOT_GET_ARK_STOCK_DYNAMIC",
   "QOT_GET_ARK_ACTIVE_TRANSACTION", "QOT_GET_RATING_CHANGE",
   "QOT_GET_INDUSTRIAL_CHAIN_LIST", "QOT_GET_INDUSTRIAL_CHAIN_DETAIL",
   "QOT_GET_INDUSTRIAL_CHAIN_BY_PLATE", "QOT_GET_INDUSTRIAL_PLATE_INFO",
   "QOT_GET_INDUSTRIAL_PLATE_STOCK", "QOT_GET_HEAT_MAP_DATA",
   "QOT_GET_RISE_FALL_DISTRIBUTION", "QOT_GET_REFERENCE", "QOT_GET_OWNER_PLATE",
   "QOT_GET_HOLDING_CHANGE_LIST", "QOT_GET_PLATE_SET", "QOT_GET_PLATE_SECURITY",
   "QOT_GET_CODE_CHANGE", "QOT_GET_CAPITAL_FLOW",
   "QOT_GET_CAPITAL_DISTRIBUTION", "QOT_GET_FUTURE_INFO", "QOT_GET_IPO_LIST",
   "QOT_GET_OPTION_STRATEGY", "QOT_GET_OPTION_STRATEGY_ANALYSIS",
   "QOT_GET_OPTION_STRATEGY_SPREAD"}
AccountRequests == {"TRD_GET_ACC_LIST", "TRD_GET_MAX_TRD_QTYS"}
TradeRequests ==
  {"TRD_GET_HISTORY_ORDER_FILL_LIST", "TRD_GET_MARGIN_RATIO", "TRD_GET_ORDER_FEE",
   "TRD_FLOW_SUMMARY", "TRD_GET_COMBO_MAX_TRD_QTYS", "TRD_PLACE_COMBO_ORDER"}
Passthrough ==
  MarketRequests \cup SnapshotRequests \cup ScreenRequests \cup ScreenerRequests
    \cup OptionRequests \cup OptionScreenRequests \cup HistoryRequests \cup UserRequests
    \cup CompanyRequests \cup RankRequests \cup IndustryRequests \cup AccountRequests
    \cup TradeRequests

\* The methods that refuse a request without its security or trade header.
SecurityRequests == {"QOT_GET_KL", "QOT_GET_TICKER", "QOT_GET_ORDER_BOOK"}
HeaderRequests ==
  {"TRD_GET_FUNDS", "TRD_GET_POSITION_LIST", "TRD_GET_ORDER_LIST"}
FillRequests == {"TRD_GET_ORDER_FILL_LIST", "TRD_GET_HISTORY_ORDER_LIST"}

\* Those whose answer needs no payload.
set_option_event_alert == Unit("QOT_SET_OPTION_EVENT_ALERT")
SkillWrap ==
  {Unit(name) : name \in {"SKILL_WRAP_TECHNICAL_UNUSUAL", "SKILL_WRAP_FINANCIAL_UNUSUAL",
                          "SKILL_WRAP_DERIVATIVE_UNUSUAL"}}

\* The methods that put the frame's serial number into the packet id.
place_order == [Request("TRD_PLACE_ORDER") EXCEPT !.own = TRUE]
modify_order == [Request("TRD_MODIFY_ORDER") EXCEPT !.own = TRUE]
cancel_all_order(with_header) ==
  [Unit("TRD_MODIFY_ORDER") EXCEPT !.own = TRUE, !.complete = with_header]

\* A method call: the requests it makes, each after the previous one succeeded.
subscribe(securities) == <<Changing("QOT_SUB", "add", securities)>>
unsubscribe(securities) ==
  <<Changing("QOT_SUB", "drop", securities)>>
  \o (IF securities # {} THEN <<Unit("QOT_REG_QOT_PUSH")>> ELSE <<>>)
unsubscribe_all == <<Changing("QOT_SUB", "clear", {})>>
unlock_trade(unlock) ==
  <<Changing("TRD_UNLOCK_TRADE", IF unlock THEN "unlock" ELSE "lock", {"unlocked"})>>
sub_acc_push(accounts) == <<Changing("TRD_SUB_ACC_PUSH", "account", accounts)>>

Queries ==
  {Request(name) : name \in Passthrough}
  \cup {[Request(name) EXCEPT !.complete = c] :
          name \in SecurityRequests \cup HeaderRequests \cup FillRequests, c \in BOOLEAN}
  \cup {set_option_event_alert} \cup SkillWrap

\* ensure_ok, and the payload where the method returns one.
Accepted(request, answer) == answer = "ok" \/ (answer = "empty" /\ ~request.payload)
=============================================================================
