--------------------------- MODULE MCScriptRunner ---------------------------
(***************************************************************************)
(* Every script that orders nothing, with the lists of those that do not   *)
(* keep to what the others do.                                             *)
(***************************************************************************)
EXTENDS ScriptRunner, QuoteScripts, TradeScripts, SubscribeScripts, TLC

MCScripts == QuoteScriptsTable @@ TradeScriptsTable @@ SubscribeScriptsTable

MCFirms == <<"FUTUSECURITIES", "FUTUINC">>
MCAccountSets == {{}, {"FUTUINC"}, {"FUTUSECURITIES", "FUTUINC"}}

MCTolerant ==
  {"get_accounts", "get_crypto_accounts", "get_all_portfolios", "get_stock_filter",
   "get_indicator_calc_result"}

MCTextOnEmpty ==
  {"get_fed_watch_dot_plot", "get_fed_watch_target_rate", "get_heat_map_data",
   "get_industrial_chain_list", "get_industrial_plate_stock", "get_institution_distribution",
   "get_institution_holding_change", "get_institution_holding_list", "get_institution_list",
   "get_macro_indicator_history", "get_macro_indicator_list", "get_rating_change",
   "get_plate_stock"}

MCTextErrors ==
  {"get_kline", "get_orderbook", "get_rt_data", "get_ticker", "get_option_screen",
   "get_stock_screen", "get_warrant_screen", "set_option_event_alert", "unsubscribe",
   "get_all_portfolios"}
=============================================================================
