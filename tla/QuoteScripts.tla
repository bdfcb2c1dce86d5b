---------------------------- MODULE QuoteScripts ----------------------------
(***************************************************************************)
(* The query scripts of scripts/quote: one program for each.               *)
(***************************************************************************)
EXTENDS ScriptSteps

\* Scripts with --auto-subscribe subscribe first; a subscription that exists
\* already is no error.
AutoSubscribe(auto) == IF auto THEN <<Ask("subscribe_event_contract")>> ELSE <<>>

filter_competition == EventRows("filter_competition")
get_ark_active_transaction ==
  Caught(<<>>, <<Open, Pages("get_ark_active_transaction"), Empty("asked")>>)
get_ark_fund_holding == Caught(<<>>, <<Open, Pages("get_ark_fund_holding"), Empty("asked")>>)
get_ark_stock_dynamic == Query("get_ark_stock_dynamic")
get_broker_queue == Caught(<<>>, <<Open, Ask("subscribe"), Ask("get_broker_queue")>>)
get_capital_distribution == QueryRows("get_capital_distribution")
get_capital_flow == QueryRows("get_capital_flow")
get_company_executive_background == QueryRows("get_company_executive_background")
get_company_executives == Query("get_company_executives")
get_company_operational_efficiency == QueryRows("get_company_operational_efficiency")
get_company_profile == Query("get_company_profile")
get_corporate_actions_buybacks == QueryRows("get_corporate_actions_buybacks")
get_corporate_actions_dividends == QueryRows("get_corporate_actions_dividends")
get_corporate_actions_stock_splits ==
  Uncaught(<<>>, <<Open, Ask("get_corporate_actions_stock_splits"), Empty("asked")>>)
get_daily_short_volume == QueryRows("get_daily_short_volume")
get_dividend_calendar == CheckedRows("get_dividend_calendar")
get_dividend_rank == CheckedRows("get_dividend_rank")
get_earnings_beat_rank == CheckedRows("get_earnings_beat_rank")
get_earnings_calendar == CheckedRows("get_earnings_calendar")
get_economic_calendar ==
  Caught(<<Check>>, <<Open, Pages("get_economic_calendar"), Empty("asked")>>)
get_event_contract == EventQuery("get_event_contract")
get_event_contract_category == EventRows("get_event_contract_category")
get_event_contract_event_list ==
  Caught(<<>>, <<Open, Refuse("asked"), Check, Ask("get_event_contract_event_list")>>)
get_event_contract_kline(auto) ==
  Caught(<<>>, <<Open, Refuse("asked"), Check>> \o AutoSubscribe(auto)
  \o <<Ask("get_event_contract_kline"), Empty("asked")>>)
get_event_contract_milestone_list == EventQuery("get_event_contract_milestone_list")
get_event_contract_order_book(auto) ==
  Caught(<<>>, <<Open, Refuse("asked")>> \o AutoSubscribe(auto)
  \o <<Ask("get_event_contract_order_book")>>)
get_event_contract_series_list == EventRows("get_event_contract_series_list")
get_event_contract_snapshot == EventRows("get_event_contract_snapshot")
get_event_contract_ticker(auto) == Caught(<<>>, <<Open, Refuse("asked")>> \o AutoSubscribe(auto)
  \o <<Ask("get_event_contract_ticker"), Empty("asked")>>)
get_fed_watch_dot_plot == Uncaught(<<>>, <<Open, Ask("get_fed_watch_dot_plot"), Empty("text")>>)
get_fed_watch_target_rate ==
  Uncaught(<<>>, <<Open, Ask("get_fed_watch_target_rate"), Empty("text")>>)
get_financials_earnings_price_history ==
  Caught(<<>>, <<Open, Check, Ask("get_financials_earnings_price_history")>>)
get_financials_earnings_price_move == QueryRows("get_financials_earnings_price_move")
get_financials_revenue_breakdown == QueryRows("get_financials_revenue_breakdown")
get_financials_statements == QueryRows("get_financials_statements")
get_future_info == QueryRows("get_future_info")
get_global_state == Query("get_global_state")
get_heat_map_data == PagedText("get_heat_map_data")
get_high_dividend_soe_rank == CheckedRows("get_high_dividend_soe_rank")
get_history_kl_quota == Query("get_history_kl_quota")
get_hot_list == CheckedRows("get_hot_list")
\* A calculation that fails is an exit 1, but under --json a result and an exit 0.
get_indicator_calc_result ==
  Caught(<<>>, <<Check, Open, Ask("request_indicator_calc_async"), Calc("wait_for")>>)
get_indicator_list == Query("get_indicator_list")
get_industrial_chain_by_plate == Uncaught(<<>>, <<Open, Ask("get_industrial_chain_by_plate")>>)
get_industrial_chain_detail ==
  AlwaysJson(Uncaught(<<>>, <<Open, Ask("get_industrial_chain_detail")>>))
get_industrial_chain_list == PagedText("get_industrial_chain_list")
get_industrial_plate_info ==
  AlwaysJson(Uncaught(<<>>, <<Open, Ask("get_industrial_plate_info")>>))
get_industrial_plate_stock == PagedText("get_industrial_plate_stock")
get_insider_holder_list == Query("get_insider_holder_list")
get_insider_trade_list == Query("get_insider_trade_list")
get_institution_distribution ==
  Uncaught(<<Check>>, <<Open, Ask("get_institution_distribution"), Empty("text")>>)
get_institution_holding_change == PagedText("get_institution_holding_change")
get_institution_holding_list == PagedText("get_institution_holding_list")
get_institution_list == PagedText("get_institution_list")
get_institution_profile ==
  AlwaysJson(Uncaught(<<Check>>, <<Open, Ask("get_institution_profile")>>))
get_ipo_list == Caught(<<>>, <<Check, Open, Ask("get_ipo_list"), Empty("asked")>>)
\* --max-page is taken as one page, its absence as all of them.
get_kline(start) == Caught(<<>>, <<Open>> \o
  (IF start THEN <<Pages("request_history_kline")>>
   ELSE <<AskPlain("subscribe"), Ask("get_cur_kline")>>)
  \o <<Empty("asked")>>)
get_macro_indicator_history ==
  Uncaught(<<>>, <<Open, Ask("get_macro_indicator_history"), Empty("text")>>)
get_macro_indicator_list ==
  Uncaught(<<Check>>, <<Open, Ask("get_macro_indicator_list"), Empty("text")>>)
get_market_state == QueryRows("get_market_state")
get_option_chain == QueryRows("get_option_chain")
get_option_earnings_screener == Screener("get_option_earnings_screener")
get_option_event == Screener("get_option_event")
get_option_event_alert ==
  Uncaught(<<>>, <<Open, AllPages("get_option_event_alert"), Empty("asked")>>)
get_option_exercise_probability == QueryRows("get_option_exercise_probability")
get_option_expiration_date == QueryRows("get_option_expiration_date")
get_option_market_statistic ==
  Uncaught(<<>>, <<Open, Check, AllPages("get_option_market_statistic"), Empty("asked")>>)
get_option_quote == Caught(<<>>, <<Check, Open, Ask("get_option_quote"), Empty("asked")>>)
get_option_rank == Screener("get_option_rank")
get_option_screen ==
  Uncaught(<<Check>>, <<Open, Refuse("text"), Check, Ask("get_option_screen"), Empty("asked")>>)
get_option_seller_screener ==
  Uncaught(<<Check>>, <<Open, Check, Ask("get_option_seller_screener"), Empty("asked")>>)
get_option_strategy == Caught(<<>>, <<Open, Check, Ask("get_option_strategy"), Empty("asked")>>)
get_option_strategy_analysis ==
  Caught(<<>>, <<Check, Open, Ask("get_option_strategy_analysis"), Empty("asked")>>)
get_option_strategy_spread ==
  Caught(<<>>, <<Open, Check, Ask("get_option_strategy_spread"), Empty("asked")>>)
get_option_underlying_his_statistic ==
  Uncaught(<<>>, <<Open, AllPages("get_option_underlying_his_statistic"), Empty("asked")>>)
get_option_underlying_his_volatility ==
  Uncaught(<<>>, <<Open, AllPages("get_option_underlying_his_volatility"), Empty("asked")>>)
get_option_underlying_overview ==
  Uncaught(<<>>, <<Open, Ask("get_option_underlying_overview"), Empty("asked")>>)
get_option_underlying_rank == Screener("get_option_underlying_rank")
get_option_volatility == QueryRows("get_option_volatility")
get_option_zero_dte_contract ==
  Uncaught(<<Check>>, <<Open, Check, Ask("get_option_zero_dte_contract"), Empty("asked")>>)
get_option_zero_dte_screener == Screener("get_option_zero_dte_screener")
get_orderbook ==
  Caught(<<Refuse("asked")>>,
         <<Open, AskPlain("subscribe"), Ask("get_order_book"), Empty("asked")>>)
get_owner_plate == QueryRows("get_owner_plate")
get_period_change_rank == CheckedRows("get_period_change_rank")
get_plate_list == QueryRows("get_plate_list")
\* Without a plate it prints its help, with --list-aliases the names it knows.
get_plate_stock == Caught(<<Empty("text"), Empty("asked")>>,
  <<Open, Ask("get_plate_stock"), Empty("asked")>>)
get_price_reminder == QueryRows("get_price_reminder")
get_rating_change == PagedText("get_rating_change")
get_referencestock_list ==
  Caught(<<>>, <<Open, Check, Ask("get_referencestock_list"), Empty("asked")>>)
get_rehab == QueryRows("get_rehab")
get_research_analyst_consensus == QueryRows("get_research_analyst_consensus")
get_research_morningstar_report == QueryRows("get_research_morningstar_report")
get_research_rating_summary == QueryRows("get_research_rating_summary")
get_rise_fall_distribution ==
  AlwaysJson(Uncaught(<<Check>>, <<Open, Ask("get_rise_fall_distribution")>>))
get_rt_data == Caught(<<>>, <<Open, AskPlain("subscribe"), Ask("get_rt_data"), Empty("asked")>>)
get_search_news == Caught(<<Check>>, <<Open, Check, Ask("get_search_news"), Empty("asked")>>)
get_search_quote == Caught(<<Check>>, <<Open, Check, Ask("get_search_quote"), Empty("asked")>>)
get_shareholders_holder_detail == Query("get_shareholders_holder_detail")
get_shareholders_holding_changes == Query("get_shareholders_holding_changes")
get_shareholders_institutional == QueryRows("get_shareholders_institutional")
get_shareholders_overview == QueryRows("get_shareholders_overview")
get_short_interest == QueryRows("get_short_interest")
get_short_selling_rank == QueryRows("get_short_selling_rank")
\* Batches of 400 codes.
get_snapshot == Caught(<<>>, <<Open, AllPages("get_market_snapshot"), Empty("asked")>>)
\* Empty market data is completed from snapshots, and when no market value is
\* above zero the rows are replaced by a fixed list of large companies.
get_stock_filter == Caught(<<Check>>, <<Open, Ask("get_stock_filter"), Empty("asked"),
  Unchecked("get_market_snapshot"), Fallback("get_market_snapshot")>>)
get_stock_info == QueryRows("get_market_snapshot")
get_stock_quote ==
  Caught(<<>>, <<Open, Ask("subscribe"), Ask("get_stock_quote"), Empty("asked")>>)
get_stock_screen ==
  Uncaught(<<Check>>, <<Open, Refuse("text"), Check, Ask("get_stock_screen")>>)
get_ticker ==
  Caught(<<>>, <<Open, AskPlain("subscribe"), Ask("get_rt_ticker"), Empty("asked")>>)
get_top_movers_rank == CheckedRows("get_top_movers_rank")
get_top_ten_buy_sell_brokers == Query("get_top_ten_buy_sell_brokers")
get_trading_days == Caught(<<>>, <<Check, Open, Ask("request_trading_days"), Empty("asked")>>)
get_us_after_hours_rank ==
  Uncaught(<<>>, <<Open, Check, Ask("get_us_after_hours_rank"), Empty("asked")>>)
get_us_overnight_rank ==
  Uncaught(<<>>, <<Open, Check, Ask("get_us_overnight_rank"), Empty("asked")>>)
get_us_pre_market_rank ==
  Uncaught(<<>>, <<Open, Check, Ask("get_us_pre_market_rank"), Empty("asked")>>)
get_user_info == Query("get_user_info")
get_user_security == QueryRows("get_user_security")
get_user_security_group == QueryRows("get_user_security_group")
get_valid_combo_list == EventQuery("get_valid_combo_list")
get_valuation_detail == QueryRows("get_valuation_detail")
get_valuation_plate_stock_list == QueryRows("get_valuation_plate_stock_list")
get_warrant == QueryRows("get_warrant")
get_warrant_screen ==
  Uncaught(<<Check>>,
         <<Open, Refuse("text"), Check, Ask("get_warrant_screen"), Empty("asked")>>)
modify_user_security == Caught(<<>>, <<Check, Open, Ask("modify_user_security")>>)
request_combo_quotes ==
  Caught(<<>>, <<Open, Refuse("asked"), Check, Ask("request_combo_quotes")>>)
request_history_event_contract_kline ==
  Caught(<<>>, <<Open, Refuse("asked"), Check, Ask("request_history_event_contract_kline")>>)
resolve_option_code ==
  Caught(<<Refuse("asked")>>,
         <<Open, Ask("get_option_chain"), Refuse("asked"), Refuse("asked")>>)
set_option_event_alert ==
  Uncaught(<<Check, Refuse("text"), Check>>, <<Open, Ask("set_option_event_alert")>>)
set_price_reminder == Caught(<<>>, <<Check, Open, Ask("set_price_reminder")>>)

\* check_env.py does not import common and exits by what it reports.
check_env ==
  [steps |-> <<Do("report", "", "asked")>>, try |-> 2, handler |-> "uncaught", shows |-> "asked"]

QuoteScriptsTable ==
  [check_env |-> check_env,
   filter_competition |-> filter_competition,
   get_ark_active_transaction |-> get_ark_active_transaction,
   get_ark_fund_holding |-> get_ark_fund_holding,
   get_ark_stock_dynamic |-> get_ark_stock_dynamic, get_broker_queue |-> get_broker_queue,
   get_capital_distribution |-> get_capital_distribution,
   get_capital_flow |-> get_capital_flow,
   get_company_executive_background |-> get_company_executive_background,
   get_company_executives |-> get_company_executives,
   get_company_operational_efficiency |-> get_company_operational_efficiency,
   get_company_profile |-> get_company_profile,
   get_corporate_actions_buybacks |-> get_corporate_actions_buybacks,
   get_corporate_actions_dividends |-> get_corporate_actions_dividends,
   get_corporate_actions_stock_splits |-> get_corporate_actions_stock_splits,
   get_daily_short_volume |-> get_daily_short_volume,
   get_dividend_calendar |-> get_dividend_calendar, get_dividend_rank |-> get_dividend_rank,
   get_earnings_beat_rank |-> get_earnings_beat_rank,
   get_earnings_calendar |-> get_earnings_calendar,
   get_economic_calendar |-> get_economic_calendar,
   get_event_contract |-> get_event_contract,
   get_event_contract_category |-> get_event_contract_category,
   get_event_contract_event_list |-> get_event_contract_event_list,
   get_event_contract_kline |-> get_event_contract_kline(FALSE),
   get_event_contract_kline_auto |-> get_event_contract_kline(TRUE),
   get_event_contract_milestone_list |-> get_event_contract_milestone_list,
   get_event_contract_order_book |-> get_event_contract_order_book(FALSE),
   get_event_contract_order_book_auto |-> get_event_contract_order_book(TRUE),
   get_event_contract_series_list |-> get_event_contract_series_list,
   get_event_contract_snapshot |-> get_event_contract_snapshot,
   get_event_contract_ticker |-> get_event_contract_ticker(FALSE),
   get_event_contract_ticker_auto |-> get_event_contract_ticker(TRUE),
   get_fed_watch_dot_plot |-> get_fed_watch_dot_plot,
   get_fed_watch_target_rate |-> get_fed_watch_target_rate,
   get_financials_earnings_price_history |-> get_financials_earnings_price_history,
   get_financials_earnings_price_move |-> get_financials_earnings_price_move,
   get_financials_revenue_breakdown |-> get_financials_revenue_breakdown,
   get_financials_statements |-> get_financials_statements,
   get_future_info |-> get_future_info, get_global_state |-> get_global_state,
   get_heat_map_data |-> get_heat_map_data,
   get_high_dividend_soe_rank |-> get_high_dividend_soe_rank,
   get_history_kl_quota |-> get_history_kl_quota, get_hot_list |-> get_hot_list,
   get_indicator_calc_result |-> get_indicator_calc_result,
   get_indicator_list |-> get_indicator_list,
   get_industrial_chain_by_plate |-> get_industrial_chain_by_plate,
   get_industrial_chain_detail |-> get_industrial_chain_detail,
   get_industrial_chain_list |-> get_industrial_chain_list,
   get_industrial_plate_info |-> get_industrial_plate_info,
   get_industrial_plate_stock |-> get_industrial_plate_stock,
   get_insider_holder_list |-> get_insider_holder_list,
   get_insider_trade_list |-> get_insider_trade_list,
   get_institution_distribution |-> get_institution_distribution,
   get_institution_holding_change |-> get_institution_holding_change,
   get_institution_holding_list |-> get_institution_holding_list,
   get_institution_list |-> get_institution_list,
   get_institution_profile |-> get_institution_profile, get_ipo_list |-> get_ipo_list,
   get_kline_history |-> get_kline(TRUE), get_kline |-> get_kline(FALSE),
   get_macro_indicator_history |-> get_macro_indicator_history,
   get_macro_indicator_list |-> get_macro_indicator_list,
   get_market_state |-> get_market_state, get_option_chain |-> get_option_chain,
   get_option_earnings_screener |-> get_option_earnings_screener,
   get_option_event |-> get_option_event, get_option_event_alert |-> get_option_event_alert,
   get_option_exercise_probability |-> get_option_exercise_probability,
   get_option_expiration_date |-> get_option_expiration_date,
   get_option_market_statistic |-> get_option_market_statistic,
   get_option_quote |-> get_option_quote, get_option_rank |-> get_option_rank,
   get_option_screen |-> get_option_screen,
   get_option_seller_screener |-> get_option_seller_screener,
   get_option_strategy |-> get_option_strategy,
   get_option_strategy_analysis |-> get_option_strategy_analysis,
   get_option_strategy_spread |-> get_option_strategy_spread,
   get_option_underlying_his_statistic |-> get_option_underlying_his_statistic,
   get_option_underlying_his_volatility |-> get_option_underlying_his_volatility,
   get_option_underlying_overview |-> get_option_underlying_overview,
   get_option_underlying_rank |-> get_option_underlying_rank,
   get_option_volatility |-> get_option_volatility,
   get_option_zero_dte_contract |-> get_option_zero_dte_contract,
   get_option_zero_dte_screener |-> get_option_zero_dte_screener,
   get_orderbook |-> get_orderbook, get_owner_plate |-> get_owner_plate,
   get_period_change_rank |-> get_period_change_rank, get_plate_list |-> get_plate_list,
   get_plate_stock |-> get_plate_stock, get_price_reminder |-> get_price_reminder,
   get_rating_change |-> get_rating_change,
   get_referencestock_list |-> get_referencestock_list, get_rehab |-> get_rehab,
   get_research_analyst_consensus |-> get_research_analyst_consensus,
   get_research_morningstar_report |-> get_research_morningstar_report,
   get_research_rating_summary |-> get_research_rating_summary,
   get_rise_fall_distribution |-> get_rise_fall_distribution, get_rt_data |-> get_rt_data,
   get_search_news |-> get_search_news, get_search_quote |-> get_search_quote,
   get_shareholders_holder_detail |-> get_shareholders_holder_detail,
   get_shareholders_holding_changes |-> get_shareholders_holding_changes,
   get_shareholders_institutional |-> get_shareholders_institutional,
   get_shareholders_overview |-> get_shareholders_overview,
   get_short_interest |-> get_short_interest,
   get_short_selling_rank |-> get_short_selling_rank, get_snapshot |-> get_snapshot,
   get_stock_filter |-> get_stock_filter, get_stock_info |-> get_stock_info,
   get_stock_quote |-> get_stock_quote, get_stock_screen |-> get_stock_screen,
   get_ticker |-> get_ticker, get_top_movers_rank |-> get_top_movers_rank,
   get_top_ten_buy_sell_brokers |-> get_top_ten_buy_sell_brokers,
   get_trading_days |-> get_trading_days,
   get_us_after_hours_rank |-> get_us_after_hours_rank,
   get_us_overnight_rank |-> get_us_overnight_rank,
   get_us_pre_market_rank |-> get_us_pre_market_rank, get_user_info |-> get_user_info,
   get_user_security |-> get_user_security,
   get_user_security_group |-> get_user_security_group,
   get_valid_combo_list |-> get_valid_combo_list,
   get_valuation_detail |-> get_valuation_detail,
   get_valuation_plate_stock_list |-> get_valuation_plate_stock_list,
   get_warrant |-> get_warrant, get_warrant_screen |-> get_warrant_screen,
   modify_user_security |-> modify_user_security,
   request_combo_quotes |-> request_combo_quotes,
   request_history_event_contract_kline |-> request_history_event_contract_kline,
   resolve_option_code |-> resolve_option_code,
   set_option_event_alert |-> set_option_event_alert,
   set_price_reminder |-> set_price_reminder]
=============================================================================
