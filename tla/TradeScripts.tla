---------------------------- MODULE TradeScripts ----------------------------
(***************************************************************************)
(* The scripts of scripts/trade that read; those that order are in         *)
(* OrderDesk.                                                              *)
(***************************************************************************)
EXTENDS ScriptSteps

comboorder_tradinginfo_query ==
  Caught(<<Check, Refuse("asked"), Check>>, <<Open, Ask("comboorder_tradinginfo_query")>>)
get_acc_cash_flow == CheckedRows("get_acc_cash_flow")
\* Two contexts stand for the sixteen of eight firms; a firm that fails is left out.
get_accounts == Uncaught(<<>>,
  <<Alive, Swallow("get_acc_list"), Alive, Swallow("get_acc_list"), Empty("asked")>>)
\* An account whose queries fail is shown with no funds and no positions.
get_all_portfolios == Uncaught(<<>>,
  <<Refuse("text"), Alive, Swallow("get_acc_list"), Empty("asked"),
    Check, Unchecked("accinfo_query"), Unchecked("position_list_query")>>)
\* Two firms stand for three, each named, so that nothing is probed; an SDK without
\* the crypto context is found missing for the first of them.
get_crypto_accounts == Uncaught(<<>>,
  <<CryptoSdk, Alive, Swallow("get_acc_list"), Alive, Swallow("get_acc_list")>>)
get_crypto_cash_flow == Uncaught(<<Refuse("asked")>>, <<OpenCrypto, Ask("get_acc_cash_flow")>>)
get_crypto_max_trd_qtys ==
  Caught(<<Refuse("asked"), Refuse("asked")>>,
         <<OpenCrypto, Ask("acctradinginfo_query"), Empty("asked")>>)
get_crypto_order_fee ==
  Caught(<<Refuse("asked")>>, <<OpenCrypto, Ask("order_fee_query"), Empty("asked")>>)
get_crypto_orders(history) == Uncaught(<<>>,
  <<OpenCrypto, Ask(IF history THEN "history_order_list_query" ELSE "order_list_query")>>)
get_crypto_portfolio ==
  Uncaught(<<>>, <<OpenCrypto, Ask("accinfo_query"), Ask("position_list_query")>>)
get_history_order_fill_list == CheckedRows("history_deal_list_query")
get_history_orders == QueryRows("history_order_list_query")
get_margin_ratio == QueryRows("get_margin_ratio")
get_max_trd_qtys ==
  Caught(<<Refuse("asked")>>, <<Open, Ask("acctradinginfo_query"), Empty("asked")>>)
get_order_fee == CheckedRows("order_fee_query")
get_order_fill_list == CheckedRows("deal_list_query")
get_orders == CheckedRows("order_list_query")
get_portfolio ==
  Caught(<<Check, Refuse("asked")>>, <<Open, Ask("accinfo_query"), Ask("position_list_query")>>)

TradeScriptsTable ==
  [comboorder_tradinginfo_query |-> comboorder_tradinginfo_query,
   get_acc_cash_flow |-> get_acc_cash_flow, get_accounts |-> get_accounts,
   get_all_portfolios |-> get_all_portfolios, get_crypto_accounts |-> get_crypto_accounts,
   get_crypto_cash_flow |-> get_crypto_cash_flow,
   get_crypto_max_trd_qtys |-> get_crypto_max_trd_qtys,
   get_crypto_order_fee |-> get_crypto_order_fee,
   get_crypto_orders |-> get_crypto_orders(FALSE),
   get_crypto_history |-> get_crypto_orders(TRUE),
   get_crypto_portfolio |-> get_crypto_portfolio,
   get_history_order_fill_list |-> get_history_order_fill_list,
   get_history_orders |-> get_history_orders, get_margin_ratio |-> get_margin_ratio,
   get_max_trd_qtys |-> get_max_trd_qtys, get_order_fee |-> get_order_fee,
   get_order_fill_list |-> get_order_fill_list, get_orders |-> get_orders,
   get_portfolio |-> get_portfolio]
=============================================================================
