-------------------------- MODULE SubscribeScripts --------------------------
(***************************************************************************)
(* The subscription and push scripts of scripts/subscribe.                 *)
(***************************************************************************)
EXTENDS ScriptSteps

push_broker == Push(<<>>, <<Open, Ask("subscribe"), Sleep>>)
push_event_contract_kline ==
  Push(<<>>, <<Open, Refuse("asked"), Check, Ask("subscribe_event_contract"), Sleep>>)
push_event_contract_orderbook ==
  Push(<<>>, <<Open, Refuse("asked"), Ask("subscribe_event_contract"), Sleep>>)
push_event_contract_ticker ==
  Push(<<>>, <<Open, Refuse("asked"), Ask("subscribe_event_contract"), Sleep>>)
push_kline == Push(<<>>, <<Open, Ask("subscribe"), Sleep>>)
push_option_event == Push(<<>>, <<Open, Sleep>>)
push_orderbook == Push(<<Refuse("asked")>>, <<Open, Ask("subscribe"), Sleep>>)
push_quote == Push(<<>>, <<Open, Ask("subscribe"), Sleep>>)
push_rt_data == Push(<<>>, <<Open, Ask("subscribe"), Sleep>>)
push_ticker == Push(<<>>, <<Open, Ask("subscribe"), Sleep>>)
query_subscription == Query("query_subscription")
subscribe == Caught(<<>>, <<Open, Check, Ask("subscribe")>>)
subscribe_event_contract ==
  Caught(<<>>, <<Open, Refuse("asked"), Check, Ask("subscribe_event_contract")>>)
unsubscribe(all) == Caught(<<>>, <<Open>> \o
  IF all THEN <<Ask("unsubscribe_all")>> ELSE <<Refuse("text"), Check, Ask("unsubscribe")>>)
unsubscribe_all == Query("unsubscribe_all")
unsubscribe_all_event_contract == EventQuery("unsubscribe_all_event_contract")
unsubscribe_event_contract ==
  Caught(<<>>, <<Open, Refuse("asked"), Check, Ask("unsubscribe_event_contract")>>)

SubscribeScriptsTable ==
  [push_broker |-> push_broker, push_event_contract_kline |-> push_event_contract_kline,
   push_event_contract_orderbook |-> push_event_contract_orderbook,
   push_event_contract_ticker |-> push_event_contract_ticker, push_kline |-> push_kline,
   push_option_event |-> push_option_event, push_orderbook |-> push_orderbook,
   push_quote |-> push_quote, push_rt_data |-> push_rt_data, push_ticker |-> push_ticker,
   query_subscription |-> query_subscription, subscribe |-> subscribe,
   subscribe_event_contract |-> subscribe_event_contract,
   unsubscribe |-> unsubscribe(FALSE), unsubscribe_with_all |-> unsubscribe(TRUE),
   unsubscribe_all |-> unsubscribe_all,
   unsubscribe_all_event_contract |-> unsubscribe_all_event_contract,
   unsubscribe_event_contract |-> unsubscribe_event_contract]
=============================================================================
