---------------------------- MODULE ScriptSteps ----------------------------
(***************************************************************************)
(* The vocabulary of the skill's scripts.  Each of them is a straight run  *)
(* of steps on one context of OpenD: some before the try, the rest in it,  *)
(* and an except clause or none.  A program names the steps, where the try *)
(* begins, what the except clauses do and what the result is printed as.   *)
(* The formatting of results and messages is left out; whether a text or a *)
(* JSON document is printed is not: callers parse it.                      *)
(***************************************************************************)
EXTENDS Naturals, Sequences

\* What a print goes by: "asked" is JSON under --json and text otherwise.
Prints == {"asked", "text", "json", "none"}

\* "caught" prints the error and exits 1; "uncaught" has only a finally, and
\* leaves the traceback on stderr; "push" also takes KeyboardInterrupt as an end.
Handlers == {"caught", "uncaught", "push"}

Kinds == {"common", "usage", "check", "refuse", "alive", "sdk", "open", "crypto",
          "ask", "pages", "all", "unchecked", "swallow", "fallback", "calc", "empty",
          "sleep", "report"}

Step == [kind : Kinds, api : STRING, print : Prints]
Program == [steps : Seq(Step), try : Nat, handler : Handlers, shows : Prints]

Do(kind, api, print) == [kind |-> kind, api |-> api, print |-> print]

Common == Do("common", "", "text")  \* import common: ensure_futu_api
Usage == Do("usage", "", "none")    \* argparse
Check == Do("check", "", "none")    \* a value, file or SDK that raises
Refuse(print) == Do("refuse", "", print)    \* prints its own error, exits 1
Alive == Do("alive", "", "text")    \* _check_opend_alive
CryptoSdk == Do("sdk", "", "text")  \* the SDK has the crypto context
Open == Do("open", "", "text")      \* a quote, securities or futures context
OpenCrypto == Do("crypto", "", "asked")
Ask(api) == Do("ask", api, "asked")         \* a request and its check_ret
AskPlain(api) == Do("ask", api, "text")     \* the same with a print of text
Pages(api) == Do("pages", api, "asked")     \* page by page, if so asked
AllPages(api) == Do("all", api, "asked")    \* page by page or batch by batch
Unchecked(api) == Do("unchecked", api, "none")  \* errors pass as no data
Swallow(api) == Do("swallow", api, "none")      \* and so do exceptions
Fallback(api) == Do("fallback", api, "none")    \* other data may take the place
Calc(api) == Do("calc", api, "text")        \* waits for a push, 60 s at most
Empty(print) == Do("empty", "", print)      \* no rows: prints so, exits 0
Sleep == Do("sleep", "", "asked")           \* prints what is pushed

Script(handler, before, body) ==
  [steps |-> <<Common, Usage>> \o before \o body, try |-> Len(before) + 3,
   handler |-> handler, shows |-> "asked"]

Caught(before, body) == Script("caught", before, body)
Uncaught(before, body) == Script("uncaught", before, body)
Push(before, body) == [Script("push", before, body) EXCEPT !.shows = "none"]
AlwaysJson(program) == [program EXCEPT !.shows = "json"]

\* The commonest bodies.
Query(api) == Caught(<<>>, <<Open, Ask(api)>>)
QueryRows(api) == Caught(<<>>, <<Open, Ask(api), Empty("asked")>>)
CheckedRows(api) == Caught(<<Check>>, <<Open, Ask(api), Empty("asked")>>)
EventQuery(api) == Caught(<<>>, <<Open, Refuse("asked"), Ask(api)>>)
EventRows(api) == Caught(<<>>, <<Open, Refuse("asked"), Ask(api), Empty("asked")>>)
PagedText(api) == Uncaught(<<Check>>, <<Open, Pages(api), Empty("text")>>)
Screener(api) == Uncaught(<<Check>>, <<Open, Check, Pages(api), Empty("asked")>>)
=============================================================================
