---------------------------- MODULE ScriptRunner ----------------------------
(***************************************************************************)
(* Invocations of the skill's scripts, one after another, against an OpenD *)
(* that comes and goes and accounts that are switched.  What outlives an   *)
(* invocation are two files of /tmp: the mark that the environment was     *)
(* checked (.moomoo_env_ok) and the crypto firm that was found             *)
(* (.moomoo_crypto_firm), which other invocations write and clear too.     *)
(***************************************************************************)
EXTENDS ScriptSteps

CONSTANTS
  Scripts,      \* the program of each script
  Firms,        \* the firms probed for a crypto account, in order
  AccountSets,  \* which of them may have one
  MaxPages,     \* bound: pages of one list
  Tolerant,     \* scripts whose exit 0 may hide a failed request
  TextOnEmpty,  \* scripts that print text under --json when they find nothing
  TextErrors    \* scripts that print an error of theirs as text under --json

Names == DOMAIN Scripts
FirmSet == {Firms[i] : i \in DOMAIN Firms}
NoFirm == "none"
OtherFirm == "other"  \* a firm without crypto trading
NoScript == "none"   \* between two invocations
Running == 3         \* no exit status yet; 0, 1 and 2 are those of the scripts
Killed == 130

Given == FirmSet \cup {NoFirm, OtherFirm}

KindsOf(s) == {Scripts[s].steps[i].kind : i \in DOMAIN Scripts[s].steps}

ASSUME RunnerAssumption ==
  /\ Scripts \in [Names -> Program] /\ NoScript \notin Names
  /\ FirmSet \cap {NoFirm, OtherFirm} = {} /\ Firms \in Seq(FirmSet)
  /\ AccountSets \subseteq SUBSET FirmSet /\ AccountSets # {}
  /\ MaxPages \in Nat

\* The programs that the three lists name: one with a request that may fail
\* unnoticed, an error of its own that is a text, and a text for no rows.
ASSUME CatalogueAssumption ==
  \A s \in Names :
    /\ Scripts[s].shows # "text"
    /\ \A i \in DOMAIN Scripts[s].steps :
         LET step == Scripts[s].steps[i] IN
         /\ step.kind \in {"unchecked", "swallow", "fallback", "calc"} => s \in Tolerant
         /\ step.print = "text" =>
              /\ step.kind \in {"refuse", "ask", "pages", "all"} => s \in TextErrors
              /\ step.kind = "empty" => s \in TextOnEmpty

VARIABLES
  script,    \* the script that runs, or ran last
  json,      \* --json
  allPages,  \* --all-pages
  given,     \* --security-firm or FUTU_SECURITY_FIRM
  pc,        \* the step it is at
  exit,      \* its exit status
  out,       \* what it printed on stdout
  answered,  \* history: the steps whose requests were answered without error
  lacking,   \* history: a request failed and the script went on
  more,      \* the list it reads has more pages
  page,      \* pages read of that list
  todo,      \* firms it still has to probe
  trusted,   \* the first of them comes from the cache
  firm,      \* the firm of its crypto context
  down,      \* history: it found OpenD or an SDK missing
  opend,     \* OpenD answers
  envOk,     \* the environment check is cached
  cached,    \* the crypto firm that is cached
  accounts,  \* firms with a crypto account
  disturbed  \* history: a probe failed that should not have, or accounts changed

invocation == <<script, json, allPages, given, pc, exit, out, answered, lacking,
                more, page, todo, trusted, firm, down>>
world == <<opend, envOk, cached, accounts, disturbed>>
vars == <<invocation, world>>

Init ==
  /\ script = NoScript /\ json = FALSE /\ allPages = FALSE /\ given = NoFirm
  /\ pc = 1 /\ exit = Running /\ out = {}
  /\ answered = {} /\ lacking = FALSE /\ more = FALSE /\ page = 0
  /\ todo = <<>> /\ trusted = FALSE /\ firm = NoFirm /\ down = FALSE
  /\ opend = TRUE /\ envOk = FALSE /\ cached = NoFirm
  /\ accounts \in AccountSets /\ disturbed = FALSE

IsRunning == script # NoScript /\ exit = Running
Steps == Scripts[script].steps
Handler == Scripts[script].handler
At(kind) == IsRunning /\ pc \in DOMAIN Steps /\ Steps[pc].kind = kind
Here == Steps[pc]

Printed(print) ==
  IF print = "none" THEN {}
  ELSE IF print = "asked" THEN {IF json THEN "json" ELSE "text"} ELSE {print}

Advance == pc' = pc + 1 /\ UNCHANGED <<exit, out>>
Quit(print, status) == out' = out \cup Printed(print) /\ exit' = status /\ UNCHANGED pc

\* Mutant: the except clause prints without a look at --json.
Raise_Plain ==
  IF Handler # "uncaught" /\ pc >= Scripts[script].try THEN Quit("text", 1) ELSE Quit("none", 1)

\* except Exception prints the error as asked; outside of it the traceback goes
\* to stderr.
Raise ==
  IF Handler # "uncaught" /\ pc >= Scripts[script].try THEN Quit("asked", 1) ELSE Quit("none", 1)

asks == <<answered, lacking, more, page>>
probes == <<todo, trusted, firm>>
flags == <<script, json, allPages, given>>
-----------------------------------------------------------------------------
(* The start of an invocation. *)

Launch(s) ==
  /\ script = NoScript
  /\ script' = s
  /\ json' \in BOOLEAN
  /\ allPages' \in IF "pages" \in KindsOf(s) THEN BOOLEAN ELSE {FALSE}
  /\ given' \in IF "crypto" \in KindsOf(s) THEN Given ELSE {NoFirm}
  /\ UNCHANGED <<pc, exit, out, asks, probes, down, world>>

\* The process is gone, and what it held in memory with it.
Forget ==
  /\ script # NoScript /\ exit # Running
  /\ script' = NoScript /\ json' = FALSE /\ allPages' = FALSE /\ given' = NoFirm
  /\ pc' = 1 /\ exit' = Running /\ out' = {}
  /\ answered' = {} /\ lacking' = FALSE /\ more' = FALSE /\ page' = 0
  /\ todo' = <<>> /\ trusted' = FALSE /\ firm' = NoFirm /\ down' = FALSE
  /\ UNCHANGED world

\* ensure_futu_api looks for the SDK and OpenD, unless it did in the last hour.
ensure_futu_api ==
  /\ At("common")
  /\ \/ envOk /\ Advance /\ UNCHANGED <<envOk, down>>
     \/ ~envOk /\ opend /\ Advance /\ envOk' = TRUE /\ UNCHANGED down
     \/ ~envOk /\ Quit("text", 1) /\ down' = TRUE /\ UNCHANGED envOk
  /\ UNCHANGED <<flags, asks, probes, opend, cached, accounts, disturbed>>

\* check_env.py reports on both, whatever is cached.
CheckEnv ==
  /\ At("report")
  /\ \/ opend /\ Advance /\ UNCHANGED down
     \/ Quit("asked", 1) /\ down' = TRUE
  /\ UNCHANGED <<flags, asks, probes, world>>

ParseArgs ==
  /\ At("usage")
  /\ Advance \/ Quit("none", 2)
  /\ UNCHANGED <<flags, asks, probes, down, world>>

CheckValues ==
  /\ At("check")
  /\ Advance \/ Raise
  /\ UNCHANGED <<flags, asks, probes, down, world>>

RefuseOrGoOn ==
  /\ At("refuse")
  /\ Advance \/ Quit(Here.print, 1)
  /\ UNCHANGED <<flags, asks, probes, down, world>>
-----------------------------------------------------------------------------
(* Contexts. *)

check_opend_alive ==
  /\ At("alive") \/ At("open")
  /\ \/ opend /\ Advance /\ UNCHANGED down
     \/ opend /\ At("open") /\ Raise /\ UNCHANGED down
     \/ ~opend /\ Quit("text", 1) /\ down' = TRUE
  /\ UNCHANGED <<flags, asks, probes, world>>

\* The first check of create_crypto_trade_context.
check_crypto_sdk ==
  /\ At("sdk")
  /\ \/ Advance /\ UNCHANGED down
     \/ Quit("text", 1) /\ down' = TRUE
  /\ UNCHANGED <<flags, asks, probes, world>>

\* _build_crypto_ctx with the firm that was chosen.
build_crypto_ctx(f) == firm' = f /\ (Advance \/ Raise)

\* create_crypto_trade_context: the firm that was given, or one that is found.
\* An SDK without the context and an OpenD that is down are told as text.
create_crypto_trade_context ==
  /\ At("crypto") /\ todo = <<>> /\ firm = NoFirm
  /\ \/ Quit("text", 1) /\ down' = TRUE /\ UNCHANGED probes
     \/ opend /\ given = OtherFirm /\ Quit("asked", 1) /\ UNCHANGED <<probes, down>>
     \/ opend /\ given \in FirmSet /\ build_crypto_ctx(given) /\ UNCHANGED <<todo, trusted, down>>
     \/ /\ opend /\ given = NoFirm
        /\ todo' = IF cached = NoFirm THEN Firms ELSE <<cached>> \o Firms
        /\ trusted' = (cached # NoFirm)
        /\ UNCHANGED <<pc, exit, out, firm, down>>
  /\ UNCHANGED <<flags, asks, world>>

\* Mutant: a firm of the cache is taken without a probe.
ProbeFinds_Trusting(f) == trusted \/ f \in accounts

ProbeFinds(f) == f \in accounts

\* _detect_crypto_firm, one probe: the firm of the cache first, then each in its
\* turn.  A probe may fail although the account exists.
ProbeFirm ==
  /\ At("crypto") /\ todo # <<>>
  /\ LET f == Head(todo) IN
     \/ /\ ProbeFinds(f)
        /\ todo' = <<>> /\ trusted' = FALSE
        /\ cached' = IF trusted THEN cached ELSE f
        /\ build_crypto_ctx(f) /\ UNCHANGED disturbed
     \/ /\ disturbed' = (disturbed \/ f \in accounts)
        /\ cached' = IF trusted THEN NoFirm ELSE cached
        /\ todo' = Tail(todo) /\ trusted' = FALSE
        /\ IF Tail(todo) = <<>> THEN Quit("asked", 1) ELSE UNCHANGED <<pc, exit, out>>
        /\ UNCHANGED firm
  /\ UNCHANGED <<flags, asks, down, opend, envOk, accounts>>
-----------------------------------------------------------------------------
(* Requests. *)

\* Mutant: the return value is not looked at.
AskOnce_NoCheckRet ==
  /\ At("ask")
  /\ \/ answered' = answered \cup {pc} /\ Advance
     \/ Advance /\ UNCHANGED answered
  /\ UNCHANGED <<flags, lacking, more, page, probes, down, world>>

\* check_ret ends the script when the return is not RET_OK.
AskOnce ==
  /\ At("ask")
  /\ \/ answered' = answered \cup {pc} /\ Advance
     \/ Quit(Here.print, 1) /\ UNCHANGED answered
     \/ Raise /\ UNCHANGED answered
  /\ UNCHANGED <<flags, lacking, more, page, probes, down, world>>

\* One page: the loop ends with the last one, or with the first without
\* --all-pages.
AskPage ==
  /\ At("pages") \/ At("all")
  /\ \/ /\ page' = page + 1
        /\ more' \in IF page < MaxPages THEN BOOLEAN ELSE {FALSE}
        /\ IF more' /\ (allPages \/ At("all"))
           THEN UNCHANGED <<answered, pc, exit, out>>
           ELSE answered' = answered \cup {pc} /\ Advance
     \/ Quit(Here.print, 1) /\ UNCHANGED <<answered, more, page>>
     \/ Raise /\ UNCHANGED <<answered, more, page>>
  /\ UNCHANGED <<flags, lacking, probes, down, world>>

\* Requests whose failure the script passes over, and the list of large companies
\* that takes the place of a result without market values.
AskLeniently ==
  /\ At("unchecked") \/ At("swallow") \/ At("fallback")
  /\ \/ Advance /\ UNCHANGED lacking
     \/ Advance /\ lacking' = TRUE
     \/ ~At("swallow") /\ Raise /\ UNCHANGED lacking
  /\ UNCHANGED <<flags, answered, more, page, probes, down, world>>

\* get_indicator_calc_result waits for the push with its result.  A failed one is
\* an exit 1, or a JSON document and an exit 0.
AwaitCalc ==
  /\ At("calc")
  /\ \/ Advance /\ UNCHANGED lacking
     \/ json /\ Advance /\ lacking' = TRUE
     \/ ~json /\ Quit("text", 1) /\ UNCHANGED lacking
     \/ Raise /\ UNCHANGED lacking
  /\ UNCHANGED <<flags, answered, more, page, probes, down, world>>
-----------------------------------------------------------------------------
(* The end. *)

NoRows ==
  /\ At("empty")
  /\ Advance \/ Quit(Here.print, 0)
  /\ UNCHANGED <<flags, asks, probes, down, world>>

\* The pushes that came are printed as asked.
SleepOn ==
  /\ At("sleep")
  /\ \/ Advance
     \/ Raise
     \/ Printed("asked") \notin SUBSET out /\ out' = out \cup Printed("asked") /\ UNCHANGED <<pc, exit>>
  /\ UNCHANGED <<flags, asks, probes, down, world>>

\* The result is printed, or cannot be.
Finish ==
  /\ IsRunning /\ pc > Len(Steps)
  /\ Quit(Scripts[script].shows, 0) \/ Raise
  /\ UNCHANGED <<flags, asks, probes, down, world>>

\* An interrupt ends the push scripts well, which say so as text without --json.
Interrupt ==
  /\ IsRunning
  /\ IF Handler = "push" /\ pc >= Scripts[script].try
     THEN Quit(IF json THEN "none" ELSE "text", 0)
     ELSE Quit("none", Killed)
  /\ UNCHANGED <<flags, asks, probes, down, world>>
-----------------------------------------------------------------------------
(* The world (external): OpenD, the clock, the accounts, other invocations. *)

OpenDChanges == opend' = ~opend /\ UNCHANGED <<envOk, cached, accounts, disturbed>>
EnvCheckExpires == envOk /\ envOk' = FALSE /\ UNCHANGED <<opend, cached, accounts, disturbed>>
FirmExpires ==
  /\ cached # NoFirm /\ cached' = NoFirm
  /\ UNCHANGED <<opend, envOk, accounts, disturbed>>
\* Another invocation finds a firm: the first, unless probes of its own fail.
OtherDetects ==
  /\ \E i \in DOMAIN Firms :
       /\ Firms[i] \in accounts /\ cached' = Firms[i]
       /\ disturbed' = (disturbed \/ \E j \in 1..(i - 1) : Firms[j] \in accounts)
  /\ UNCHANGED <<opend, envOk, accounts>>
SwitchAccounts ==
  /\ accounts' \in AccountSets \ {accounts}
  /\ disturbed' = TRUE
  /\ UNCHANGED <<opend, envOk, cached>>

World ==
  /\ OpenDChanges \/ EnvCheckExpires \/ FirmExpires \/ OtherDetects \/ SwitchAccounts
  /\ UNCHANGED invocation

Next ==
  \/ Forget \/ \E s \in Names : Launch(s)
  \/ ensure_futu_api \/ CheckEnv \/ ParseArgs \/ CheckValues \/ RefuseOrGoOn
  \/ check_opend_alive \/ check_crypto_sdk \/ create_crypto_trade_context \/ ProbeFirm
  \/ AskOnce \/ AskPage \/ AskLeniently \/ AwaitCalc
  \/ NoRows \/ SleepOn \/ Finish \/ Interrupt
  \/ World

Spec == Init /\ [][Next]_vars
-----------------------------------------------------------------------------
(* Properties. *)

Required(i) == Steps[i].kind \in {"ask", "pages", "all"}
Stopped == Handler = "push" /\ pc <= Len(Steps)

\* An exit 0 says that every request of the script was answered without error,
\* the last page of the list included when all were asked for.  It says so of no
\* more than the Tolerant scripts, and of a push script only if it was not
\* interrupted.
ZeroIsWhole ==
  exit = 0 /\ ~Stopped =>
    /\ \A i \in 1..(pc - 1) : i \in DOMAIN Steps /\ Required(i) => i \in answered
    /\ more => ~allPages /\ "pages" \in KindsOf(script)
    /\ lacking => script \in Tolerant

\* A caller that gave --json can parse what it reads on stdout, unless OpenD or
\* an SDK is missing, the script is one that has a text of its own for an error
\* or for no rows, or nothing is printed because the traceback went to stderr.
JsonWhenAsked ==
  json /\ "text" \in out =>
    \/ down /\ exit = 1
    \/ exit = 1 /\ script \in TextErrors
    \/ exit = 0 /\ script \in TextOnEmpty

\* A firm that was detected had an account when it was probed, and unless a probe
\* failed or accounts were switched it is the first that has one: every
\* invocation works on the same account.
FirmIsProbed ==
  [][firm # firm' /\ firm' # NoFirm /\ given = NoFirm =>
       /\ firm' \in accounts
       /\ ~disturbed =>
            \E i \in DOMAIN Firms :
              Firms[i] = firm' /\ \A j \in 1..(i - 1) : Firms[j] \notin accounts]_vars
=============================================================================
