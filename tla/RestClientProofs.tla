-------------------------- MODULE RestClientProofs --------------------------
(***************************************************************************)
(* What RestClient posts, reports and returns, for any ids, any number of  *)
(* them and any number of pages.  Orders and the other calls share nothing *)
(* but the catalogue, so each half has its own invariant.                  *)
(***************************************************************************)
EXTENDS RestClient, TLAPS

Catalogue == products_ \in {"unset", "empty", "full"}

-----------------------------------------------------------------------------
(* Orders.                                                                 *)

\* The request that create_order posts for a.
Built(a) == [config |-> Config(a)[1], fields |-> Config(a)[2], attached |-> Attached(a)]

\* What create_order has posted passed its checks, under the catalogue as it
\* still is: the catalogue is set once, before any order.
RequestInv ==
  /\ Catalogue
  /\ phase \in {"idle", "sent", "answered", "returned"}
  /\ phase # "idle" => products_ # "unset"
  /\ phase = "idle" => op = "none" /\ request = NoRequest
  /\ op = "create" /\ request # NoRequest =>
       args \in CreateArgs /\ ~Refused(args) /\ request = Built(args)

\* Steps that are none of an order's leave it alone.
LEMMA OrderFrame == [Next]_restVars => OrderStep \/ UNCHANGED orderVars
  BY DEF Next, Construct, Constructed, CallStep, Transfer, restVars

LEMMA RequestInit == Init => RequestInv
  BY DEF Init, OrderInit, RequestInv, Catalogue

LEMMA RequestNext == RequestInv /\ [Next]_restVars => RequestInv'
<1> SUFFICES ASSUME RequestInv, [Next]_restVars PROVE RequestInv'
  OBVIOUS
<1>1. CASE UNCHANGED orderVars
  <2>1. /\ products_' \in {"unset", "empty", "full"}
        /\ products_ # "unset" => products_' = products_
        /\ products_ = "unset" => phase = "idle"
    BY DEF Next, Construct, Constructed, OrderStep, CallStep, Transfer, restVars, RequestInv, Catalogue
  <2>2. phase = "idle" => ~(op = "create")
    BY DEF RequestInv
  <2>3. products_' = products_ => (Refused(args)' <=> Refused(args)) /\ Built(args)' = Built(args)
    BY <1>1 DEF orderVars, Refused, RefusedMarket, RefusedLimit, RefusedStopLimit, RefusedTwap,
               RefusedBracket, BothLegs, IsSpot, ProductType, InCatalogue, Built, Config, Attached
  <2> QED BY <1>1, <2>1, <2>2, <2>3 DEF RequestInv, Catalogue, orderVars
<1>2. ASSUME OrderStep PROVE RequestInv'
  <2>1. UNCHANGED products_ /\ products_ # "unset"
    BY <1>2 DEF OrderStep, Usable
  <2>2. ASSUME NEW a \in CreateArgs, create_order(a) PROVE RequestInv'
    <3>1. args' = a /\ op' = "create" /\ phase' \in {"sent", "returned"}
      BY <2>2 DEF create_order
    <3>2. Refused(args)' <=> Refused(a)
      BY <2>1, <3>1 DEF Refused, RefusedMarket, RefusedLimit, RefusedStopLimit, RefusedTwap,
                       RefusedBracket, BothLegs, IsSpot, ProductType, InCatalogue
    <3>3. Built(args)' = Built(a)
      BY <3>1 DEF Built, Config, Attached, BothLegs
    <3>4. request' = NoRequest \/ (~Refused(a) /\ request' = Built(a))
      <4>1. CASE Refused(a)
        BY <4>1, <2>2 DEF create_order, RequestInv
      <4>2. CASE ~Refused(a)
        BY <4>2, <2>2 DEF create_order, Built
      <4> QED BY <4>1, <4>2
    <3> QED BY <2>1, <3>1, <3>2, <3>3, <3>4 DEF RequestInv, Catalogue
  <2>3. ASSUME op' # "create", phase' \in {"idle", "sent", "answered", "returned"},
               phase' = "idle" => op' = "none" /\ request' = NoRequest
        PROVE  RequestInv'
    BY <2>1, <2>3 DEF RequestInv, Catalogue
  <2>4. ASSUME UNCHANGED <<op, args, request>>, phase # "idle",
               phase' \in {"sent", "answered", "returned"}
        PROVE  RequestInv'
    <3>1. (Refused(args)' <=> Refused(args)) /\ Built(args)' = Built(args)
      BY <2>1, <2>4 DEF Refused, RefusedMarket, RefusedLimit, RefusedStopLimit, RefusedTwap,
                       RefusedBracket, BothLegs, IsSpot, ProductType, InCatalogue, Built, Config, Attached
    <3> QED BY <2>1, <2>4, <3>1 DEF RequestInv, Catalogue
  <2>5. ASSUME NEW a \in ModifyArgs, modify_order(a) PROVE RequestInv'
    BY <2>3, <2>5 DEF modify_order
  <2>6. ASSUME NEW ids \in Cancels, cancel_orders(ids) PROVE RequestInv'
    BY <2>3, <2>6 DEF cancel_orders
  <2>7. ASSUME NEW did, NEW text, Exchange(did, text) PROVE RequestInv'
    BY <2>4, <2>7 DEF Exchange
  <2>8. CASE Return
    BY <2>4, <2>8 DEF Return
  <2>9. CASE Forget
    BY <2>3, <2>9 DEF Forget
  <2> QED BY <1>2, <2>2, <2>5, <2>6, <2>7, <2>8, <2>9 DEF OrderStep, CallOrder, FinishOrder
<1> QED BY <1>1, <1>2, OrderFrame

LEMMA RequestHolds == Spec => []RequestInv
  BY RequestInit, RequestNext, PTL DEF Spec

\* What is posted was not refused, and is what create_order builds.
LEMMA PostedBuilt ==
  ASSUME RequestInv, Posted
  PROVE  /\ args \in CreateArgs /\ ~Refused(args) /\ products_ \in {"empty", "full"}
         /\ request.config = Config(args)[1]
         /\ request.fields = Config(args)[2]
         /\ request.attached = Attached(args)
BY DEF RequestInv, Catalogue, Posted, Built

\* No spot order goes out on the wrong side for its legs while the catalogue
\* has its product.
THEOREM SidesAreCheckedCorrect == Spec => []SidesAreChecked
<1>1. RequestInv => SidesAreChecked
  <2> SUFFICES ASSUME RequestInv, Posted, args.product = "SPOT", WrongSide(args), InCatalogue(args)
               PROVE  FALSE
    BY DEF SidesAreChecked
  <2>1. ~Refused(args) /\ IsSpot(args)
    BY PostedBuilt DEF IsSpot, ProductType
  <2>2. CASE args.type = "MARKET"
    BY <2>1, <2>2 DEF WrongSide, Refused, RefusedMarket
  <2>3. CASE args.type = "LIMIT"
    BY <2>1, <2>3 DEF WrongSide, Refused, RefusedLimit
  <2>4. CASE args.type = "BRACKET"
    BY <2>1, <2>4 DEF WrongSide, Refused, RefusedBracket
  <2> QED BY <2>2, <2>3, <2>4 DEF WrongSide
<1> QED BY <1>1, RequestHolds, PTL

\* A limit or bracket order goes out with every protective leg given for it.
THEOREM LegsAreKeptCorrect == Spec => []LegsAreKept
<1>1. RequestInv => LegsAreKept
  <2> SUFFICES ASSUME RequestInv, Posted, args.type \in {"LIMIT", "BRACKET"}, ~args.own_attached
               PROVE  /\ Given(args.stop) => "stop" \in Sources
                      /\ Given(args.profit) => "profit" \in Sources
    BY DEF LegsAreKept
  <2>1. ~Refused(args)
    BY PostedBuilt
  <2>2. ASSUME Legs("profit") \subseteq request.fields \cup request.attached
        PROVE  "stop" \in Sources /\ "profit" \in Sources
    <3>1. /\ <<"limit_price", "profit">> \in request.fields \cup request.attached
          /\ <<"stop_trigger_price", "stop">> \in request.fields \cup request.attached
      BY <2>2 DEF Legs
    <3> QED BY <3>1 DEF Sources
  <2>3. CASE args.type = "LIMIT"
    <3>1. Given(args.stop) <=> Given(args.profit)
      BY <2>1, <2>3 DEF Refused, RefusedLimit, Given
    <3>2. CASE ~BothLegs(args)
      BY <3>1, <3>2 DEF BothLegs
    <3>3. CASE BothLegs(args)
      <4>1. request.attached = Legs("profit")
        BY <2>3, <3>3, PostedBuilt DEF Attached
      <4> QED BY <4>1, <2>2
    <3> QED BY <3>2, <3>3
  <2>4. CASE args.type = "BRACKET"
    <3>1. request.fields = Size(args) \cup Legs(IF Given(args.profit) THEN "profit" ELSE "limit")
      BY <2>4, PostedBuilt DEF Config
    <3>2. CASE Given(args.profit)
      BY <3>1, <3>2, <2>2
    <3>3. CASE ~Given(args.profit)
      <4>1. <<"stop_trigger_price", "stop">> \in request.fields \cup request.attached
        BY <3>1 DEF Legs
      <4> QED BY <3>3, <4>1 DEF Sources
    <3> QED BY <3>2, <3>3
  <2> QED BY <2>3, <2>4
<1> QED BY <1>1, RequestHolds, PTL

\* What create_order posts, by configuration, and the fields each can have.
LEMMA FieldsPosted ==
  ASSUME RequestInv, Posted
  PROVE  \/ /\ request.config \in {"market_market_fok", "market_market_ioc"}
            /\ args.type = "MARKET"
            /\ request.fields = Size(args)
         \/ /\ request.config \in {"limit_limit_fok", "sor_limit_ioc"}
            /\ args.type = "LIMIT" /\ args.tif \in {"FOK", "IOC"}
            /\ request.fields = Size(args) \cup Limit
         \/ /\ request.config = "limit_limit_gtc"
            /\ args.type = "LIMIT" /\ args.tif = "GTC"
            /\ request.fields = Size(args) \cup Limit \cup PostOnly
         \/ /\ request.config = "limit_limit_gtd"
            /\ args.type = "LIMIT" /\ args.tif = "GTD"
            /\ request.fields = Size(args) \cup Limit \cup PostOnly \cup EndTime
         \/ /\ request.config = "stop_limit_stop_limit_gtc" /\ ~args.in_quote
            /\ args.type = "STOP_LIMIT" /\ args.tif = "GTC"
            /\ request.fields = Size(args) \cup Limit \cup {<<"stop_price", "stop">>}
         \/ /\ request.config = "stop_limit_stop_limit_gtd" /\ ~args.in_quote
            /\ args.type = "STOP_LIMIT" /\ args.tif = "GTD"
            /\ request.fields = Size(args) \cup Limit \cup EndTime
         \/ /\ request.config = "twap_limit_gtd"
            /\ args.type = "TWAP"
            /\ request.fields = Size(args) \cup Limit \cup EndTime \cup {<<"start_time", "start">>}
         \/ /\ request.config = "trigger_bracket_gtc" /\ ~args.in_quote
            /\ args.type = "BRACKET"
            /\ \E leg \in {"profit", "limit"} : request.fields = Size(args) \cup Legs(leg)
<1>1. /\ ~Refused(args)
      /\ request.config = Config(args)[1]
      /\ request.fields = Config(args)[2]
  BY PostedBuilt
<1>2. args.type \in {"MARKET", "LIMIT", "STOP_LIMIT", "TWAP", "BRACKET"}
  BY <1>1, PostedBuilt DEF Refused
<1>3. CASE args.type = "MARKET"
  <2>1. args.tif \in {"FOK", "IOC"}
    BY <1>1, <1>3 DEF Refused, RefusedMarket
  <2> QED BY <1>1, <1>3, <2>1 DEF Config
<1>4. CASE args.type = "LIMIT"
  <2>1. args.tif \in {"FOK", "IOC", "GTC", "GTD"}
    BY <1>1, <1>4 DEF Refused, RefusedLimit
  <2> QED BY <1>1, <1>4, <2>1 DEF Config
<1>5. CASE args.type = "STOP_LIMIT"
  <2>1. args.tif \in {"GTC", "GTD"} /\ ~args.in_quote
    BY <1>1, <1>5 DEF Refused, RefusedStopLimit
  <2> QED BY <1>1, <1>5, <2>1 DEF Config
<1>6. CASE args.type = "TWAP"
  BY <1>1, <1>6 DEF Config
<1>7. CASE args.type = "BRACKET"
  <2>1. ~args.in_quote
    BY <1>1, <1>7 DEF Refused, RefusedBracket
  <2> QED BY <1>1, <1>7, <2>1 DEF Config
<1> QED BY <1>2, <1>3, <1>4, <1>5, <1>6, <1>7

\* Every field written is looked for.
LEMMA FieldsRead ==
  ASSUME RequestInv, Posted
  PROVE  from_json(request.config, request.fields) = request.fields
<1>1. \A p \in request.fields : p[1] \in Fields(request.config)
  BY FieldsPosted
  DEF Fields, MarketFields, LimitFields, LimitGtcFields, LimitGtdFields, TwapGtdFields,
      StopLimitFields, StopLimitGtdFields, TriggerBracketFields,
      Size, Limit, PostOnly, EndTime, Legs
<1> QED BY <1>1 DEF from_json, Read

\* So are the legs attached.
LEMMA LegsRead ==
  ASSUME RequestInv, Posted, ~args.own_attached
  PROVE  from_json("trigger_bracket_gtc", request.attached) = request.attached
<1>1. request.attached \in {{}, Legs("profit")}
  BY PostedBuilt DEF Attached
<1>2. \A p \in request.attached : p[1] \in Fields("trigger_bracket_gtc")
  BY <1>1 DEF Legs, Fields, TriggerBracketFields
<1> QED BY <1>2 DEF from_json, Read

\* What is posted is read back, in lists and in snapshots.
THEOREM ReadsBackCorrect == Spec => []ReadsBack
<1>1. RequestInv => ReadsBack
  <2> SUFFICES ASSUME RequestInv, Posted PROVE ReadsBack
    BY DEF ReadsBack
  <2> DEFINE view == from_snapshot(args, request.fields)
             shown == {"limit_price", "stop_price", "stop_trigger_price", "post_only"}
  <2>1. \/ view = NoView /\ ~(args.type \in {"LIMIT", "STOP_LIMIT"} /\ args.tif \in {"GTC", "GTD"})
        \/ view.config = request.config /\ view.fields = {p \in request.fields : p[1] \in shown}
    <3>1. \A p \in Size(args) : p[1] \in {"base_size", "quote_size"}
      BY DEF Size
    <3>2. CASE request.config = "limit_limit_gtc"
      BY <3>1, <3>2, FieldsPosted DEF from_snapshot, Read, Limit, PostOnly
    <3>3. CASE request.config = "limit_limit_gtd"
      BY <3>1, <3>3, FieldsPosted DEF from_snapshot, Read, Limit, PostOnly, EndTime
    <3>4. CASE request.config = "stop_limit_stop_limit_gtc"
      BY <3>1, <3>4, FieldsPosted DEF from_snapshot, Read, Limit
    <3>5. CASE request.config = "stop_limit_stop_limit_gtd"
      BY <3>1, <3>5, FieldsPosted DEF from_snapshot, Read, Limit, EndTime
    <3>6. CASE request.config \notin {"limit_limit_gtc", "limit_limit_gtd",
                                      "stop_limit_stop_limit_gtc", "stop_limit_stop_limit_gtd"}
      <4>1. ~(args.type \in {"LIMIT", "STOP_LIMIT"} /\ args.tif \in {"GTC", "GTD"})
        BY <3>6, FieldsPosted
      <4> QED BY <4>1 DEF from_snapshot
    <3> QED BY <3>2, <3>3, <3>4, <3>5, <3>6
  <2> QED BY <2>1, FieldsRead, LegsRead DEF ReadsBack
<1> QED BY <1>1, RequestHolds, PTL

-----------------------------------------------------------------------------
(* Reports.                                                                *)

\* The results of a truthful answer.
Truthful(ids, did) == [i \in DOMAIN ids |-> [id |-> ids[i], success |-> ids[i] \in did]]

\* A report lists the ids asked about, in order, and claims nothing that was
\* not carried out.
Reports(rep, ids, did) ==
  /\ DOMAIN rep = DOMAIN ids
  /\ \A i \in DOMAIN ids : rep[i].id = ids[i] /\ (rep[i].success => ids[i] \in did)

ReportInv ==
  /\ phase # "idle" => \E S : Ids \in Seq(S)
  /\ phase = "answered" => Reports(answer.results, Ids, carried)
  /\ phase = "returned" => Reports(report, Ids, carried)

LEMMA TruthfulReports == ASSUME NEW ids, NEW did PROVE Reports(Truthful(ids, did), ids, did)
  BY DEF Truthful, Reports

LEMMA FailuresReport == ASSUME NEW ids, NEW did PROVE Reports(AllFailed(ids), ids, did)
  BY DEF AllFailed, Reports

LEMMA ReportNext == ReportInv /\ [Next]_restVars => ReportInv'
<1> SUFFICES ASSUME ReportInv, [Next]_restVars PROVE ReportInv'
  OBVIOUS
<1>1. CASE UNCHANGED orderVars
  BY <1>1 DEF orderVars, ReportInv, Ids
<1>2. ASSUME NEW a \in CreateArgs, create_order(a) PROVE ReportInv'
  <2>1. Ids' = <<NewOrder>> /\ phase' \in {"sent", "returned"}
    BY <1>2 DEF create_order, Ids
  <2>2. phase' = "returned" => report' = AllFailed(<<NewOrder>>)
    BY <1>2 DEF create_order
  <2>3. Ids' \in Seq({NewOrder})
    BY <2>1
  <2>4. phase' = "returned" => Reports(report', Ids', carried')
    BY <2>1, <2>2, FailuresReport
  <2> QED BY <2>1, <2>3, <2>4 DEF ReportInv
<1>3. ASSUME NEW a \in ModifyArgs, modify_order(a) PROVE ReportInv'
  <2>1. Ids' = <<NewOrder>> /\ phase' = "sent"
    BY <1>3 DEF modify_order, Ids
  <2>2. Ids' \in Seq({NewOrder})
    BY <2>1
  <2> QED BY <2>1, <2>2 DEF ReportInv
<1>4. ASSUME NEW ids \in Cancels, cancel_orders(ids) PROVE ReportInv'
  <2>1. Ids' = ids /\ phase' = "sent"
    BY <1>4 DEF cancel_orders, Ids
  <2>2. ids \in Seq(OrderIds)
    BY OrderAssumption DEF Cancels
  <2> QED BY <2>1, <2>2 DEF ReportInv
<1>5. ASSUME NEW did, NEW text, Exchange(did, text) PROVE ReportInv'
  <2>1. /\ phase = "sent" /\ phase' = "answered" /\ Ids' = Ids /\ carried' = did
        /\ answer'.results = Truthful(Ids, did)
    BY <1>5 DEF Exchange, Ids, Truthful
  <2>2. Reports(answer'.results, Ids', carried')
    BY <2>1, TruthfulReports
  <2>3. \E S : Ids' \in Seq(S)
    BY <2>1 DEF ReportInv
  <2> QED BY <2>1, <2>2, <2>3 DEF ReportInv
<1>6. CASE Return
  <2>1. /\ phase = "answered" /\ phase' = "returned" /\ Ids' = Ids /\ carried' = carried
        /\ report' = answer.results \/ report' = AllFailed(Ids)
    BY <1>6 DEF Return, Ids, ReadAnswer
  <2>2. Reports(report', Ids', carried')
    BY <2>1, FailuresReport DEF ReportInv
  <2>3. \E S : Ids' \in Seq(S)
    BY <2>1 DEF ReportInv
  <2> QED BY <2>1, <2>2, <2>3 DEF ReportInv
<1>7. CASE Forget
  BY <1>7 DEF Forget, ReportInv
<1> QED BY <1>1, <1>2, <1>3, <1>4, <1>5, <1>6, <1>7, OrderFrame DEF OrderStep, CallOrder, FinishOrder

LEMMA ReportHolds == Spec => []ReportInv
<1>1. Init => ReportInv
  BY DEF Init, OrderInit, ReportInv
<1> QED BY <1>1, ReportNext, PTL DEF Spec

\* Nothing is reported done that the exchange has not done, whatever becomes of
\* its answer.
THEOREM ReportsAreTrueCorrect == Spec => []ReportsAreTrue
<1>1. ReportInv => ReportsAreTrue
  BY DEF ReportInv, Reports, ReportsAreTrue
<1> QED BY <1>1, ReportHolds, PTL

\* Every order asked about is in the report, in the order asked.
THEOREM EveryIdAnsweredCorrect == Spec => []EveryIdAnswered
<1>1. ReportInv => EveryIdAnswered
  <2> SUFFICES ASSUME ReportInv, phase = "returned" PROVE [i \in DOMAIN report |-> report[i].id] = Ids
    BY DEF EveryIdAnswered
  <2>1. PICK S : Ids \in Seq(S)
    BY DEF ReportInv
  <2>2. Ids = [i \in DOMAIN Ids |-> Ids[i]]
    BY <2>1
  <2> QED BY <2>2 DEF ReportInv, Reports
<1> QED BY <1>1, ReportHolds, PTL

-----------------------------------------------------------------------------
(* The other calls.                                                        *)

\* A list holds the pages up to n in order, but for those missing.
Gathered(list, missing, n) ==
  /\ list \in Seq(Nat)
  /\ \A i, j \in DOMAIN list : i < j => list[i] < list[j]
  /\ {list[i] : i \in DOMAIN list} = (1..n) \ missing

\* What a call has collected while it asks, and what it returns.
CallInv ==
  /\ step \in {"idle", "asked", "returned"}
  /\ step = "idle" => call = "none" /\ pages = <<>> /\ bare = {} /\ failure = "none"
  /\ step = "asked" =>
       /\ total \in Nat /\ asked \in 1..total
       /\ call \notin Paged => total = 1 /\ pages = <<>>
       /\ bare \subseteq 1..(asked - 1)
       /\ Gathered(pages, bare, asked - 1)
       /\ failure = "none" => pages = Through(asked - 1)
  /\ step = "returned" /\ call \in Paged =>
       /\ total \in Nat
       /\ \E n \in 0..total : Gathered(pages, bare, n)
       /\ failure = "none" => pages = Through(total)
  /\ step = "returned" /\ call \in Commands /\ pages # <<>> => done

\* One page more.
LEMMA OnePageMore ==
  ASSUME NEW n \in Nat \ {0}
  PROVE  Append(Through(n - 1), n) = Through(n)
<1>1. Through(n - 1) \in Seq(Nat) /\ Len(Through(n - 1)) = n - 1
  BY DEF Through
<1> QED BY <1>1 DEF Through

LEMMA NoPages == Through(0) = <<>> /\ \A missing : Gathered(<<>>, missing, 0)
  BY DEF Through, Gathered

\* A page that comes with its list is the last of those gathered.
LEMMA GatheredMore ==
  ASSUME NEW list, NEW missing, NEW n \in Nat \ {0},
         missing \subseteq 1..(n - 1), Gathered(list, missing, n - 1)
  PROVE  Gathered(Append(list, n), missing, n)
<1> DEFINE longer == Append(list, n)
           len == Len(list)
<1>1. /\ list \in Seq(Nat) /\ len \in Nat /\ DOMAIN list = 1..len
      /\ longer \in Seq(Nat) /\ DOMAIN longer = 1..(len + 1)
      /\ \A i \in 1..len : longer[i] = list[i]
      /\ longer[len + 1] = n
  BY DEF Gathered
<1>2. \A i \in 1..len : list[i] \in (1..(n - 1)) \ missing
  BY <1>1 DEF Gathered
<1>3. ASSUME NEW i \in DOMAIN longer, NEW j \in DOMAIN longer, i < j PROVE longer[i] < longer[j]
  <2>1. i \in 1..len
    BY <1>1, <1>3
  <2>2. CASE j \in 1..len
    BY <1>1, <1>3, <2>1, <2>2 DEF Gathered
  <2>3. CASE j = len + 1
    BY <1>1, <1>2, <2>1, <2>3
  <2> QED BY <1>1, <2>2, <2>3
<1>4. {longer[i] : i \in DOMAIN longer} = {list[i] : i \in DOMAIN list} \cup {n}
  BY <1>1
<1>5. (1..n) \ missing = ((1..(n - 1)) \ missing) \cup {n}
  OBVIOUS
<1> QED BY <1>1, <1>3, <1>4, <1>5 DEF Gathered

\* A page that comes without it is one more missing.
LEMMA GatheredWithout ==
  ASSUME NEW list, NEW missing, NEW n \in Nat \ {0}, Gathered(list, missing, n - 1)
  PROVE  Gathered(list, missing \cup {n}, n)
<1>1. (1..n) \ (missing \cup {n}) = (1..(n - 1)) \ missing
  OBVIOUS
<1> QED BY <1>1 DEF Gathered

LEMMA CallNext == CallInv /\ [Next]_restVars => CallInv'
<1> SUFFICES ASSUME CallInv, [Next]_restVars PROVE CallInv'
  OBVIOUS
<1>0. Paged \cap Commands = {} /\ "getter" \notin Paged \cup Commands
  BY DEF Paged, Commands
<1>1. CASE UNCHANGED callVars
  BY <1>1 DEF callVars, CallInv
<1>2. ASSUME NEW c, NEW n \in Nat \ {0}, Ask(c, n) PROVE CallInv'
  <2>1. /\ step' = "asked" /\ total' = n /\ asked' = 1 /\ call' = c
        /\ c \notin Paged => n = 1
        /\ pages' = <<>> /\ bare' = {} /\ asked' - 1 = 0
    BY <1>2 DEF Ask, CallInv
  <2>2. Gathered(pages', bare', 0)
    BY <2>1, NoPages
  <2> QED BY <2>1, <2>2, NoPages DEF CallInv
<1>3. CASE AskNothing
  BY <1>3, <1>0 DEF AskNothing, CallInv
<1>4. CASE Drop
  BY <1>4 DEF Drop, CallInv
<1>5. ASSUME NEW carried_out \in BOOLEAN, Answer(carried_out) PROVE CallInv'
  <2>1. /\ step = "asked" /\ UNCHANGED <<call, total, bare, failure>>
        /\ total \in Nat /\ asked \in 1..total /\ asked \in Nat \ {0}
        /\ bare \subseteq 1..(asked - 1) /\ done' = carried_out
        /\ call \notin Paged => total = 1
    BY <1>5 DEF Answer, CallInv
  <2>2. failure = "none" => Collected = Through(asked)
    BY <2>1, OnePageMore DEF Collected, CallInv
  <2>3. Gathered(Collected, bare, asked)
    BY <2>1, GatheredMore DEF Collected, CallInv
  <2>4. CASE More
    <3>1. call \in Paged /\ call # "flag" /\ asked < total
      BY <2>4 DEF More, Paged
    <3>2. asked' = asked + 1 /\ step' = "asked" /\ pages' = Collected
      BY <1>5, <2>4, <3>1 DEF Answer, NextPage, Succeeded
    <3>3. asked' - 1 = asked /\ asked' \in 1..total /\ bare' \subseteq 1..asked
      BY <2>1, <3>1, <3>2
    <3> QED BY <2>1, <2>2, <2>3, <3>1, <3>2, <3>3 DEF CallInv
  <2>5. CASE ~More
    <3>1. step' = "returned" /\ pages' = IF Succeeded(carried_out) THEN Collected ELSE <<>>
      BY <1>5, <2>5 DEF Answer
    <3>2. CASE call \in Paged
      <4>1. asked = total /\ total \in 0..total
        BY <2>1, <2>5, <3>2 DEF More
      <4>2. pages' = Collected
        BY <3>1, <3>2 DEF Succeeded, Paged
      <4>3. Gathered(pages', bare', total')
        BY <2>1, <2>3, <4>1, <4>2
      <4>4. failure' = "none" => pages' = Through(total')
        BY <2>1, <2>2, <4>1, <4>2
      <4> QED BY <1>0, <2>1, <3>1, <3>2, <4>1, <4>3, <4>4 DEF CallInv
    <3>3. CASE call \notin Paged
      <4>1. call \in Commands /\ pages' # <<>> => carried_out
        BY <1>5, <3>1 DEF Answer, Succeeded
      <4> QED BY <2>1, <3>1, <3>3, <4>1 DEF CallInv
    <3> QED BY <3>2, <3>3
  <2> QED BY <2>4, <2>5
<1>6. ASSUME NEW carried_out \in BOOLEAN, Thrown(carried_out) PROVE CallInv'
  <2>1. /\ total' \in Nat /\ 0 \in 0..total' /\ step' = "returned" /\ pages' = <<>>
        /\ failure' = "thrown"
    BY <1>6 DEF Thrown, CallInv
  <2>2. Gathered(pages', bare', 0)
    BY <2>1, NoPages
  <2> QED BY <2>1, <2>2 DEF CallInv
<1>7. ASSUME NEW listed \in BOOLEAN, NEW cursored \in BOOLEAN, IncompletePage(listed, cursored)
      PROVE  CallInv'
  <2>1. /\ step = "asked" /\ call \in Paged /\ failure' = "bare"
        /\ UNCHANGED <<call, total, done>>
        /\ total \in Nat /\ asked \in 1..total /\ asked \in Nat \ {0}
        /\ bare \subseteq 1..(asked - 1)
        /\ Gathered(pages, bare, asked - 1)
    BY <1>7 DEF IncompletePage, CallInv
  <2>2. Gathered(pages', bare', asked) /\ bare' \subseteq 1..asked
    <3>1. CASE listed
      <4>1. pages' = Append(pages, asked) /\ bare' = bare
        BY <1>7, <3>1 DEF IncompletePage, Collected
      <4>2. Gathered(Append(pages, asked), bare, asked)
        BY <2>1, GatheredMore
      <4>3. bare \subseteq 1..asked
        BY <2>1
      <4> QED BY <4>1, <4>2, <4>3
    <3>2. CASE ~listed
      <4>1. pages' = pages /\ bare' = bare \cup {asked}
        BY <1>7, <3>2 DEF IncompletePage
      <4> QED BY <2>1, <4>1, GatheredWithout
    <3> QED BY <3>1, <3>2
  <2>3. CASE cursored /\ More
    <3>1. asked' = asked + 1 /\ step' = "asked" /\ asked < total
      BY <1>7, <2>3 DEF IncompletePage, NextPage, More
    <3>2. asked' - 1 = asked /\ asked' \in 1..total
      BY <2>1, <3>1
    <3> QED BY <2>1, <2>2, <3>1, <3>2 DEF CallInv
  <2>4. CASE ~(cursored /\ More)
    <3>1. step' = "returned" /\ asked \in 0..total
      BY <1>7, <2>1, <2>4 DEF IncompletePage
    <3> QED BY <1>0, <2>1, <2>2, <3>1 DEF CallInv
  <2> QED BY <2>3, <2>4
<1>8. ASSUME NEW carried_out \in BOOLEAN, Error(carried_out) PROVE CallInv'
  <2>1. /\ step = "asked" /\ step' = "returned" /\ failure' = "error"
        /\ UNCHANGED <<call, total, pages, bare>>
        /\ total \in Nat /\ asked - 1 \in 0..total
        /\ call \notin Paged => pages = <<>>
        /\ Gathered(pages, bare, asked - 1)
    BY <1>8 DEF Error, Stopped, CallInv
  <2> QED BY <1>0, <2>1 DEF CallInv
<1>9. MaxPages \in Nat /\ 1..MaxPages \subseteq Nat \ {0}
  BY PagesAssumption
<1> QED BY <1>1, <1>2, <1>3, <1>4, <1>5, <1>6, <1>7, <1>8, <1>9
        DEF Next, Construct, Constructed, OrderStep, CallStep, Transfer, Reply, restVars

LEMMA CallHolds == Spec => []CallInv
<1>1. Init => CallInv
  BY DEF Init, CallInit, CallInv
<1> QED BY <1>1, CallNext, PTL DEF Spec

\* A list repeats and misplaces no page, and skips none but those that came
\* without their list, however many there are and however its answers end.
THEOREM OnlyBarePagesMissingCorrect == Spec => []OnlyBarePagesMissing
<1>1. CallInv => OnlyBarePagesMissing
  <2> SUFFICES ASSUME CallInv, step # "idle", call \in Paged
               PROVE  \E n \in 0..total : Gathered(pages, bare, n)
    BY DEF OnlyBarePagesMissing, CallInv, Paged, Gathered
  <2>1. CASE step = "asked"
    <3>1. asked - 1 \in 0..total /\ Gathered(pages, bare, asked - 1)
      BY <2>1 DEF CallInv
    <3> QED BY <3>1
  <2>2. CASE step = "returned"
    BY <2>2 DEF CallInv
  <2> QED BY <2>1, <2>2 DEF CallInv
<1> QED BY <1>1, CallHolds, PTL

\* With every answer good, every page is in the list.
THEOREM WholeUnlessFailedCorrect == Spec => []WholeUnlessFailed
<1>1. CallInv => WholeUnlessFailed
  BY DEF CallInv, WholeUnlessFailed
<1> QED BY <1>1, CallHolds, PTL

\* A command reported done has been carried out.
THEOREM CommandsAreTrueCorrect == Spec => []CommandsAreTrue
<1>1. CallInv => CommandsAreTrue
  BY DEF CallInv, CommandsAreTrue
<1> QED BY <1>1, CallHolds, PTL

=============================================================================
