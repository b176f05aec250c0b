---------------------------- MODULE OrderRequest ----------------------------
(***************************************************************************)
(* create_order, modify_order and cancel_orders of CoinbaseRestClient: the *)
(* checks of the arguments, the request built from them, and what is       *)
(* reported of an exchange that may carry the request out and never be     *)
(* heard to have done so.                                                  *)
(*                                                                         *)
(* A request is the name of its configuration and, field by field, the     *)
(* argument each of its fields is formatted from.  The module has no       *)
(* specification of its own: RestClient composes it with the other calls.  *)
(***************************************************************************)
EXTENDS Integers, Sequences

CONSTANTS
  OrderIds,   \* ids an application cancels
  MaxCancels  \* bound: ids in one cancel_orders

ASSUME OrderAssumption == MaxCancels \in Nat

\* "none" is an empty optional, "NaN" a quiet NaN.
Prices == {"price", "NaN"}
Optionals == Prices \cup {"none"}

OrderTypes == {"MARKET", "LIMIT", "STOP_LIMIT", "TWAP", "BRACKET", "STOP"}
TimesInForce == {"FOK", "IOC", "GTC", "GTD", "UNKNOWN"}
Sides == {"BUY", "SELL"}

\* The product's type at the exchange; it is listed if the list the catalogue
\* was filled from has it.
ProductTypes == {"SPOT", "FUTURE"}

CreateArgs ==
  [type : OrderTypes, tif : TimesInForce, side : Sides, product : ProductTypes,
   listed : BOOLEAN, limit : Prices, stop : Optionals, profit : Optionals,
   start : BOOLEAN, end : BOOLEAN, in_quote : BOOLEAN, own_attached : BOOLEAN]

ModifyArgs == [stop : Optionals, profit : Optionals]

VARIABLES
  products_,  \* the catalogue: "unset", "full", or "empty" if its fetch failed
  phase,      \* "idle", "sent", "answered", "returned"
  op,         \* "create", "modify", "cancel"
  args,       \* its arguments; for cancel, the ids
  request,    \* what was posted, NoRequest if the arguments were refused
  carried,    \* ids for which the exchange has done what was asked
  answer,     \* the text that came back
  report      \* what the caller is told: id and success, in order

orderVars == <<phase, op, args, request, carried, answer, report>>

NoRequest == [config |-> "none", fields |-> {}, attached |-> {}]
NewOrder == "the order"

-----------------------------------------------------------------------------
(* The request.                                                            *)

Given(optional) == optional # "none"

\* Mistake: the catalogue is looked up by the wrong key.
ProductTypeMissed(a) == "UNKNOWN"

InCatalogue(a) == products_ = "full" /\ a.listed

\* product(id).product_type: a product that is not in the catalogue, whether the
\* fetch failed or its list lacks the product, is added on the spot, blank, and
\* stays so.
ProductType(a) == IF InCatalogue(a) THEN a.product ELSE "UNKNOWN"

IsSpot(a) == ProductType(a) = "SPOT"

BothLegs(a) == Given(a.stop) /\ Given(a.profit)

\* Mistake: a single leg is refused for market orders only.
RefusedLimitLoose(a) ==
  \/ a.limit = "NaN"
  \/ a.tif \notin {"FOK", "IOC", "GTC", "GTD"}
  \/ a.tif = "GTD" /\ ~a.end
  \/ BothLegs(a) /\ IsSpot(a) /\ a.side = "SELL"

RefusedMarket(a) ==
  \/ a.tif \notin {"FOK", "IOC"}
  \/ BothLegs(a) /\ IsSpot(a) /\ a.side = "SELL"
  \/ Given(a.stop) /\ ~Given(a.profit)

RefusedLimit(a) ==
  \/ a.limit = "NaN"
  \/ a.tif \notin {"FOK", "IOC", "GTC", "GTD"}
  \/ a.tif = "GTD" /\ ~a.end
  \/ BothLegs(a) /\ IsSpot(a) /\ a.side = "SELL"
  \/ Given(a.stop) # Given(a.profit)

RefusedStopLimit(a) ==
  \/ a.in_quote
  \/ a.stop # "price"
  \/ a.tif \notin {"GTC", "GTD"}
  \/ a.tif = "GTD" /\ ~a.end

RefusedTwap(a) == ~(a.start /\ a.end)

RefusedBracket(a) ==
  \/ IsSpot(a) /\ a.side = "BUY"
  \/ a.in_quote
  \/ ~(BothLegs(a) \/ (Given(a.stop) /\ a.limit = "price"))

Refused(a) ==
  CASE a.type = "MARKET" -> RefusedMarket(a)
    [] a.type = "LIMIT" -> RefusedLimit(a)
    [] a.type = "STOP_LIMIT" -> RefusedStopLimit(a)
    [] a.type = "TWAP" -> RefusedTwap(a)
    [] a.type = "BRACKET" -> RefusedBracket(a)
    [] OTHER -> TRUE

Legs(profit) == {<<"limit_price", profit>>, <<"stop_trigger_price", "stop">>}

Size(a) == {<<IF a.in_quote THEN "quote_size" ELSE "base_size", "size">>}
Limit == {<<"limit_price", "limit">>}
PostOnly == {<<"post_only", "post_only">>}
EndTime == {<<"end_time", "end">>}

\* The configuration of an order not refused, and its fields.  A stop-limit
\* order good until a time is sent without its stop price.
Config(a) ==
  CASE a.type = "MARKET" /\ a.tif = "FOK" -> <<"market_market_fok", Size(a)>>
    [] a.type = "MARKET" /\ a.tif = "IOC" -> <<"market_market_ioc", Size(a)>>
    [] a.type = "LIMIT" /\ a.tif = "FOK" -> <<"limit_limit_fok", Size(a) \cup Limit>>
    [] a.type = "LIMIT" /\ a.tif = "IOC" -> <<"sor_limit_ioc", Size(a) \cup Limit>>
    [] a.type = "LIMIT" /\ a.tif = "GTC" ->
         <<"limit_limit_gtc", Size(a) \cup Limit \cup PostOnly>>
    [] a.type = "LIMIT" /\ a.tif = "GTD" ->
         <<"limit_limit_gtd", Size(a) \cup Limit \cup PostOnly \cup EndTime>>
    [] a.type = "STOP_LIMIT" /\ a.tif = "GTC" ->
         <<"stop_limit_stop_limit_gtc", Size(a) \cup Limit \cup {<<"stop_price", "stop">>}>>
    [] a.type = "STOP_LIMIT" /\ a.tif = "GTD" ->
         <<"stop_limit_stop_limit_gtd", Size(a) \cup Limit \cup EndTime>>
    [] a.type = "TWAP" ->
         <<"twap_limit_gtd", Size(a) \cup Limit \cup EndTime \cup {<<"start_time", "start">>}>>
    [] a.type = "BRACKET" ->
         <<"trigger_bracket_gtc",
           Size(a) \cup Legs(IF Given(a.profit) THEN "profit" ELSE "limit")>>

\* The caller's own attached configuration replaces the legs of the arguments.
Attached(a) ==
  CASE a.own_attached -> {<<"attached_order_configuration", "own_attached">>}
    [] ~a.own_attached /\ a.type \in {"MARKET", "LIMIT"} /\ BothLegs(a) -> Legs("profit")
    [] OTHER -> {}

\* modify_order checks nothing.  A take-profit price without a stop price is
\* dropped.
ModifyRequest(a) ==
  [config |-> "edit",
   fields |-> {<<"size", "size">>, <<"price", "limit">>} \cup
              (IF Given(a.stop) /\ ~Given(a.profit) THEN {<<"stop_price", "stop">>} ELSE {}),
   attached |-> IF BothLegs(a) THEN Legs("profit") ELSE {}]

-----------------------------------------------------------------------------
(* The call, the exchange, the answer.                                     *)

Ids == IF op = "cancel" THEN args ELSE <<NewOrder>>

\* Mistake: the failures of the error path are not filled in.
AllFailedEmpty(ids) == <<>>

AllFailed(ids) == [i \in DOMAIN ids |-> [id |-> ids[i], success |-> FALSE]]

create_order(a) ==
  /\ phase = "idle"
  /\ op' = "create"
  /\ args' = a
  /\ IF Refused(a)
     THEN /\ phase' = "returned"
          /\ report' = AllFailed(<<NewOrder>>)
          /\ UNCHANGED request
     ELSE /\ phase' = "sent"
          /\ request' = [config |-> Config(a)[1], fields |-> Config(a)[2],
                         attached |-> Attached(a)]
          /\ UNCHANGED report
  /\ UNCHANGED <<carried, answer>>

modify_order(a) ==
  /\ phase = "idle"
  /\ phase' = "sent"
  /\ op' = "modify"
  /\ args' = a
  /\ request' = ModifyRequest(a)
  /\ UNCHANGED <<carried, answer, report>>

cancel_orders(ids) ==
  /\ phase = "idle"
  /\ phase' = "sent"
  /\ op' = "cancel"
  /\ args' = ids
  /\ request' = [config |-> "batch_cancel", fields |-> {<<"order_ids", "ids">>},
                 attached |-> {}]
  /\ UNCHANGED <<carried, answer, report>>

\* The exchange carries out what it will, and answers truthfully; what arrives
\* is its answer, an empty text, or something else (a proxy's page, or JSON
\* without the fields looked for).
Exchange(done, text) ==
  /\ phase = "sent"
  /\ done \subseteq {Ids[i] : i \in DOMAIN Ids}
  /\ phase' = "answered"
  /\ carried' = done
  /\ answer' = [text |-> text,
                results |-> [i \in DOMAIN Ids |-> [id |-> Ids[i], success |-> Ids[i] \in done]]]
  /\ UNCHANGED <<op, args, request, report>>

\* Mistake: a request that went out without an answer counts as done.
ReadAnswerHopeful ==
  IF answer.text = "answer" THEN answer.results
  ELSE [i \in DOMAIN Ids |-> [id |-> Ids[i], success |-> TRUE]]

\* The HTTP status never decides: success comes from the body, and everything
\* else is a failure, a thrown parse error included.
ReadAnswer == IF answer.text = "answer" THEN answer.results ELSE AllFailed(Ids)

Return ==
  /\ phase = "answered"
  /\ phase' = "returned"
  /\ report' = ReadAnswer
  /\ UNCHANGED <<op, args, request, carried, answer>>

-----------------------------------------------------------------------------

Cancels == UNION {[1..n -> OrderIds] : n \in 0..MaxCancels}

OrderInit ==
  /\ phase = "idle"
  /\ op = "none"
  /\ args = <<>>
  /\ request = NoRequest
  /\ carried = {}
  /\ answer = [text |-> "empty", results |-> <<>>]
  /\ report = <<>>

\* The caller is done with the report.
Forget ==
  /\ phase = "returned"
  /\ phase' = "idle"
  /\ op' = "none"
  /\ args' = <<>>
  /\ request' = NoRequest
  /\ carried' = {}
  /\ answer' = [text |-> "empty", results |-> <<>>]
  /\ report' = <<>>

CallOrder ==
  \/ \E a \in CreateArgs : create_order(a)
  \/ \E a \in ModifyArgs : modify_order(a)
  \/ \E ids \in Cancels : cancel_orders(ids)

FinishOrder ==
  \/ \E done \in SUBSET (OrderIds \cup {NewOrder}), text \in {"answer", "empty", "other"} :
       Exchange(done, text)
  \/ Return
  \/ Forget

-----------------------------------------------------------------------------
(* Properties.                                                             *)

Posted == op = "create" /\ request # NoRequest

Sources == {p[2] : p \in request.fields \cup request.attached}

\* What is refused for a spot product: legs attached to a sale, a bracket order
\* that buys.
WrongSide(a) ==
  \/ a.type \in {"MARKET", "LIMIT"} /\ a.side = "SELL" /\ BothLegs(a)
  \/ a.type = "BRACKET" /\ a.side = "BUY"

\* A spot order on the wrong side for its legs goes out only for a product that
\* the catalogue does not have: for those the check is void, and the exchange
\* alone refuses them.
SidesAreChecked ==
  Posted /\ args.product = "SPOT" /\ WrongSide(args) => ~InCatalogue(args)

\* A limit or bracket order never goes out without a protective leg the caller
\* gave for it: both legs are in the request, or the call is refused.
LegsAreKept ==
  Posted /\ args.type \in {"LIMIT", "BRACKET"} /\ ~args.own_attached =>
    /\ Given(args.stop) => "stop" \in Sources
    /\ Given(args.profit) => "profit" \in Sources

\* Nothing is reported done that the exchange has not done; a refused order
\* has not reached it.
ReportsAreTrue ==
  phase = "returned" =>
    \A i \in DOMAIN report : report[i].success => report[i].id \in carried

\* The caller hears of every order it asked about, in the order it asked.
EveryIdAnswered == phase = "returned" => [i \in DOMAIN report |-> report[i].id] = Ids

\* Stop-limit orders "Execute when stop price is hit": the request says which.
StopLimitCarriesStop == Posted /\ args.type = "STOP_LIMIT" => "stop" \in Sources

=============================================================================
