----------------------------- MODULE OrderViews -----------------------------
(***************************************************************************)
(* An order as the client shows it afterwards: what from_json makes of the *)
(* configuration that list_orders and get_order return, and from_snapshot  *)
(* of the order in a frame of the user channel.  The exchange returns the  *)
(* configuration as it was posted; a snapshot holds the order's type, its  *)
(* time in force and its fields side by side.                              *)
(***************************************************************************)
EXTENDS OrderRequest

MarketFields == {"quote_size", "base_size"}
LimitFields == MarketFields \cup {"limit_price"}
LimitGtcFields == LimitFields \cup {"post_only"}

\* Mistake: from_json of the base class is that of LimitConfig.
LimitGtdFieldsOfLimit == LimitFields \cup {"end_time"}

LimitGtdFields == LimitGtcFields \cup {"end_time"}

TwapGtdFields ==
  LimitFields \cup {"start_time", "end_time", "number_buckets", "bucket_size", "bucket_duration"}

StopLimitFields == {"base_size", "limit_price", "stop_price", "stop_direction"}
StopLimitGtdFields == StopLimitFields \cup {"end_time"}

TriggerBracketFields == {"base_size", "limit_price", "stop_trigger_price"}

\* The fields that are looked for, by configuration.  A configuration with
\* another name is passed over.
Fields(config) ==
  CASE config \in {"market_market_ioc", "market_market_fok"} -> MarketFields
    [] config \in {"sor_limit_ioc", "limit_limit_fok"} -> LimitFields
    [] config = "limit_limit_gtc" -> LimitGtcFields
    [] config = "limit_limit_gtd" -> LimitGtdFields
    [] config = "twap_limit_gtd" -> TwapGtdFields
    [] config = "stop_limit_stop_limit_gtc" -> StopLimitFields
    [] config = "stop_limit_stop_limit_gtd" -> StopLimitGtdFields
    [] config = "trigger_bracket_gtc" -> TriggerBracketFields
    [] OTHER -> {}

Read(fields, names) == {p \in fields : p[1] \in names}

\* from_json of OrderConfiguration.
from_json(config, fields) == Read(fields, Fields(config))

NoView == [config |-> "none", fields |-> {}]

\* from_snapshot of the order posted for a: configurations of limit and
\* stop-limit orders that rest, and of those only what is listed here.  Sizes
\* and times stay in members of the order itself, or are not read.
from_snapshot(a, fields) ==
  CASE a.type = "LIMIT" /\ a.tif = "GTC" ->
         [config |-> "limit_limit_gtc", fields |-> Read(fields, {"limit_price", "post_only"})]
    [] a.type = "LIMIT" /\ a.tif = "GTD" ->
         [config |-> "limit_limit_gtd", fields |-> Read(fields, {"limit_price", "post_only"})]
    [] a.type = "STOP_LIMIT" /\ a.tif = "GTC" ->
         [config |-> "stop_limit_stop_limit_gtc", fields |-> Read(fields, {"stop_price", "limit_price"})]
    [] a.type = "STOP_LIMIT" /\ a.tif = "GTD" ->
         [config |-> "stop_limit_stop_limit_gtd", fields |-> Read(fields, {"stop_price", "limit_price"})]
    [] OTHER -> NoView

-----------------------------------------------------------------------------
(* Property.                                                               *)

\* What is posted is read back: in the answers to list_orders and get_order
\* every field of the configuration that create_order can write is shown again
\* under the same name, legs included; and a snapshot shows the order under the
\* same configuration, with every price, or under none.  A field that one of
\* the three tables lacks would be shown as zero.
ReadsBack ==
  Posted =>
    /\ from_json(request.config, request.fields) = request.fields
    /\ ~args.own_attached =>
         from_json("trigger_bracket_gtc", request.attached) = request.attached
    /\ LET view == from_snapshot(args, request.fields)
       IN \/ view = NoView /\ ~(args.type \in {"LIMIT", "STOP_LIMIT"} /\ args.tif \in {"GTC", "GTD"})
          \/ /\ view.config = request.config
             /\ view.fields =
                  {p \in request.fields :
                     p[1] \in {"limit_price", "stop_price", "stop_trigger_price", "post_only"}}

=============================================================================
