---------------------------- MODULE Conversions ----------------------------
(***************************************************************************)
(* The conversions of the client side by side: a behaviour reads           *)
(* timestamps or posts prices.  Neither knows of the other.                *)
(***************************************************************************)
EXTENDS Timestamps, Numbers

conversionVars == <<vars, numberVars>>

ConversionInit == Init /\ NumbersInit

ReadTimestamps ==
  /\ price = [whole |-> 0, nanos |-> 0, below |-> FALSE]
  /\ Next
  /\ UNCHANGED numberVars

PostPrices ==
  /\ text = [sec |-> 0, frac |-> 0, fields |-> 0]
  /\ NumbersNext
  /\ UNCHANGED vars

ConversionSpec == ConversionInit /\ [][ReadTimestamps \/ PostPrices]_conversionVars

=============================================================================
