------------------------------ MODULE Numbers ------------------------------
(***************************************************************************)
(* The prices of the orders: fix_floating_error, compute_number_decimals   *)
(* and to_string of src/include/coinbase/utils.hpp, which turn a double    *)
(* into the text that is posted, with the decimals of the product's        *)
(* quote_increment.                                                        *)
(*                                                                         *)
(* The application means a decimal number and holds the double nearest it, *)
(* and the sums and products of doubles are rounded in turn: what comes    *)
(* out of them lies at the number meant or just below it, which is left    *)
(* open.  Prices stay below 8 million, where doubles are closer together   *)
(* than epsilon.                                                           *)
(***************************************************************************)
EXTENDS Integers

CONSTANTS
  Wholes,     \* whole parts of prices that occur
  Nanos,      \* fractional parts that occur, in units of 10^-9
  Increments  \* quote increments that occur

\* fix_floating_error keeps eight decimals.
norm_factor == 100000000

\* Above this the doubles are too far apart for epsilon to count.
Limit == 8000000

\* factor * 10^-decimals.  Counting the decimals works for these factors, and
\* not for all: 0.0003 is found to have twenty.
ASSUME NumbersAssumption ==
  /\ Wholes \subseteq 0..Limit
  /\ Nanos \subseteq 0..(10 * norm_factor - 1)
  /\ Increments \subseteq [factor : {1, 2, 5, 25}, decimals : 0..8]

\* What product() makes up for an id that is not in the catalogue.
NoIncrement == [factor |-> 0, decimals |-> 0]

Doubles == [whole : Wholes, nanos : Nanos, below : BOOLEAN]

VARIABLES
  increment,  \* the product's quote_increment
  ties,       \* ties are rounded up
  price,      \* the price given last
  posted      \* the number the text says: whole, and units of 10^-8

numberVars == <<increment, ties, price, posted>>

-----------------------------------------------------------------------------

PowerOf10(n) ==
  LET f[i \in 0..n] == IF i = 0 THEN 1 ELSE 10 * f[i - 1]
  IN f[n]

\* Mistakes: epsilon is forgotten; the product is cast to 32 bits.
fix_floating_errorBare(p) ==
  [whole |-> p.whole,
   units |-> IF p.nanos % 10 = 0 /\ p.below THEN p.nanos \div 10 - 1 ELSE p.nanos \div 10]
fix_floating_errorNarrow(p) ==
  IF p.whole > 20 THEN [whole |-> -22, units |-> 52516352]
  ELSE [whole |-> p.whole, units |-> (p.nanos + 1) \div 10]

\* (int64_t)((value + epsilon) * norm_factor): truncated, so that a number of
\* eight decimals would lose a unit when its double lies below it, but for
\* epsilon.  One whose ninth decimal is 9 may still go either way.
fix_floating_error(p) ==
  LET up == p.nanos + 1  \* epsilon added
  IN [whole |-> p.whole,
      units |-> IF up % 10 = 0 /\ p.below THEN up \div 10 - 1 ELSE up \div 10]

\* Mistake: the last decimal is not counted.
compute_number_decimalsShort(inc) == IF inc.decimals > 1 THEN inc.decimals - 1 ELSE inc.decimals

compute_number_decimals(inc) == inc.decimals

\* std::fixed: the nearest number of so many decimals.  A tie goes where the
\* double of the tie lies, which is left open.
Rounded(n, unit) ==
  LET low == (n \div unit) * unit
      rest == 2 * (n % unit)
  IN IF rest > unit \/ (rest = unit /\ unit > 1 /\ ties) THEN low + unit ELSE low

to_string(p, inc) ==
  LET fixed == fix_floating_error(p)
      units == Rounded(fixed.units, PowerOf10(8 - compute_number_decimals(inc)))
  IN [whole |-> fixed.whole + units \div norm_factor, units |-> units % norm_factor]

-----------------------------------------------------------------------------

NumbersInit ==
  /\ increment \in Increments \cup {NoIncrement}
  /\ ties \in BOOLEAN
  /\ price = [whole |-> 0, nanos |-> 0, below |-> FALSE]
  /\ posted = [whole |-> 0, units |-> 0]

Below(p, q) ==
  \/ p.whole < q.whole
  \/ p.whole = q.whole /\ p.nanos < q.nanos

\* A higher price is given.
Post(p) ==
  /\ Below(price, p)
  /\ price' = p
  /\ posted' = to_string(p, increment)
  /\ UNCHANGED <<increment, ties>>

NumbersNext == \E p \in Doubles : Post(p)

-----------------------------------------------------------------------------
(* Properties.                                                             *)

\* Is the price meant a multiple of the increment?
OnIncrement ==
  LET step == 10 * PowerOf10(8 - increment.decimals)  \* nanos in a last decimal
      scale == PowerOf10(increment.decimals)
      f == increment.factor
  IN /\ increment # NoIncrement
     /\ price.nanos % step = 0
     /\ ((price.whole % f) * (scale % f) + price.nanos \div step) % f = 0

\* A price that the exchange can take is posted as it is meant, wherever its
\* double lies: no order goes out a tick away from its price.
PriceKept ==
  OnIncrement => posted = [whole |-> price.whole, units |-> price.nanos \div 10]

\* Prices do not change places: a higher one is never posted lower, whatever
\* the product and even if it is not known.
PriceOrderKept ==
  [][\/ posted.whole < posted'.whole
     \/ posted.whole = posted'.whole /\ posted.units <= posted'.units]_numberVars

\* What is posted is within half a unit of the last decimal of the price given
\* (and a unit of the eighth): nothing worse happens to a price off the
\* increment.  For a product that is not known the unit is one: 0.52 goes out as 1.
PriceNear ==
  LET unit == PowerOf10(8 - increment.decimals)
      distance == (posted.whole - price.whole) * norm_factor + posted.units - price.nanos \div 10
  IN posted.whole - price.whole \in {0, 1} /\ 2 * distance \in (-unit - 2)..(unit + 2)

=============================================================================
