--------------------------- MODULE MCConversions ---------------------------
(* A small instance of Conversions.  The fractions of a second are the
   six-digit ones from 0.000240 to 0.000260, between two of which a unit is
   lost, each with the nanoseconds around it, and the ends of the range.  The
   prices lie on, just beside and between the increments. *)
EXTENDS Conversions

SampledFractions ==
  {0, 1, 999999999, 999999000, 999000000, 500000000, 9000000, 99000000}
    \cup {1000 * k + j : k \in 240..260, j \in {0, 1, 500, 999}}

SampledWholes == {0, 7, 25, 69999}

SampledNanos ==
  {0, 1, 9, 10, 50000000, 249999999, 250000000, 490000000, 495000000, 499999999, 500000000,
   520000000, 123456780, 123456789, 999999990, 999999999}

SampledIncrements ==
  {[factor |-> 1, decimals |-> d] : d \in {0, 1, 2, 8}} \cup
  {[factor |-> 5, decimals |-> 2], [factor |-> 25, decimals |-> 2], [factor |-> 5, decimals |-> 0]}

=============================================================================
