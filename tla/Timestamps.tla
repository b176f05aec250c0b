----------------------------- MODULE Timestamps -----------------------------
(***************************************************************************)
(* The timestamps of src/utils.cpp: ISO 8601 text to a count of            *)
(* milliseconds, microseconds or nanoseconds, and milliseconds to text.    *)
(*                                                                         *)
(* The calendar fields go through sscanf and timegm and are abstracted to  *)
(* the second they name.  The fraction of the second is what is hard: the  *)
(* code reads it as a double, multiplies, and truncates, and nothing is    *)
(* exact on the way.  Both roundings are modelled here bit for bit, for    *)
(* IEEE 754 doubles, in integers TLC can hold.                             *)
(*                                                                         *)
(* The module has a behaviour so that order can be spoken of: a feed sends *)
(* texts of later and later instants, each is read in turn.                *)
(***************************************************************************)
EXTENDS Integers

CONSTANTS
  Seconds,   \* seconds that occur
  Fractions  \* fractions of a second that occur, in nanoseconds

NanosPerSecond == 1000000000

ASSUME TimestampAssumption ==
  /\ Seconds \subseteq Nat
  /\ Fractions \subseteq 0..(NanosPerSecond - 1)

\* A text: the second its first six fields name, its fraction of at most nine
\* digits, in nanoseconds, and how many of the six fields sscanf finds.
Texts == [sec : Seconds, frac : Fractions, fields : 0..6]

\* to_milliseconds, to_microseconds, to_nanoseconds: units in a second.
Units == {1000, 1000000, NanosPerSecond}

VARIABLES
  unit,   \* the reader in use
  text,   \* the text received last
  value   \* what it was read as: whole seconds, and units of the fraction

vars == <<unit, text, value>>

-----------------------------------------------------------------------------
(* Doubles.  A double has 53 significant bits.                             *)

\* x * 2^n % m, for x < m.
DoubledMod(x, n, m) ==
  LET f[i \in 0..n] == IF i = 0 THEN x ELSE (2 * f[i - 1]) % m
  IN f[n]

\* 2^n for n >= 0.
PowerOf2(n) ==
  LET f[i \in 0..n] == IF i = 0 THEN 1 ELSE 2 * f[i - 1]
  IN f[n]

\* The exponent h with s <= k * 2^h < 2 * s, for 0 < k < s.
Doublings(k, s) == CHOOSE h \in 0..31 : k * PowerOf2(h) >= s /\ \A g \in 0..(h - 1) : k * PowerOf2(g) < s

\* The exponent b with 2^b < k <= 2^(b + 1).
BitsBelow(k) == IF k = 1 THEN -1 ELSE CHOOSE b \in 0..30 : PowerOf2(b) < k /\ k <= 2 * PowerOf2(b)

\* Does (double)(k / s) * s end below k?  The double nearest k / s is M / 2^e
\* with 53 bits in M; M * s misses k * 2^e by r when it is rounded down; and
\* the product is rounded back up to k unless r is more than half the distance
\* from k to the double before it, 2^(b - 52).
EndsBelow(k, s) ==
  LET e == Doublings(k, s) + 52
      r == DoubledMod(k, e, s)
  IN k > 0 /\ 2 * r < s /\ r > PowerOf2(e + BitsBelow(k) - 53)

-----------------------------------------------------------------------------
(* The conversions.                                                        *)

\* Mistake: the digits after the point read as a whole number.
FractionUnscaled(frac, s) ==
  LET stripped[i \in 0..9] == IF i = 0 THEN frac
                              ELSE IF stripped[i - 1] % 10 = 0 THEN stripped[i - 1] \div 10
                              ELSE stripped[i - 1]
  IN stripped[9] % s

\* static_cast<uint64_t>(fractional_seconds * s).  A fraction that is not a
\* whole number of units is far enough from one for the roundings not to matter.
Fraction(frac, s) ==
  LET step == NanosPerSecond \div s
      k == frac \div step
  IN IF frac % step = 0 /\ EndsBelow(k, s) THEN k - 1 ELSE k

Zero == [sec |-> 0, part |-> 0]

\* to_microseconds and to_nanoseconds; to_milliseconds does the same without the
\* check of the six fields, and is only given whole texts here.  An offset
\* after the seconds is cut off: every text is read as UTC.
to_units(t, s) ==
  IF t.fields < 6 THEN Zero ELSE [sec |-> t.sec, part |-> Fraction(t.frac, s)]

\* Mistake: "%d" in place of "%03d".
timestamp_to_stringUnpadded(sec, ms) ==
  [sec |-> sec, fields |-> 6,
   frac |-> ms * (IF ms < 10 THEN 100000000 ELSE IF ms < 100 THEN 10000000 ELSE 1000000)]

\* timestamp_to_string of 1000 * sec + ms: three digits, always.
timestamp_to_string(sec, ms) == [sec |-> sec, fields |-> 6, frac |-> ms * 1000000]

-----------------------------------------------------------------------------

\* A later text, or one that is cut off.
Receive(t) ==
  /\ t.sec > text.sec \/ (t.sec = text.sec /\ t.frac >= text.frac)
  /\ text' = t
  /\ value' = to_units(t, unit)
  /\ UNCHANGED unit

Init ==
  /\ unit \in Units
  /\ text = [sec |-> 0, frac |-> 0, fields |-> 0]
  /\ value = Zero

Next == \E sec \in Seconds, frac \in Fractions, fields \in {5, 6} :
          /\ unit = 1000 => fields = 6
          /\ Receive([sec |-> sec, frac |-> frac, fields |-> fields])

Spec == Init /\ [][Next]_vars

-----------------------------------------------------------------------------
(* Properties.                                                             *)

\* Instants do not change places: a later text is never read as an earlier
\* value, though either may have lost a unit.
OrderKept ==
  [][text.fields = 6 /\ text'.fields = 6 =>
       \/ value.sec < value'.sec
       \/ value.sec = value'.sec /\ value.part <= value'.part]_vars

\* What timestamp_to_string writes is read back as the same instant, whatever
\* the unit: three digits survive both roundings.
RoundTrip ==
  \A ms \in {text.frac \div 1000000, text.frac % 1000} :
    to_units(timestamp_to_string(text.sec, ms), unit)
      = [sec |-> text.sec, part |-> ms * (unit \div 1000)]

\* tests/timestamp_parsing_tests.cpp speaks of an "Exact microsecond timestamp".
\* It is exact or one unit too low: milliseconds always exact, about one
\* microsecond in ninety and one nanosecond in sixty not.
WithinOneUnit ==
  LET exact == text.frac \div (NanosPerSecond \div unit)
  IN text.fields = 6 =>
       /\ value.sec = text.sec
       /\ value.part \in {exact, exact - 1}
       /\ unit = 1000 => value.part = exact

=============================================================================
