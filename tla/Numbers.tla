------------------------------ MODULE Numbers ------------------------------
(***************************************************************************)
(* How a number of the device's JSON becomes an interval or a time         *)
(* (milliseconds and unixSeconds, wire.go): a float64 is scaled, rounded   *)
(* and converted to an int64, whose largest value no float64 represents.   *)
(*                                                                         *)
(* The arithmetic of a binary format, with subnormal numbers and overflow. *)
(* A float is its value in units of 1/Unit, the least positive float: Go's *)
(* float64 has Precision = 53, Unit = 2^1074 and MaxExponent = 2045, its   *)
(* int64 Width = 64, and Scale is 10^6 in both conversions.                *)
(***************************************************************************)
EXTENDS Integers

CONSTANTS
  Width,       \* bits of the integer
  Precision,   \* significant bits of a float
  Unit,        \* how many units make 1
  Scale,       \* units of the result in one of the input
  MaxExponent, \* finite floats are below 2^(Precision + MaxExponent) units
  NotFinite    \* NaN and the infinities

\* Powers of two.
TwoTo[n \in Nat] == IF n = 0 THEN 1 ELSE 2 * TwoTo[n - 1]

\* Not every integer is a float, and the floats reach beyond the integers.
ASSUME NumbersAssumption ==
  /\ Precision \in Nat \ {0} /\ Width \in Nat /\ Precision < Width - 1
  /\ Scale \in Nat \ {0} /\ MaxExponent \in Nat
  /\ \E u \in 0 .. MaxExponent :
       Unit = TwoTo[u] /\ Width + u <= Precision + MaxExponent
  /\ NotFinite \notin Int

MaxInt == TwoTo[Width - 1] - 1
MinInt == -TwoTo[Width - 1]

Magnitude(n) == IF n < 0 THEN -n ELSE n

\* All finite floats are below this.
Overflow == TwoTo[Precision + MaxExponent]

\* The finite floats.
Floats ==
  {m * TwoTo[e] : m \in -(TwoTo[Precision] - 1) .. TwoTo[Precision] - 1,
                  e \in 0 .. MaxExponent}

\* An integer divided by a positive one, to the nearest, halves to even.
NearestEven(n, step) ==
  LET below == n \div step
      twice == 2 * (n % step)
  IN  IF twice > step \/ (twice = step /\ below % 2 = 1) THEN below + 1 ELSE below

\* How far apart the floats around n units are.
Exponent(n) ==
  CHOOSE e \in 0 .. MaxExponent :
    /\ Magnitude(n) < TwoTo[Precision + e]
    /\ e > 0 => Magnitude(n) >= TwoTo[Precision + e - 1]
Spacing(n) == TwoTo[Exponent(n)]

\* The float nearest to n units, the result of every operation on floats.
Float(n) ==
  IF Magnitude(n) >= Overflow THEN NotFinite
  ELSE LET nearest == NearestEven(n, Spacing(n)) * Spacing(n)
       IN  IF Magnitude(nearest) = Overflow THEN NotFinite ELSE nearest

\* math.Round of a finite float: to the nearest whole number, halves away from
\* zero.
Round(x) ==
  LET whole == (2 * Magnitude(x) + Unit) \div (2 * Unit)
  IN  IF x < 0 THEN -whole * Unit ELSE whole * Unit

\* int64(x) of a float that does not fit is whatever the processor makes of it.
ToInt(x) ==
  IF x \div Unit \in MinInt .. MaxInt THEN {x \div Unit} ELSE {MinInt, MaxInt}

\* The comparison with the floats nearest to the limits.
\* Mutant: the upper limit itself passes.
OutOfRangeLoosely(x) == x <= Float(MinInt * Unit) \/ x > Float(MaxInt * Unit)
OutOfRange(x) == x <= Float(MinInt * Unit) \/ x >= Float(MaxInt * Unit)

Refused == [ok |-> FALSE, value |-> 0]

\* milliseconds and unixSeconds, which differ in what their results mean.
convert(value) ==
  IF value = NotFinite \/ Float(value * Scale) = NotFinite THEN {Refused}
  ELSE LET scaled == Round(Float(value * Scale))
       IN  IF OutOfRange(scaled) THEN {Refused}
           ELSE {[ok |-> TRUE, value |-> i] : i \in ToInt(scaled)}
=============================================================================
