---------------------------- MODULE Conversions ----------------------------
(***************************************************************************)
(* The conversion of any float the device may have sent, as one step       *)
(* (milliseconds and unixSeconds, wire.go).                                *)
(***************************************************************************)
EXTENDS Numbers

VARIABLES value, converted, result

AnyFloat == value \in Floats \cup {NotFinite} /\ converted = FALSE /\ result = Refused

Convert ==
  /\ ~converted /\ converted' = TRUE
  /\ result' \in convert(value)
  /\ UNCHANGED value

Conversion == AnyFloat /\ [][Convert]_<<value, converted, result>>
-----------------------------------------------------------------------------
Exact == value * Scale    \* in units

\* What is converted is the exact product, but for one rounding to a float and
\* one to a whole number: it never wraps around or changes its sign, also next
\* to the limits, where the float of the limit is not the limit.  And nothing
\* is refused but what is not finite, is at a limit or beyond it, or is taken
\* there by those roundings (wire.go:495-507).
ConversionsAreFaithful ==
  converted /\ value # NotFinite =>
    IF result.ok
    THEN /\ result.value \in MinInt .. MaxInt
         /\ 2 * Magnitude(result.value * Unit - Exact) <= Spacing(Exact) + Unit
    ELSE \/ Exact >= MaxInt * Unit
         \/ Exact <= MinInt * Unit
         \/ 2 * (MaxInt * Unit - Exact) <= Spacing(Exact) + Unit
         \/ 2 * (Exact - MinInt * Unit) <= Spacing(Exact) + Unit
=============================================================================
