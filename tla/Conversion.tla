----------------------------- MODULE Conversion ------------------------------
(***************************************************************************)
(* Money and PriceBreakdown, in cents, and the conversion of a total into  *)
(* base units of a token at a rate.                                        *)
(***************************************************************************)
EXTENDS Naturals

CONSTANTS
    Base,        \* a catalogue price, in cents
    MaxCents,    \* the largest amount of Money (i64::MAX)
    UnitsIn,     \* base units in one token (10^decimals)
    Guard,       \* a Decimal quotient carries this many steps per base unit
    MaxUnits     \* the largest whole number a Decimal holds

ASSUME ConversionAssumption ==
    /\ Base \in Nat /\ MaxCents \in Nat /\ MaxUnits \in Nat
    /\ UnitsIn \in Nat \ {0} /\ Guard \in Nat \ {0}

Overflow == MaxCents + 1
Within(n) == IF n > MaxCents THEN Overflow ELSE n

\* Money::apply_bps: checked_mul, then a division that drops the fraction.
ApplyBps(cents, bps) ==
    IF cents * bps > MaxCents THEN Overflow ELSE (cents * bps) \div 10000

\* PriceBreakdown::calculate, with checked_add
TotalOf(base) == Within(base + ApplyBps(base, 1000) + ApplyBps(base, 500))

Up(n, d) == (n + d - 1) \div d

\* Decimal division rounds its last digit half to even.
HalfEven(n, d) ==
    LET q == n \div d  r == n % d
    IN  IF 2 * r > d \/ (2 * r = d /\ q % 2 = 1) THEN q + 1 ELSE q

FaultyUnitsFor(cents, price) == (cents * UnitsIn) \div price

\* usd_to_crypto_amount, rounded away from zero to the token's precision, and
\* crypto_base_units; 0 stands for both their refusals.
UnitsFor(cents, price) ==
    LET units == Up(HalfEven(cents * UnitsIn * Guard, price), Guard)
    IN  IF price = 0 \/ units > MaxUnits THEN 0 ELSE units
==============================================================================
