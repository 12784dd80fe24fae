---------------------------- MODULE PositionSizing ----------------------------
(***************************************************************************)
(* How large an order of the risk engine is: the budget the confidence       *)
(* allows, the units it buys, what correlated open pairs, the cap and the    *)
(* broker's minimum make of them, and the two gates that refuse it.          *)
(*                                                                           *)
(* Money is in dollars, risk in tenths of a percent, and quantities in lots  *)
(* of a hundredth of a unit.  A unit of a pair quoted in dollars loses the   *)
(* distance between entry and stop; of one whose base is the dollar, the     *)
(* distance divided by the rate: pips_between times pip_value_per_unit, with *)
(* the size of a pip cancelled.  Losses are compared as fractions, as the    *)
(* code's Decimals are exact to 28 digits.                                   *)
(***************************************************************************)
EXTENDS Integers, FiniteSetsExt

CONSTANTS
  Pairs,
  Crypto, DollarBase,   \* BTC_USD; the pairs that begin with USD_
  Corr,          \* _CORRELATION_TABLE, in percent and without sign
  MaxUnits, MinUnits,   \* max_position_units, min_position_units_forex
  MinRisk        \* min_meaningful_risk_usd, in cents

ASSUME SizingAssumption ==
  /\ Crypto \subseteq Pairs /\ DollarBase \subseteq Pairs \ Crypto
  /\ Corr \in [Pairs \X Pairs -> 0..100]
  /\ \A p \in Pairs : Corr[<<p, p>>] = 100
  /\ {MaxUnits, MinUnits, MinRisk} \subseteq Nat

\* What is sized, with the confidence in percent.
Sizeable == [pair : Pairs, conf : Nat, balance : Nat, entry : Nat, distance : Nat]

\* _determine_risk_pct, in tenths of a percent.
RiskPct(s, maxRisk) ==
  Min({maxRisk, IF s.pair \in Crypto THEN 5 ELSE IF s.conf >= 80 THEN 30 ELSE 20})

\* What may be lost, in thousandths of a dollar.
Budget(s, maxRisk) == s.balance * RiskPct(s, maxRisk)

\* One unit loses s.distance / Rate(s) dollars at its stop.
Rate(s) == IF s.pair \in DollarBase THEN s.entry ELSE 1
LosesAtMost(s, lots, thousandths) == 10 * lots * s.distance <= thousandths * Rate(s)

\* quantize() rounds halves to the even neighbour.
HalfEven(n, d) ==
  LET q == n \div d  r == n % d
  IN  IF 2 * r > d \/ (2 * r = d /\ q % 2 = 1) THEN q + 1 ELSE q

\* (mutant of BaseLots: fractions of a unit are rounded up)
BaseLotsRoundedUp(s, maxRisk) ==
  LET n == Budget(s, maxRisk) * Rate(s)  d == 10 * s.distance
  IN  IF s.distance = 0 THEN 0
      ELSE IF s.pair \in Crypto THEN HalfEven(n, d) + 1 ELSE 100 * (n \div (100 * d) + 1)
\* calculate_position_size: whole units, of a crypto pair whole lots.
BaseLots(s, maxRisk) ==
  LET n == Budget(s, maxRisk) * Rate(s)  d == 10 * s.distance
  IN  IF s.distance = 0 THEN 0
      ELSE IF s.pair \in Crypto THEN HalfEven(n, d) ELSE 100 * (n \div (100 * d))

\* Gate B: the risk of the base size is worth a trade.
Meaningful(s, maxRisk) == BaseLots(s, maxRisk) * s.distance >= MinRisk * Rate(s)

\* get_position_size_multiplier, in two-hundredths.
Multiplier(pair, open) ==
  200 - Max({0} \cup {Corr[<<pair, q>>] : q \in open})

\* The correlation's share of the base size, rounded down like it.
Reduced(s, maxRisk, open) ==
  LET lots == BaseLots(s, maxRisk) * Multiplier(s.pair, open)
  IN  IF Multiplier(s.pair, open) = 200 THEN BaseLots(s, maxRisk)
      ELSE IF s.pair \in Crypto THEN lots \div 200 ELSE 100 * (lots \div 20000)

MinLots(pair) == IF pair \in Crypto THEN 1 ELSE 100 * MinUnits

\* The size, 0 if the order is refused.  A crypto order below the minimum is raised to
\* it, unless that doubles the risk.
Lots(s, maxRisk, open) ==
  LET lots == Min({Reduced(s, maxRisk, open), 100 * MaxUnits})
      snaps == /\ s.pair \in Crypto /\ lots < 1 /\ s.distance > 0
               /\ Budget(s, maxRisk) > 0 /\ LosesAtMost(s, 1, 2 * Budget(s, maxRisk))
  IN  IF ~Meaningful(s, maxRisk) THEN 0
      ELSE IF lots >= MinLots(s.pair) THEN lots
      ELSE IF snaps THEN 1 ELSE 0

\* risk_amount_usd of the order, as a number of lots times the multiplier: the
\* correlation scales it without rounding; the cap and the minimum compute it anew.
ReportedLots(s, maxRisk, open) ==
  IF Reduced(s, maxRisk, open) > 100 * MaxUnits \/ Lots(s, maxRisk, open) # Reduced(s, maxRisk, open)
  THEN 200 * Lots(s, maxRisk, open)
  ELSE BaseLots(s, maxRisk) * Multiplier(s.pair, open)
================================================================================
