------------------------------- MODULE Strategy -------------------------------
(***************************************************************************)
(* What the AI brain computes from one snapshot of the market: the vote of   *)
(* the quantitative strategies, the two filters of the higher time frames,   *)
(* what makes an answer of the model valid, the adjusted confidence, and     *)
(* the rules that stand in for a model that does not answer.                 *)
(*                                                                           *)
(* BUY and SELL mirror each other throughout: a number is taken with the     *)
(* sign of the direction, an RSI as 100 minus itself for SELL.  Prices are   *)
(* levels, of which only the order counts; scores are in percent,            *)
(* confidences in hundredths of a percent, as the adjustments need them.     *)
(***************************************************************************)
EXTENDS Integers, FiniteSetsExt, Sequences

CONSTANTS
  Pairs, Crypto,
  H4Pairs, D1Pairs,      \* _H4_FILTERED_PAIRS, _D1_FILTERED_PAIRS
  TokyoPairs,            \* _TOKYO_PAIRS
  SpreadWarn, SpreadReject,  \* per pair: _SPREAD_WARN, _SPREAD_REJECT
  MinStop, MinTarget     \* per pair: the least distance of stop and target, in pips

ASSUME StrategyAssumption ==
  /\ Crypto \cup H4Pairs \cup D1Pairs \cup TokyoPairs \subseteq Pairs
  /\ \A f \in {SpreadWarn, SpreadReject, MinStop, MinTarget} : f \in [Pairs -> Nat]

Directions == {"BUY", "SELL"}
Other(d) == IF d = "BUY" THEN "SELL" ELSE "BUY"

\* A snapshot, as far as a decision depends on it.  band: the price's distance from the
\* Bollinger mid, in percent of half the bands' width; hist: the MACD histogram, 2 and -2
\* if it is strong against its signal line; h4, d1: what the higher time frame shows, "none" if
\* its candles are missing or too few, "flat" if the averages are equal, h4 "weak" if its ADX
\* is low; news: the events ahead; losses: how many of the pair's last trades were lost in a row.
Market == [pair : Pairs, hour : 0..23, price : Nat, ema20 : Nat, ema50 : Nat, ema200 : Nat,
           band : Int, rsi : 0..100, hist : -2..2, adx : Nat,
           h4 : {"none", "weak", "flat", "up", "down"}, d1 : {"none", "flat", "up", "down"},
           spread : Nat, news : Seq([impact : {"HIGH", "MEDIUM"}, minutes : Nat]), losses : 0..3]

Above(d, x, y) == IF d = "BUY" THEN x > y ELSE x < y
Signed(d, x) == IF d = "BUY" THEN x ELSE -x
Rsi(m, d) == IF d = "BUY" THEN m.rsi ELSE 100 - m.rsi

----------------------------------------------------------------------------
(* The quantitative engine *)

Aligned(m, d) == Above(d, m.ema20, m.ema50) /\ Above(d, m.ema50, m.ema200)

\* _ema_trend_crossover: the averages in order, or the first two of them.
EmaTrend(m, d) ==
  IF 0 \in {m.ema20, m.ema50, m.ema200} THEN 0
  ELSE IF Aligned(m, d) /\ Above(d, m.price, m.ema200)
       THEN IF Above(d, m.price, m.ema20) THEN 85 ELSE 65
  ELSE IF Above(d, m.ema20, m.ema50) /\ Above(d, m.price, m.ema50) THEN 45
  ELSE 0

\* _bollinger_mean_reversion: back from the band.
BandReversal(m, d) ==
  IF Signed(d, m.band) <= -85 /\ Rsi(m, d) < 35
  THEN IF Rsi(m, d) < 25 THEN 75 ELSE 55
  ELSE 0

\* _momentum_breakout
Momentum(m, d) ==
  IF Signed(d, m.hist) > 0 /\ Rsi(m, d) \in 46..71
  THEN IF Signed(d, m.hist) = 2 THEN 70 ELSE 45
  ELSE 0

\* The strategies of the regime: none fades a trend, none follows a range.
Active(m) ==
  {"MOMENTUM"} \cup (IF m.adx >= 25 \/ m.adx = 0 THEN {"EMA_TREND"} ELSE {})
               \cup (IF m.adx < 25 THEN {"BB_REVERT"} ELSE {})

Score(s, m, d) ==
  CASE s = "EMA_TREND" -> EmaTrend(m, d)
    [] s = "BB_REVERT" -> BandReversal(m, d)
    [] OTHER -> Momentum(m, d)

Voters(m, d) == {s \in Active(m) : Score(s, m, d) > 0}
Total(m, d) == MapThenSumSet(LAMBDA s : Score(s, m, d), Voters(m, d))
Strong(m, d) == \E s \in Voters(m, d) : Score(s, m, d) >= 65

\* evaluate: two strategies that outweigh the others, a strong one that none opposes, or a
\* strong one on the heavier side.  No two directions qualify.
Favours(m, d) ==
  LET ahead == Total(m, d) - Total(m, Other(d))
  IN  \/ Cardinality(Voters(m, d)) >= 2 /\ ahead > 0
      \/ Strong(m, d) /\ (Voters(m, Other(d)) = {} \/ ahead > 4)
Quant(m) == IF \E d \in Directions : Favours(m, d)
            THEN CHOOSE d \in Directions : Favours(m, d) ELSE "HOLD"

----------------------------------------------------------------------------
(* The higher time frames *)

Trend(d) == IF d = "BUY" THEN "up" ELSE "down"

\* compute_h4_trend_filter and compute_d1_trend_filter: what they do not know, they block.
H4Admits(m, d) == m.pair \in H4Pairs => m.h4 = Trend(d)
D1Admits(m, d) == m.pair \in D1Pairs => m.d1 = Trend(d)
Admits(m, d) == H4Admits(m, d) /\ D1Admits(m, d)

----------------------------------------------------------------------------
(* The model's answer *)

\* An answer that can be read: off is the distance of its entry from the live price, in
\* thousandths; stop and target are in pips from the entry, on the side where they belong;
\* one without a target is "trailing".
Answer == [action : Directions \cup {"HOLD"}, conf : 0..100, off : Nat, stop : Int,
           target : Int, trailing : BOOLEAN]

\* AIOutputValidator.validate, from step 4 on: half a percent, and a reward of 1.5 risks.
Valid(a, pair) ==
  a.action # "HOLD" =>
    /\ a.stop > 0 /\ a.off <= 5 /\ a.stop >= MinStop[pair]
    /\ ~a.trailing => 2 * a.target >= 3 * a.stop /\ a.target >= MinTarget[pair]

\* _check_h4_trend_alignment, for an answer that has seen no chart: not against three
\* averages in order.
AgainstTrend(m, d) == 0 \notin {m.ema20, m.ema50, m.ema200} /\ Aligned(m, Other(d))

----------------------------------------------------------------------------
(* Confidence *)

\* _indicator_alignment: how many of five indicators confirm the direction.
Confirms(m, d) ==
  Cardinality({i \in 1..5 : <<Rsi(m, d) < 70, Signed(d, m.hist) > 0, Above(d, m.ema20, m.ema50),
                              Above(d, m.ema50, m.ema200), Signed(d, m.band) > 0>>[i]})
Weak(m, d) == Confirms(m, d) < 2

\* _news_proximity: the first event that is near enough counts.
NewsOf(e) ==
  IF e.minutes = 0 THEN 0
  ELSE IF e.impact = "HIGH"
       THEN IF e.minutes <= 30 THEN -2500 ELSE IF e.minutes <= 60 THEN -1500 ELSE 0
       ELSE IF e.minutes <= 15 THEN -1000 ELSE 0
NewsProximity(m) ==
  LET near == {i \in DOMAIN m.news : NewsOf(m.news[i]) < 0}
  IN  IF near = {} THEN 0 ELSE NewsOf(m.news[Min(near)])

\* get_current_session and _session_quality.
Session(hour) ==
  IF hour \in 13..15 THEN "OVERLAP" ELSE IF hour \in 7..12 THEN "LONDON"
  ELSE IF hour \in 16..20 THEN "NEW_YORK" ELSE IF hour \in 0..5 THEN "TOKYO" ELSE "OTHER"
SessionQuality(m) ==
  CASE m.pair \in Crypto -> 0
    [] m.pair \notin Crypto /\ Session(m.hour) = "OVERLAP" -> 500
    [] m.pair \notin Crypto /\ Session(m.hour) = "OTHER" -> -1000
    [] m.pair \notin Crypto \cup TokyoPairs /\ Session(m.hour) = "TOKYO" -> -500
    [] OTHER -> 0

SpreadPenalty(m) ==
  IF m.spread > SpreadReject[m.pair] THEN -9990000
  ELSE IF m.spread > SpreadWarn[m.pair] THEN -500 ELSE 0

\* Only three trades are looked at: neither the tier of five losses nor
\* _recent_pair_performance, which needs five trades, ever applies.
LossPenalty(m) == IF m.losses >= 3 THEN -1000 ELSE 0

\* The factor of the alignment, of a raw confidence in whole percents.
Scaled(m, d, conf) == conf * (IF Confirms(m, d) >= 3 THEN 100 ELSE IF Weak(m, d) THEN 75 ELSE 90)
Additions(m) == NewsProximity(m) + SessionQuality(m) + SpreadPenalty(m) + LossPenalty(m)
Full == 10000   \* all of it
Clamp(x, top) == IF x < 0 THEN 0 ELSE IF x > top THEN top ELSE x

\* (mutant of Adjusted: the cap comes before the other adjustments)
AdjustedCappedFirst(m, d, conf) ==
  Clamp(Clamp(Scaled(m, d, conf), IF Weak(m, d) THEN 6400 ELSE Full) + Additions(m), Full)
\* ConfidenceAdjuster.adjust: last of all, fewer than two confirmations cap it at 0.64.
Adjusted(m, d, conf) ==
  Clamp(Scaled(m, d, conf) + Additions(m), IF Weak(m, d) THEN 6400 ELSE Full)

----------------------------------------------------------------------------
(* Without the model *)

\* RuleBasedFallback.generate: with the averages, against an extreme; it says 0.70, and
\* nothing adjusts it.
Fallback(m) ==
  LET fits(d) == Above(d, m.ema50, m.ema200) /\ Rsi(m, d) < 30
  IN  IF \E d \in Directions : fits(d) THEN CHOOSE d \in Directions : fits(d) ELSE "HOLD"
FallbackConfidence == 7000
================================================================================
