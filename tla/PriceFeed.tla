------------------------------- MODULE PriceFeed ------------------------------
(***************************************************************************)
(* The prices of one pair: the stream, its REST fallback, the snapshot's own *)
(* request, and the validator's memory, which all of them feed.              *)
(*                                                                           *)
(* A price is an integer; the validator compares squares, so that mean and   *)
(* deviation stay exact.                                                     *)
(***************************************************************************)
EXTENDS Integers, Sequences, SequencesExt

CONSTANTS
  Prices, MaxMoves,     \* what the market may quote, how often it moves (a bound)
  RollingWindow,        \* ticks needed to judge one
  MaxLen,               \* ticks remembered
  SpikeMultiplier,      \* deviations from the mean that make a spike
  ResetThreshold,       \* consecutive spikes that empty the memory
  MaxStreamFailures

ASSUME PriceFeedAssumption ==
  /\ Prices \subseteq Int
  /\ {RollingWindow, MaxLen, SpikeMultiplier, ResetThreshold, MaxStreamFailures} \subseteq Nat \ {0}
  /\ MaxMoves \in Nat

VARIABLES
  level, moves,   \* what the market quotes, how often it has moved
  fallback,       \* _using_rest_fallback
  streamFailures, \* _stream_failures
  latest,         \* _latest_ticks: the last tick, if any, and whether it is at most 5 s old
  memory,         \* _price_history
  spikes,         \* _consecutive_spikes
  spiking,        \* was the last tick validated a spike
  snapshot        \* the last snapshot: none, tradeable, refused

prices == <<level, moves, fallback, streamFailures, latest, memory, spikes, spiking, snapshot>>

PriceTick == [price : Prices, fresh : BOOLEAN]

PriceFeedTypeOK ==
  /\ level \in Prices /\ moves \in 0..MaxMoves
  /\ fallback \in BOOLEAN /\ streamFailures \in 0..MaxStreamFailures
  /\ latest \in PriceTick \cup {<<>>}
  /\ memory \in Seq(Prices) /\ Len(memory) <= MaxLen
  /\ spikes \in 0..ResetThreshold - 1 /\ spiking \in BOOLEAN
  /\ snapshot \in {"none", "tradeable", "refused"}

PriceFeedInit ==
  /\ level \in Prices /\ moves = 0
  /\ fallback = FALSE /\ streamFailures = 0 /\ latest = <<>>
  /\ memory = <<>> /\ spikes = 0 /\ spiking = FALSE
  /\ snapshot = "none"

Total(s) == FoldSeq(LAMBDA x, sum : sum + x, 0, s)
Square(x) == x * x
\* n * n times the variance of the n prices of s.
Spread(s) == Len(s) * FoldSeq(LAMBDA x, sum : sum + Square(x), 0, s) - Square(Total(s))

\* _check_spike: enough ticks, and not all the same.
IsSpike(p) ==
  /\ Len(memory) >= RollingWindow
  /\ Spread(memory) # 0
  /\ Square(Len(memory) * p - Total(memory)) > Square(SpikeMultiplier) * Spread(memory)

Remembered(p) ==
  LET longer == Append(memory, p)
  IN  IF Len(longer) > MaxLen THEN Tail(longer) ELSE longer

\* (mutant of Outlier: the count starts again, the memory stays)
OutlierKept ==
  IF spikes + 1 < ResetThreshold
  THEN spikes' = spikes + 1 /\ spiking' = TRUE /\ UNCHANGED memory
  ELSE spikes' = 0 /\ spiking' = FALSE /\ UNCHANGED memory
\* A spike is not remembered; one too many empties the memory and passes.
Outlier ==
  IF spikes + 1 < ResetThreshold
  THEN spikes' = spikes + 1 /\ spiking' = TRUE /\ UNCHANGED memory
  ELSE spikes' = 0 /\ spiking' = FALSE /\ memory' = <<>>

\* validate_tick
Validate(p) ==
  IF IsSpike(p) THEN Outlier
  ELSE memory' = Remembered(p) /\ spikes' = 0 /\ spiking' = FALSE

\* A quote reaches the engine, at once or late, and stream_task validates it.
Arrives ==
  /\ \E fresh \in BOOLEAN : latest' = [price |-> level, fresh |-> fresh]
  /\ Validate(level)
  /\ UNCHANGED <<level, moves, fallback, snapshot>>

StreamTick == ~fallback /\ streamFailures' = 0 /\ Arrives

\* The stream raises: after the last of too many failures without a tick, REST for good.
StreamBreaks ==
  /\ ~fallback
  /\ streamFailures' = streamFailures + 1
  /\ fallback' = (streamFailures' >= MaxStreamFailures)
  /\ UNCHANGED <<level, moves, latest, memory, spikes, spiking, snapshot>>

RestTick == fallback /\ UNCHANGED streamFailures /\ Arrives

\* More than 5 s pass.
Ages ==
  /\ latest # <<>> /\ latest.fresh
  /\ latest' = [latest EXCEPT !.fresh = FALSE]
  /\ UNCHANGED <<level, moves, fallback, streamFailures, memory, spikes, spiking, snapshot>>

Move ==
  /\ moves < MaxMoves /\ moves' = moves + 1
  /\ level' \in Prices
  /\ UNCHANGED <<fallback, streamFailures, latest, memory, spikes, spiking, snapshot>>

\* What the candles of the four time frames may be, and which are good enough: gaps are
\* put down to quiet markets.
Candles == {"complete", "with gaps", "inconsistent"}
Usable(candles) == candles # "inconsistent"

\* _build_snapshot: the last tick if fresh, else a quote of the moment, stamped now; it is
\* validated, again or for the first time, before the candles are fetched.
UsesLast == latest # <<>> /\ latest.fresh
Quote == IF UsesLast THEN latest.price ELSE level
Assembled ==
  \E candles \in Candles, wide \in BOOLEAN :
    snapshot' = IF ~spiking' /\ ~wide /\ Usable(candles) THEN "tradeable" ELSE "refused"
CandlesMissing == snapshot' = "none"
Snapshot ==
  /\ Validate(Quote)
  /\ Assembled \/ CandlesMissing
  /\ UNCHANGED <<level, moves, fallback, streamFailures, latest>>

\* The request for the quote fails.
NoSnapshot ==
  /\ ~UsesLast
  /\ snapshot' = "none"
  /\ UNCHANGED <<level, moves, fallback, streamFailures, latest, memory, spikes, spiking>>

PriceFeedNext ==
  StreamTick \/ StreamBreaks \/ RestTick \/ Ages \/ Move \/ Snapshot \/ NoSnapshot

PriceFeedSpec == PriceFeedInit /\ [][PriceFeedNext]_prices

\* The scan goes on and the broker answers it now and then; the stream may hang.
PriceFeedFairness == WF_prices(Snapshot)

(***************************************************************************)
(* Properties.                                                              *)
(***************************************************************************)

\* A market that has moved, and stays, is accepted for good, however far it went, also when
\* the stream hangs and when several snapshots judge the same tick (validator.py:45-49).
SpikesEnd == <>[]~spiking

\* Refuted: emptied by a reset, the memory holds the price that was accepted then
\* (validator.py:73: "reset baseline to current price").
ResetKeepsPrice == [][memory' = <<>> => memory = <<>>]_prices
================================================================================
