-------------------------------- MODULE MCScan --------------------------------
(* Instances of Scan for TLC. *)
EXTENDS Scan, TLC

Up(p) == [pair |-> p, hour |-> 16, price |-> 5, ema20 |-> 4, ema50 |-> 3, ema200 |-> 2,
          band |-> 40, rsi |-> 60, hist |-> 2, adx |-> 30, h4 |-> "up", d1 |-> "up",
          spread |-> 1, news |-> <<>>, losses |-> 0]
\* The opposite of a market.
Turned(m) == [m EXCEPT !.price = 6 - @, !.ema20 = 6 - @, !.ema50 = 6 - @, !.ema200 = 6 - @,
                       !.band = -@, !.rsi = 100 - @, !.hist = -@, !.h4 = "down", !.d1 = "down"]
\* Falling within a range, under averages in order: momentum sells, the rules would buy.
Falling(p) == [Up(p) EXCEPT !.price = 1, !.band = -90, !.rsi = 29, !.hist = -2, !.adx = 15,
                            !.h4 = "down", !.d1 = "down"]
Cases ==
  {[Up("CAD") EXCEPT !.spread = 3, !.news = <<[impact |-> "HIGH", minutes |-> 45]>>],
   [Turned(Up("CAD")) EXCEPT !.hour = 14], Falling("CAD"), Turned(Up("JPY")),
   [Falling("BTC") EXCEPT !.losses = 3, !.news = <<[impact |-> "MEDIUM", minutes |-> 10]>>]}

Ask(action, conf) == [action |-> action, conf |-> conf, off |-> 1, stop |-> 20, target |-> 0, trailing |-> TRUE]
Replies == {Ask("BUY", 95), [Ask("SELL", 95) EXCEPT !.trailing = FALSE, !.target = 30], Ask("HOLD", 50)}

Trade(setup, won) == [pair |-> "CAD", dir |-> "BUY", hour |-> 16, setup |-> setup, won |-> won]
Trades == {Trade("*", FALSE), Trade("low", FALSE), Trade("low", TRUE)}
London == [pair |-> "CAD", dir |-> "BUY", session |-> "LONDON", setup |-> "*"] :> "BOOST"
None == <<>>
Of(x, btc) == [p \in Pairs |-> IF p = "BTC" THEN btc ELSE x]
Warn == Of(2, 30)
Reject == Of(3, 50)
Least == Of(15, 20)
================================================================================
