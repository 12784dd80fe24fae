------------------------------ MODULE SignalLoop ------------------------------
(***************************************************************************)
(* The signal loop of the orchestrator and the risk engine it calls: the     *)
(* hours, the pairs in turn, the scan, the evaluation with its queries, and  *)
(* the order.  While each of them waits, positions and rows close, the       *)
(* reconcilers write rows, the dashboard changes the settings, time passes.  *)
(*                                                                           *)
(* The kill switch, the loss limits and the circuit breaker have modules of  *)
(* their own: here they end a scan or an evaluation at any time.  The clock  *)
(* counts in units of the cooldown, a few minutes, and stands still while an *)
(* evaluation runs, which takes seconds (its order expires after 30).        *)
(***************************************************************************)
EXTENDS PositionSizing, Sequences, FiniteSets

CONSTANTS
  PairList,      \* config.pairs, in order
  LivePairs,     \* config.live_pairs
  Settings,      \* rows of the dashboard's settings that parse; keys may be missing
  Defaults,      \* the settings of a fresh LumitradeConfig
  Confs, Balances, Quotes,  \* what scanner and broker may report; a quote is a pair's entry
                 \* price and its distance from the stop
  Ceiling,       \* max_confidence, in percent
  Cooldown,      \* trade_cooldown_minutes, in units of the clock
  RejectFor,     \* BROKER_REJECT_COOLDOWN_SECONDS, in units of the clock
  Slots,         \* bound: trades at a time
  MaxFaults      \* bound: fills that are not saved

Keys == {"maxOpen", "maxPerPair", "minConf", "maxRisk", "mode"}
Config == [maxOpen : Nat, maxPerPair : Nat, minConf : Nat, maxRisk : Nat, mode : {"LIVE", "PAPER"}]

ASSUME ConstantsAssumption ==
  /\ Pairs # {} /\ PairList \in Seq(Pairs) /\ LivePairs \subseteq Pairs
  /\ Defaults \in Config /\ Defaults.mode = "PAPER"
  /\ \A row \in Settings : /\ DOMAIN row \subseteq Keys
                           /\ \A k \in DOMAIN row \ {"mode"} : row[k] \in Nat
                           /\ "mode" \in DOMAIN row => row["mode"] \in {"LIVE", "PAPER"}
  /\ Confs \subseteq 0..100 /\ Balances \subseteq Nat
  /\ \A p \in Pairs : Quotes[p] \subseteq [entry : Nat \ {0}, distance : Nat]
  /\ Ceiling \in 0..100 /\ Cooldown \in Nat \ {0} /\ RejectFor \in Nat
  /\ IsFiniteSet(Slots) /\ MaxFaults \in Nat

VARIABLES
  period,   \* "session", "late" (17 UTC and later) or "weekend" (closed, before 17 UTC)
  trade,    \* positions and rows: see Trade
  config,   \* what _load_user_settings has committed
  rejected, \* _broker_reject_until: units left, per pair
  pc, todo, \* where the loop stands, and the pairs it has left, the current one first
  early,    \* current_hour < 17, as read at the head of the scan
  read,     \* the mode in the row this evaluation has read; "none" if none
  sized,    \* the proposal, from the checks to the order
  order,    \* the approved size, and the risk it is said to have
  faults

loop == <<pc, todo, early, read, sized, order>>
vars == <<period, trade, config, rejected, loop, faults>>

\* A trade: its row ("none", "open" or "closed") and the row's mode, whether its position
\* is held at the broker, and the age of the row's closed_at.
Trade == [pair : Pairs, row : {"none", "open", "closed"}, mode : {"LIVE", "PAPER"},
          held : BOOLEAN, age : 0..(Cooldown - 1)]
Free == [pair |-> CHOOSE p \in Pairs : TRUE, row |-> "none", mode |-> "PAPER",
         held |-> FALSE, age |-> 0]
NoSize == [pair |-> CHOOSE p \in Pairs : TRUE, conf |-> 0, balance |-> 0, entry |-> 0, distance |-> 0]
Orders == [lots : Nat, reported : Nat]
NoOrder == [lots |-> 0, reported |-> 0]

TypeOK ==
  /\ period \in {"session", "late", "weekend"}
  /\ trade \in [Slots -> Trade]
  /\ config \in Config
  /\ rejected \in [Pairs -> 0..RejectFor]
  /\ pc \in {"head", "pairs", "scanning", "loading", "counting", "counting pair", "cooling",
             "correlating", "ordering"}
  /\ todo \in Seq(Pairs) /\ (pc \notin {"head", "pairs"} => todo # <<>>)
  /\ early \in BOOLEAN /\ read \in {"none", "LIVE", "PAPER"}
  /\ sized \in Sizeable \cup {NoSize}
  /\ order \in Orders /\ faults \in 0..MaxFaults

Init ==
  /\ period = "session" /\ trade = [s \in Slots |-> Free] /\ config = Defaults
  /\ rejected = [p \in Pairs |-> 0]
  /\ pc = "head" /\ todo = <<>> /\ early = FALSE /\ read = "none"
  /\ sized = NoSize /\ order = NoOrder /\ faults = 0

pair == Head(todo)
Evaluating == pc \in {"loading", "counting", "counting pair", "cooling", "correlating", "ordering"}

----------------------------------------------------------------------------
(* Around the loop *)

\* A position is closed at the broker: by its stop, the monitor, the operator.
PositionCloses(s) ==
  /\ trade[s].held
  /\ trade' = [trade EXCEPT ![s] = IF trade[s].row = "none" THEN Free
                                   ELSE [trade[s] EXCEPT !.held = FALSE]]
  /\ UNCHANGED <<period, config, rejected, loop, faults>>

\* The monitor or a reconciler closes a row, at closed_at; an old one plays no part.
RowCloses(s, age) ==
  /\ trade[s].row = "open" /\ ~trade[s].held
  /\ trade' = [trade EXCEPT ![s] = IF age >= Cooldown THEN Free
                                   ELSE [trade[s] EXCEPT !.row = "closed", !.age = age]]
  /\ UNCHANGED <<period, config, rejected, loop, faults>>

\* A reconciler finds a position without a row and writes one of mode PAPER.
PhantomFound(s) ==
  /\ trade[s].held /\ trade[s].row = "none"
  /\ trade' = [trade EXCEPT ![s].row = "open", ![s].mode = "PAPER"]
  /\ UNCHANGED <<period, config, rejected, loop, faults>>

\* A closed row past the cooldown plays no part any more.
Older(t) ==
  IF t.row # "closed" THEN t
  ELSE IF t.age + 1 >= Cooldown THEN Free ELSE [t EXCEPT !.age = t.age + 1]
\* The late hours outlast the scan of a pair.
After(p) == IF p = "late" /\ pc # "scanning" THEN {"late", "session", "weekend"} ELSE {p, "late"}

Tick ==
  /\ ~Evaluating
  /\ period' \in After(period)
  /\ trade' = [s \in Slots |-> Older(trade[s])]
  /\ rejected' = [p \in Pairs |-> IF rejected[p] = 0 THEN 0 ELSE rejected[p] - 1]
  /\ UNCHANGED <<config, loop, faults>>

----------------------------------------------------------------------------
(* _signal_to_trade_loop *)

\* A scan begins, unless kill switch, weekday or daily limit forbid it.  Without a crypto
\* pair it needs the market and an hour before 17 UTC.
StartScan ==
  /\ pc = "head"
  /\ Crypto # {} \/ period = "session"
  /\ pc' = "pairs" /\ todo' = PairList /\ early' = (period # "late")
  /\ UNCHANGED <<period, trade, config, rejected, read, sized, order, faults>>

EndScan ==
  /\ pc = "pairs" /\ todo = <<>> /\ pc' = "head" /\ early' = FALSE
  /\ UNCHANGED <<period, trade, config, rejected, todo, read, sized, order, faults>>

\* The loop is through with a pair.
Leave ==
  /\ pc' = "pairs" /\ todo' = Tail(todo)
  /\ read' = "none" /\ sized' = NoSize /\ order' = NoOrder

\* A pair outside its hours or after a rejection is passed over; the hour is the scan's,
\* the market's state of now: on a late hour it may be either.
TakePair ==
  /\ pc = "pairs" /\ todo # <<>>
  /\ \/ /\ pair \in Crypto \/ (early /\ period # "weekend")
        /\ rejected[pair] = 0
        /\ pc' = "scanning"
        /\ UNCHANGED <<todo, read, sized, order>>
     \/ /\ rejected[pair] > 0 \/ (pair \notin Crypto /\ (~early \/ period # "session"))
        /\ Leave
  /\ UNCHANGED <<period, trade, config, rejected, early, faults>>

\* (mutant of Distrusted: the mode stays what it was until a row is read)
Trusted == config
\* _load_user_settings begins by falling back to PAPER.
Distrusted == [config EXCEPT !.mode = "PAPER"]

\* Scanner, consensus and the broker's balance lead to nothing, or to an evaluation.
Scan ==
  /\ pc = "scanning"
  /\ \/ Leave /\ UNCHANGED config
     \/ pc' = "loading" /\ config' = Distrusted /\ UNCHANGED <<todo, read, sized, order>>
  /\ UNCHANGED <<period, trade, rejected, early, faults>>

----------------------------------------------------------------------------
(* RiskEngine.evaluate *)

\* What a row commits: a missing number stays as it is, a missing mode is PAPER.
Committed(row) ==
  [k \in Keys |-> IF k \in DOMAIN row THEN row[k]
                  ELSE IF k = "mode" THEN "PAPER" ELSE config[k]]
Allowed(mode) == IF mode = "LIVE" THEN LivePairs ELSE {PairList[i] : i \in DOMAIN PairList}

\* The settings are read, or not: a failing read, no row, a row that does not parse.  Then
\* the allow-list or the risk state may reject.
Load ==
  /\ pc = "loading"
  /\ \E row \in Settings, good \in BOOLEAN :
       /\ config' = IF good THEN Committed(row) ELSE config
       /\ \/ /\ pair \in Allowed(config'.mode)
             /\ pc' = "counting" /\ read' = (IF good THEN config'.mode ELSE "none")
             /\ UNCHANGED <<todo, sized, order>>
          \/ Leave
  /\ UNCHANGED <<period, trade, rejected, early, faults>>

\* What a count sees: in LIVE mode the rows of mode LIVE.
OpenRows == {s \in Slots : trade[s].row = "open"}
Counted == {s \in OpenRows : config.mode = "LIVE" => trade[s].mode = "LIVE"}

\* (mutant of Below: the limit itself is still below the limit)
AtMost(rows, max) == Cardinality(rows) <= max
Below(rows, max) == Cardinality(rows) < max

\* A query that may fail, which rejects.
Passes(check, next) ==
  /\ \/ check /\ pc' = next /\ UNCHANGED <<todo, read, sized, order>>
     \/ Leave
  /\ UNCHANGED <<period, trade, config, rejected, early, faults>>

CountOpen == pc = "counting" /\ Passes(Below(Counted, config.maxOpen), "counting pair")
CountPair ==
  /\ pc = "counting pair"
  /\ Passes(Below({s \in Counted : trade[s].pair = pair}, config.maxPerPair), "cooling")

\* (mutant of Recent: the last unit of the cooldown is left out)
RecentBut(t) == t.row = "closed" /\ t.age < Cooldown - 1
\* A row whose closed_at is within the cooldown.
Recent(t) == t.row = "closed"

\* (mutant of HourAllowed: no check of the hour)
AnyHour == TRUE
\* no_trade_hours_utc, for the hour of now.
HourAllowed == pair \in Crypto \/ period # "late"

ConfidenceAllowed(conf, cautious) ==
  /\ conf >= (IF cautious THEN config.minConf + 10 ELSE config.minConf)
  /\ conf <= Ceiling

\* The cooldown's query, which looks at rows of every mode, and the checks after it, for
\* which nothing waits.  Spread, news, reward to risk, stop and action may reject too.
CoolAndCheck ==
  /\ pc = "cooling"
  /\ \/ /\ \A s \in Slots : trade[s].pair = pair => ~Recent(trade[s])
        /\ HourAllowed
        /\ \E conf \in Confs, balance \in Balances, q \in Quotes[pair], cautious \in BOOLEAN :
             /\ ConfidenceAllowed(conf, cautious)
             /\ sized' = [pair |-> pair, conf |-> conf, balance |-> balance,
                          entry |-> q.entry, distance |-> q.distance]
        /\ pc' = "correlating" /\ UNCHANGED <<todo, read, order>>
     \/ Leave
  /\ UNCHANGED <<period, trade, config, rejected, early, faults>>

\* The size.  If the open pairs cannot be read, there are none.
Size ==
  /\ pc = "correlating"
  /\ \E open \in {{trade[s].pair : s \in OpenRows}, {}} :
       LET lots == Lots(sized, config.maxRisk, open)
       IN  IF lots > 0
           THEN /\ order' = [lots |-> lots, reported |-> ReportedLots(sized, config.maxRisk, open)]
                /\ pc' = "ordering" /\ UNCHANGED <<todo, read, sized>>
           ELSE Leave
  /\ UNCHANGED <<period, trade, config, rejected, early, faults>>

----------------------------------------------------------------------------
(* execute_order, by its outcomes *)

\* It returns None: a kill, the breaker, a rejection, an exception.
Refused ==
  /\ pc = "ordering" /\ Leave
  /\ rejected' = [rejected EXCEPT ![pair] = RejectFor]
  /\ UNCHANGED <<period, trade, config, early, faults>>

Filled(s) ==
  /\ pc = "ordering" /\ trade[s] = Free /\ Leave
  /\ trade' = [trade EXCEPT ![s] = [Free EXCEPT !.pair = pair, !.row = "open", !.mode = config.mode,
                                                !.held = (config.mode = "LIVE")]]
  /\ UNCHANGED <<period, config, rejected, early, faults>>

\* The broker fills the order, and no row is saved: the insert fails, or the reply is lost
\* and the pair counts as rejected.
FilledUnsaved(s) ==
  /\ pc = "ordering" /\ config.mode = "LIVE" /\ trade[s] = Free /\ Leave
  /\ faults < MaxFaults /\ faults' = faults + 1
  /\ trade' = [trade EXCEPT ![s] = [Free EXCEPT !.pair = pair, !.held = TRUE]]
  /\ rejected' \in {rejected, [rejected EXCEPT ![pair] = RejectFor]}
  /\ UNCHANGED <<period, config, early>>

----------------------------------------------------------------------------
Others == \E s \in Slots : \/ PositionCloses(s)
                           \/ \E age \in 0..Cooldown : RowCloses(s, age)
                           \/ PhantomFound(s)
Loop == StartScan \/ EndScan \/ TakePair \/ Scan
Evaluate == Load \/ CountOpen \/ CountPair \/ CoolAndCheck \/ Size
Execute == Refused \/ \E s \in Slots : Filled(s) \/ FilledUnsaved(s)
Next == Others \/ Tick \/ Loop \/ Evaluate \/ Execute

Spec == Init /\ [][Next]_vars

----------------------------------------------------------------------------
(* Properties *)

Held == {s \in Slots : trade[s].held}
HeldByRow == {s \in Held : trade[s].row = "open" /\ trade[s].mode = "LIVE"}
Opens(s) == ~trade[s].held /\ trade'[s].held

\* When the loop opens a live position, those that have a live row, the new one included,
\* are within the limits the dashboard had set, for the account and for the pair,
\* whatever happened since the counts (engine.py:391-445 of the risk engine).
SlotsHold ==
  [][\A s \in Slots : Opens(s) =>
       /\ Cardinality(HeldByRow') <= config.maxOpen
       /\ Cardinality({t \in HeldByRow' : trade'[t].pair = pair}) <= config.maxPerPair]_vars

\* With one position per pair, none is opened within the cooldown of a live row of its
\* pair: a row that closes during the evaluation was still open when it was counted
\* (engine.py:85-101 of the risk engine, in this order).
CooldownHolds ==
  [][\A s \in Slots : (Opens(s) /\ config.maxPerPair = 1) =>
       \A t \in Slots : ~(trade[t].pair = pair /\ trade[t].mode = "LIVE" /\ trade[t].row = "closed")]_vars

\* No forex position is opened out of hours, though the hour the loop filters by may be
\* that of long ago (main.py:581, 636-648; engine.py:544-560 of the risk engine).
OrdersInHours ==
  [][\A s \in Slots : (Opens(s) /\ pair \notin Crypto) => period = "session"]_vars

\* A live order follows from a LIVE its own evaluation has read: "Never trust a stale LIVE
\* if Supabase is unreachable" (engine.py:794-795 of the risk engine).
NoStaleLive == [][\A s \in Slots : Opens(s) => read = "LIVE"]_vars

\* An order loses at its stop what its confidence allows, a crypto order at most twice
\* that; and risk_amount_usd understates no order's loss.  The tiers are those of the code,
\* 3% and 2% (engine.py:755-758 of the risk engine), not those of its docstring: see
\* DocumentedTiers.
RiskIsBounded ==
  pc = "ordering" =>
    LET budget == Budget(sized, config.maxRisk)
    IN  /\ LosesAtMost(sized, order.lots, IF pair \in Crypto THEN 2 * budget ELSE budget)
        /\ 200 * order.lots <= order.reported

\* "Limits real-money exposure to 5 concurrent trades" (config.py:116).
ExposureWithinLimit ==
  [][\A s \in Slots : Opens(s) => Cardinality(Held') <= config.maxOpen]_vars

\* "confidence >= 0.80 -> 1.0%, else -> 0.5%" (engine.py:736-738 of the risk engine).
DocumentedTiers ==
  (pc = "ordering" /\ pair \notin Crypto) =>
    LosesAtMost(sized, order.lots, sized.balance * (IF sized.conf >= 80 THEN 10 ELSE 5))

\* "BTC exception: hard-capped at 0.5%" (engine.py:741 of the risk engine).
CryptoRiskCapped ==
  (pc = "ordering" /\ pair \in Crypto) => LosesAtMost(sized, order.lots, Budget(sized, config.maxRisk))

\* The raised threshold admits some signal: "CAUTIOUS state, signal above raised threshold:
\* Returns ApprovedOrder" (Lumitrade_QTS_v2.0.md:662).
CautionAdmits == \E conf \in 0..100 : ConfidenceAllowed(conf, TRUE)
================================================================================
