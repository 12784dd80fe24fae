-------------------------- MODULE SignalLoop_proofs --------------------------
(***************************************************************************)
(* Proofs about SignalLoop, for any pairs, settings, limits and cooldowns,   *)
(* and any number of trades: a live order keeps the limits, the cooldown,    *)
(* the hours and the mode that its evaluation has read, though positions,    *)
(* rows and settings change between its queries.                             *)
(***************************************************************************)
EXTENDS SignalLoop, FiniteSetTheorems, SequenceTheorems, WellFoundedInduction, TLAPS

\* The trades, also if there is no pair at all.
Shape == [pair : Pairs \cup {Free.pair}, row : {"none", "open", "closed"}, mode : {"LIVE", "PAPER"},
          held : BOOLEAN, age : 0..(Cooldown - 1)]

GateTypes ==
  /\ period \in {"session", "late", "weekend"}
  /\ trade \in [Slots -> Shape]
  /\ config \in Config
  /\ pc \in {"head", "pairs", "scanning", "loading", "counting", "counting pair", "cooling",
             "correlating", "ordering"}
  /\ todo \in Seq(Pairs) /\ (pc \notin {"head", "pairs"} => todo # <<>>)

\* The hour as the loop and the evaluation have seen it still holds.
HourInv ==
  pair \notin Crypto =>
    /\ pc \notin {"head", "pairs"} => period # "weekend"
    /\ pc \in {"correlating", "ordering"} => period = "session"

\* Until a row of settings has been read the mode is PAPER.
ModeInv ==
  /\ pc = "loading" => config.mode = "PAPER"
  /\ (pc \notin {"head", "pairs", "scanning", "loading"} /\ config.mode = "LIVE") => read = "LIVE"

Live(tr) == {s \in Slots : tr[s].row = "open" /\ tr[s].mode = "LIVE"}
LiveOf(tr, p) == {s \in Slots : tr[s].row = "open" /\ tr[s].mode = "LIVE" /\ tr[s].pair = p}

\* What the counts have found below the limits stays below them.
CountInv ==
  config.mode = "LIVE" =>
    /\ pc \in {"counting pair", "cooling", "correlating", "ordering"}
         => Cardinality(Live(trade)) < config.maxOpen
    /\ pc \in {"cooling", "correlating", "ordering"}
         => Cardinality(LiveOf(trade, pair)) < config.maxPerPair

\* With one position per pair, the pair has no live row any more, open or just closed.
CoolInv ==
  (config.mode = "LIVE" /\ config.maxPerPair = 1 /\ pc \in {"correlating", "ordering"}) =>
    \A s \in Slots : (trade[s].pair = pair /\ trade[s].mode = "LIVE") => trade[s].row = "none"

GateInv == GateTypes /\ HourInv /\ ModeInv /\ CountInv /\ CoolInv

----------------------------------------------------------------------------
(* Rows and counts *)

LEMMA LiveRowsFinite ==
  ASSUME NEW tr, NEW p
  PROVE  /\ IsFiniteSet(Live(tr)) /\ Cardinality(Live(tr)) \in Nat
         /\ IsFiniteSet(LiveOf(tr, p)) /\ Cardinality(LiveOf(tr, p)) \in Nat
<1>1. IsFiniteSet(Slots)
  BY ConstantsAssumption DEF ConstantsAssumption
<1>2. IsFiniteSet(Live(tr)) /\ IsFiniteSet(LiveOf(tr, p))
  BY <1>1, FS_Subset DEF Live, LiveOf
<1> QED
  BY <1>2, FS_CardinalityType

\* Nobody but the loop makes a live row, or moves one to another pair.
NoNewLiveRow ==
  \A s \in Slots : (trade'[s].mode = "LIVE" /\ trade'[s].row # "none") =>
    /\ trade[s].mode = "LIVE" /\ trade[s].row # "none" /\ trade'[s].pair = trade[s].pair
    /\ trade'[s].row = "open" => trade[s].row = "open"

LEMMA FewerLiveRows ==
  ASSUME NoNewLiveRow, NEW p
  PROVE  /\ Cardinality(Live(trade')) <= Cardinality(Live(trade))
         /\ Cardinality(LiveOf(trade', p)) <= Cardinality(LiveOf(trade, p))
<1>1. Live(trade') \subseteq Live(trade) /\ LiveOf(trade', p) \subseteq LiveOf(trade, p)
  BY DEF Live, LiveOf, NoNewLiveRow
<1> QED
  BY <1>1, LiveRowsFinite, FS_Subset

LEMMA FreeFacts ==
  /\ Free \in Shape /\ Free.row = "none" /\ Free.mode = "PAPER" /\ Free.held = FALSE
BY ConstantsAssumption DEF Free, Shape, ConstantsAssumption

\* What goes on around the loop, one trade at a time.
LEMMA OthersTrade ==
  ASSUME GateTypes, Others
  PROVE  /\ trade' \in [Slots -> Shape] /\ NoNewLiveRow
         /\ UNCHANGED <<period, config, pc, todo, read>>
<1>1. PICK s \in Slots : \/ PositionCloses(s)
                         \/ \E age \in 0..Cooldown : RowCloses(s, age)
                         \/ PhantomFound(s)
  BY DEF Others
<1>2. trade \in [Slots -> Shape] /\ trade[s] \in Shape /\ Cooldown \in Nat \ {0}
  BY ConstantsAssumption DEF GateTypes, ConstantsAssumption
<1>3. UNCHANGED <<period, config, pc, todo, read>>
  BY <1>1 DEF PositionCloses, RowCloses, PhantomFound, loop
<1> DEFINE Goal(t) ==
        /\ trade' = [trade EXCEPT ![s] = t]
        /\ (t.mode = "LIVE" /\ t.row # "none") =>
             /\ trade[s].mode = "LIVE" /\ trade[s].row # "none" /\ t.pair = trade[s].pair
             /\ t.row = "open" => trade[s].row = "open"
<1>4. \E t \in Shape : Goal(t)
  <2>1. CASE PositionCloses(s)
    <3>1. CASE trade[s].row = "none"
      <4>1. Goal(Free)
        BY <2>1, <3>1, FreeFacts DEF PositionCloses
      <4> QED
        BY <4>1, FreeFacts
    <3>2. CASE trade[s].row # "none"
      <4> DEFINE t == [trade[s] EXCEPT !.held = FALSE]
      <4>1. t \in Shape /\ t.mode = trade[s].mode /\ t.row = trade[s].row /\ t.pair = trade[s].pair
        BY <1>2 DEF Shape
      <4>2. trade' = [trade EXCEPT ![s] = t]
        BY <2>1, <3>2 DEF PositionCloses
      <4>3. Goal(t)
        BY <4>1, <4>2
      <4> QED
        BY <4>1, <4>3
    <3> QED
      BY <3>1, <3>2
  <2>2. ASSUME NEW age \in 0..Cooldown, RowCloses(s, age) PROVE \E t \in Shape : Goal(t)
    <3>1. CASE age >= Cooldown
      <4>1. Goal(Free)
        BY <2>2, <3>1, FreeFacts DEF RowCloses
      <4> QED
        BY <4>1, FreeFacts
    <3>2. CASE ~(age >= Cooldown)
      <4> DEFINE t == [trade[s] EXCEPT !.row = "closed", !.age = age]
      <4>0. age \in 0..(Cooldown - 1)
        BY <1>2, <3>2
      <4>1. t \in Shape /\ t.mode = trade[s].mode /\ t.row = "closed" /\ t.pair = trade[s].pair
        BY <1>2, <4>0 DEF Shape
      <4>2. trade' = [trade EXCEPT ![s] = t] /\ trade[s].row = "open"
        BY <2>2, <3>2 DEF RowCloses
      <4>3. Goal(t)
        BY <4>1, <4>2
      <4> QED
        BY <4>1, <4>3
    <3> QED
      BY <3>1, <3>2
  <2>3. CASE PhantomFound(s)
    <3> DEFINE t == [trade[s] EXCEPT !.row = "open", !.mode = "PAPER"]
    <3>1. t \in Shape /\ t.mode = "PAPER"
      BY <1>2 DEF Shape
    <3>2. trade' = [trade EXCEPT ![s] = t]
      BY <1>2, <2>3 DEF PhantomFound
    <3>3. Goal(t)
      BY <3>1, <3>2
    <3> QED
      BY <3>1, <3>3
  <2> QED
    BY <1>1, <2>1, <2>2, <2>3
<1>5. PICK t \in Shape : Goal(t)
  BY <1>4
<1>6. trade' \in [Slots -> Shape]
  BY <1>2, <1>5
<1>7. NoNewLiveRow
  <2> SUFFICES ASSUME NEW r \in Slots, trade'[r].mode = "LIVE", trade'[r].row # "none"
               PROVE  /\ trade[r].mode = "LIVE" /\ trade[r].row # "none"
                      /\ trade'[r].pair = trade[r].pair
                      /\ trade'[r].row = "open" => trade[r].row = "open"
    BY DEF NoNewLiveRow
  <2>1. trade'[r] = IF r = s THEN t ELSE trade[r]
    BY <1>2, <1>5
  <2> QED
    BY <1>5, <2>1
<1> QED
  BY <1>3, <1>6, <1>7

\* A row gets older, or is forgotten.
LEMMA OlderFacts ==
  ASSUME GateTypes, NEW s \in Slots
  PROVE  Older(trade[s]) \in Shape
<1>1. trade[s] \in Shape /\ Cooldown \in Nat \ {0}
  BY ConstantsAssumption DEF GateTypes, ConstantsAssumption
<1>2. CASE trade[s].row # "closed"
  BY <1>1, <1>2 DEF Older
<1>3. CASE trade[s].row = "closed" /\ trade[s].age + 1 >= Cooldown
  BY <1>3, FreeFacts DEF Older
<1>4. CASE trade[s].row = "closed" /\ ~(trade[s].age + 1 >= Cooldown)
  <2>1. trade[s].age \in 0..(Cooldown - 1)
    BY <1>1 DEF Shape
  <2>2. trade[s].age + 1 \in 0..(Cooldown - 1)
    BY <1>1, <1>4, <2>1
  <2>3. [trade[s] EXCEPT !.age = trade[s].age + 1] \in Shape
    BY <1>1, <2>2 DEF Shape
  <2>4. Older(trade[s]) = [trade[s] EXCEPT !.age = trade[s].age + 1]
    BY <1>4 DEF Older
  <2> QED
    BY <2>3, <2>4
<1> QED
  BY <1>2, <1>3, <1>4

\* The settings a row commits are settings.
LEMMA CommittedIsConfig ==
  ASSUME config \in Config, NEW row \in Settings
  PROVE  Committed(row) \in Config
<1>1. /\ \A k \in DOMAIN row \ {"mode"} : row[k] \in Nat
      /\ "mode" \in DOMAIN row => row["mode"] \in {"LIVE", "PAPER"}
  BY ConstantsAssumption DEF ConstantsAssumption
<1>2. /\ config["maxOpen"] \in Nat /\ config["maxPerPair"] \in Nat /\ config["minConf"] \in Nat
      /\ config["maxRisk"] \in Nat /\ config["mode"] \in {"LIVE", "PAPER"}
  BY DEF Config
<1> DEFINE c == Committed(row)
<1>3. /\ c["maxOpen"] \in Nat /\ c["maxPerPair"] \in Nat /\ c["minConf"] \in Nat
      /\ c["maxRisk"] \in Nat /\ c["mode"] \in {"LIVE", "PAPER"}
  BY <1>1, <1>2 DEF Committed, Keys
<1>4. c = [k \in Keys |-> c[k]]
  BY DEF Committed
<1> HIDE DEF c
<1>5. c = [maxOpen |-> c["maxOpen"], maxPerPair |-> c["maxPerPair"], minConf |-> c["minConf"],
           maxRisk |-> c["maxRisk"], mode |-> c["mode"]]
  BY <1>4 DEF Keys
<1>6. c \in Config
  BY <1>3, <1>5 DEF Config
<1> QED
  BY <1>6 DEF c

----------------------------------------------------------------------------
(* The invariant *)

LEMMA GateInit == Init => GateInv
<1> SUFFICES ASSUME Init PROVE GateInv
  OBVIOUS
<1>1. trade \in [Slots -> Shape] /\ todo \in Seq(Pairs)
  BY FreeFacts DEF Init
<1> QED
  BY <1>1, ConstantsAssumption
  DEF Init, ConstantsAssumption, GateInv, GateTypes, HourInv, ModeInv, CountInv, CoolInv

\* Around the evaluation nothing it has found is undone.
LEMMA OthersInv == GateInv /\ Others => GateInv'
<1> SUFFICES ASSUME GateInv, Others PROVE GateInv'
  OBVIOUS
<1>1. /\ GateTypes /\ trade' \in [Slots -> Shape] /\ NoNewLiveRow
      /\ UNCHANGED <<period, config, pc, todo, read>>
  BY OthersTrade DEF GateInv
<1>2. GateTypes' /\ HourInv' /\ ModeInv'
  BY <1>1 DEF GateInv, GateTypes, HourInv, ModeInv, pair
<1>3. CountInv'
  <2>1. /\ Cardinality(Live(trade')) <= Cardinality(Live(trade))
        /\ Cardinality(LiveOf(trade', pair)) <= Cardinality(LiveOf(trade, pair))
    BY <1>1, FewerLiveRows
  <2>2. config' = config /\ pc' = pc /\ pair' = pair
    BY <1>1 DEF pair
  <2>3. /\ Cardinality(Live(trade)) \in Nat /\ Cardinality(Live(trade')) \in Nat
        /\ Cardinality(LiveOf(trade, pair)) \in Nat /\ Cardinality(LiveOf(trade', pair)) \in Nat
        /\ config.maxOpen \in Nat /\ config.maxPerPair \in Nat
    BY <1>1, LiveRowsFinite DEF GateTypes, Config
  <2>4. Live(trade)' = Live(trade') /\ LiveOf(trade, pair)' = LiveOf(trade', pair)
    BY <2>2 DEF Live, LiveOf
  <2>5. ASSUME config.mode = "LIVE",
               pc \in {"counting pair", "cooling", "correlating", "ordering"}
        PROVE  Cardinality(Live(trade')) < config.maxOpen
    <3>1. Cardinality(Live(trade)) < config.maxOpen
      BY <2>5 DEF GateInv, CountInv
    <3> QED
      BY <2>1, <2>3, <3>1
  <2>6. ASSUME config.mode = "LIVE", pc \in {"cooling", "correlating", "ordering"}
        PROVE  Cardinality(LiveOf(trade', pair)) < config.maxPerPair
    <3>1. Cardinality(LiveOf(trade, pair)) < config.maxPerPair
      BY <2>6 DEF GateInv, CountInv
    <3> QED
      BY <2>1, <2>3, <3>1
  <2> QED
    BY <2>2, <2>4, <2>5, <2>6 DEF CountInv
<1>4. CoolInv'
  <2>1. pair' = pair
    BY <1>1 DEF pair
  <2>2. ASSUME NEW s \in Slots, trade'[s].pair = pair, trade'[s].mode = "LIVE",
               config.mode = "LIVE", config.maxPerPair = 1, pc \in {"correlating", "ordering"}
        PROVE  trade'[s].row = "none"
    BY <1>1, <2>2 DEF GateInv, CoolInv, NoNewLiveRow
  <2> QED
    BY <1>1, <2>1, <2>2 DEF CoolInv
<1> QED
  BY <1>2, <1>3, <1>4 DEF GateInv

\* Time stands still while an evaluation runs.
LEMMA TickInv == GateInv /\ Tick => GateInv'
<1> SUFFICES ASSUME GateInv, Tick PROVE GateInv'
  OBVIOUS
<1>1. /\ GateTypes /\ pc \in {"head", "pairs", "scanning"} /\ UNCHANGED <<config, pc, todo, read>>
      /\ period' \in After(period)
  BY DEF GateInv, GateTypes, Tick, Evaluating, loop
<1>2. trade' \in [Slots -> Shape]
  BY <1>1, OlderFacts DEF Tick
<1>3. period' \in {"session", "late", "weekend"}
  BY <1>1 DEF GateTypes, After
<1>4. HourInv'
  <2>1. pair' = pair
    BY <1>1 DEF pair
  <2>2. CASE pc = "scanning"
    BY <1>1, <2>1, <2>2 DEF GateInv, GateTypes, HourInv, After
  <2>3. CASE pc \in {"head", "pairs"}
    BY <1>1, <2>1, <2>3 DEF HourInv
  <2> QED
    BY <1>1, <2>2, <2>3
<1>5. GateTypes'
  BY <1>1, <1>2, <1>3 DEF GateTypes
<1> QED
  BY <1>1, <1>4, <1>5 DEF GateInv, ModeInv, CountInv, CoolInv

\* Where the loop is through with a pair, nothing is promised of the next one.
AtPairs == pc' \in {"head", "pairs"}
LEMMA LeaveInv ==
  ASSUME GateTypes', AtPairs
  PROVE  GateInv'
BY DEF AtPairs, GateInv, HourInv, ModeInv, CountInv, CoolInv

LEMMA LeaveFacts ==
  ASSUME GateTypes, Leave, todo # <<>>
  PROVE  AtPairs /\ todo' \in Seq(Pairs) /\ pc' = "pairs" /\ read' = "none"
BY HeadTailProperties DEF GateTypes, Leave, AtPairs

LEMMA LoopInv == GateInv /\ Loop => GateInv'
<1> SUFFICES ASSUME GateInv, Loop PROVE GateInv'
  OBVIOUS
<1>1. GateTypes
  BY DEF GateInv
<1>2. CASE StartScan \/ EndScan
  <2>1. GateTypes' /\ AtPairs
    BY <1>1, <1>2, ConstantsAssumption
    DEF StartScan, EndScan, GateTypes, AtPairs, ConstantsAssumption
  <2> QED
    BY <2>1, LeaveInv
<1>3. CASE TakePair
  <2>1. todo # <<>> /\ pc = "pairs" /\ UNCHANGED <<period, trade, config>>
    BY <1>3 DEF TakePair
  <2>2. CASE Leave
    <3>1. GateTypes' /\ AtPairs
      BY <1>1, <2>1, <2>2, LeaveFacts DEF GateTypes
    <3> QED
      BY <3>1, LeaveInv
  <2>3. CASE /\ pair \in Crypto \/ (early /\ period # "weekend")
             /\ pc' = "scanning" /\ UNCHANGED todo
    <3>1. GateTypes'
      BY <1>1, <2>1, <2>3 DEF GateTypes
    <3>2. HourInv'
      BY <2>1, <2>3 DEF HourInv, pair
    <3> QED
      BY <2>3, <3>1, <3>2 DEF GateInv, ModeInv, CountInv, CoolInv
  <2> QED
    BY <1>3, <2>2, <2>3 DEF TakePair
<1>4. CASE Scan
  <2>1. pc = "scanning" /\ todo # <<>> /\ UNCHANGED <<period, trade>>
    BY <1>1, <1>4 DEF Scan, GateTypes
  <2>2. CASE Leave /\ UNCHANGED config
    <3>1. GateTypes' /\ AtPairs
      BY <1>1, <2>1, <2>2, LeaveFacts DEF GateTypes
    <3> QED
      BY <3>1, LeaveInv
  <2>3. CASE pc' = "loading" /\ config' = Distrusted /\ UNCHANGED todo
    <3>1. config' \in Config /\ config'.mode = "PAPER"
      BY <1>1, <2>3 DEF GateTypes, Distrusted, Config
    <3>2. GateTypes'
      BY <1>1, <2>1, <2>3, <3>1 DEF GateTypes
    <3>3. HourInv'
      BY <2>1, <2>3 DEF GateInv, HourInv, pair
    <3> QED
      BY <2>3, <3>1, <3>2, <3>3 DEF GateInv, ModeInv, CountInv, CoolInv
  <2> QED
    BY <1>4, <2>2, <2>3 DEF Scan
<1> QED
  BY <1>2, <1>3, <1>4 DEF Loop

\* A query passes, or the evaluation ends.
LEMMA EvaluateTypes ==
  ASSUME GateInv, Evaluate
  PROVE  /\ GateTypes /\ GateTypes' /\ UNCHANGED <<period, trade>> /\ (AtPairs \/ UNCHANGED todo)
         /\ Load \/ UNCHANGED config
<1>1. GateTypes /\ todo # <<>> /\ UNCHANGED <<period, trade>>
  BY DEF GateInv, GateTypes, Evaluate, Load, CountOpen, CountPair, CoolAndCheck, Size, Passes
<1>2. config' \in Config /\ (Load \/ UNCHANGED config)
  <2>1. CASE Load
    BY <1>1, <2>1, CommittedIsConfig DEF Load, GateTypes
  <2> QED
    BY <1>1, <2>1 DEF Evaluate, CountOpen, CountPair, CoolAndCheck, Size, Passes, GateTypes
<1>3. \/ Leave
      \/ /\ pc' \in {"counting", "counting pair", "cooling", "correlating", "ordering"}
         /\ UNCHANGED todo
  BY DEF Evaluate, Load, CountOpen, CountPair, CoolAndCheck, Size, Passes
<1>4. CASE Leave
  <2>1. AtPairs /\ todo' \in Seq(Pairs) /\ pc' = "pairs"
    BY <1>1, <1>4, LeaveFacts
  <2> QED
    BY <1>1, <1>2, <2>1 DEF GateTypes
<1>5. CASE /\ pc' \in {"counting", "counting pair", "cooling", "correlating", "ordering"}
           /\ UNCHANGED todo
  BY <1>1, <1>2, <1>5 DEF GateTypes
<1> QED
  BY <1>3, <1>4, <1>5

LEMMA EvaluateInv == GateInv /\ Evaluate => GateInv'
<1> SUFFICES ASSUME GateInv, Evaluate PROVE GateInv'
  OBVIOUS
<1>1. /\ GateTypes /\ GateTypes' /\ UNCHANGED <<period, trade>> /\ (AtPairs \/ UNCHANGED todo)
      /\ Load \/ UNCHANGED config
  BY EvaluateTypes
<1>2. CASE AtPairs
  BY <1>1, <1>2, LeaveInv
<1> SUFFICES ASSUME ~AtPairs PROVE GateInv'
  BY <1>2
<1>3. ~Leave /\ pair' = pair
  BY <1>1 DEF Leave, AtPairs, pair
<1>4. /\ Live(trade)' = Live(trade) /\ LiveOf(trade, pair)' = LiveOf(trade, pair)
  BY <1>1, <1>3 DEF Live, LiveOf
<1>5. CASE Load
  <2>1. PICK row \in Settings, good \in BOOLEAN :
          /\ config' = IF good THEN Committed(row) ELSE config
          /\ read' = IF good THEN config'.mode ELSE "none"
    BY <1>3, <1>5 DEF Load
  <2>2. pc = "loading" /\ pc' = "counting"
    BY <1>3, <1>5 DEF Load
  <2>3. ModeInv'
    BY <2>1, <2>2 DEF GateInv, ModeInv
  <2>4. HourInv'
    BY <1>1, <1>3, <2>2 DEF GateInv, HourInv
  <2> QED
    BY <1>1, <2>2, <2>3, <2>4 DEF GateInv, CountInv, CoolInv
<1>6. CASE CountOpen
  <2>1. /\ pc = "counting" /\ pc' = "counting pair" /\ UNCHANGED <<config, read>>
        /\ Cardinality(Counted) < config.maxOpen
    BY <1>3, <1>6 DEF CountOpen, Passes, Below
  <2>2. config.mode = "LIVE" => Counted = Live(trade)
    BY DEF Counted, OpenRows, Live
  <2>3. CountInv'
    BY <1>4, <2>1, <2>2 DEF CountInv
  <2> QED
    BY <1>1, <1>3, <2>1, <2>3 DEF GateInv, HourInv, ModeInv, CoolInv
<1>7. CASE CountPair
  <2>1. /\ pc = "counting pair" /\ pc' = "cooling" /\ UNCHANGED <<config, read>>
        /\ Cardinality({s \in Counted : trade[s].pair = pair}) < config.maxPerPair
    BY <1>3, <1>7 DEF CountPair, Passes, Below
  <2>2. config.mode = "LIVE" => {s \in Counted : trade[s].pair = pair} = LiveOf(trade, pair)
    BY DEF Counted, OpenRows, LiveOf
  <2>3. CountInv'
    BY <1>4, <2>1, <2>2 DEF GateInv, CountInv
  <2> QED
    BY <1>1, <1>3, <2>1, <2>3 DEF GateInv, HourInv, ModeInv, CoolInv
<1>8. CASE CoolAndCheck
  <2>1. /\ pc = "cooling" /\ pc' = "correlating" /\ UNCHANGED <<config, read>> /\ HourAllowed
        /\ \A s \in Slots : trade[s].pair = pair => trade[s].row # "closed"
    BY <1>1, <1>3, <1>8 DEF CoolAndCheck, Recent
  <2>2. HourInv'
    BY <1>1, <1>3, <2>1 DEF GateInv, GateTypes, HourInv, HourAllowed
  <2>3. CountInv'
    BY <1>4, <2>1 DEF GateInv, CountInv
  <2>4. CoolInv'
    <3> SUFFICES ASSUME config.mode = "LIVE", config.maxPerPair = 1, NEW s \in Slots,
                        trade[s].pair = pair, trade[s].mode = "LIVE"
                 PROVE  trade[s].row = "none"
      BY <1>1, <1>3, <2>1 DEF CoolInv
    <3>1. Cardinality(LiveOf(trade, pair)) < 1
      BY <2>1 DEF GateInv, CountInv
    <3>2. LiveOf(trade, pair) = {}
      BY <3>1, LiveRowsFinite, FS_EmptySet
    <3>3. trade[s].row # "open"
      BY <3>2 DEF LiveOf
    <3>4. trade[s].row \in {"none", "open", "closed"}
      BY <1>1 DEF GateTypes, Shape
    <3> QED
      BY <2>1, <3>3, <3>4
  <2> QED
    BY <1>1, <2>1, <2>2, <2>3, <2>4 DEF GateInv, ModeInv
<1>9. CASE Size
  <2>1. pc = "correlating" /\ pc' = "ordering" /\ UNCHANGED <<config, read>>
    BY <1>1, <1>3, <1>9 DEF Size
  <2>2. CountInv'
    BY <1>4, <2>1 DEF GateInv, CountInv
  <2>3. CoolInv'
    BY <1>1, <1>3, <2>1 DEF GateInv, CoolInv
  <2> QED
    BY <1>1, <1>3, <2>1, <2>2, <2>3 DEF GateInv, HourInv, ModeInv
<1> QED
  BY <1>5, <1>6, <1>7, <1>8, <1>9 DEF Evaluate

\* What the two ways to open a trade have in common.
Becomes(s, t) ==
  /\ pc = "ordering" /\ trade[s] = Free /\ Leave /\ config' = config /\ period' = period
  /\ t.pair = pair /\ trade' = [trade EXCEPT ![s] = t]
LEMMA OrderBecomes ==
  ASSUME GateTypes, NEW s \in Slots, Filled(s) \/ FilledUnsaved(s)
  PROVE  \E t \in Shape : /\ Becomes(s, t)
                          /\ t.held => config.mode = "LIVE"
<1>1. pc = "ordering" /\ pair \in Pairs /\ config.mode \in {"LIVE", "PAPER"}
  BY HeadTailProperties DEF GateTypes, Config, Filled, FilledUnsaved, pair
<1>2. CASE Filled(s)
  <2> DEFINE t == [Free EXCEPT !.pair = pair, !.row = "open", !.mode = config.mode,
                               !.held = (config.mode = "LIVE")]
  <2>1. (config.mode = "LIVE") \in BOOLEAN
    OBVIOUS
  <2>2. t \in Shape /\ t.pair = pair /\ t.held = (config.mode = "LIVE")
    BY <1>1, <2>1, FreeFacts DEF Shape
  <2>3. Becomes(s, t)
    BY <1>2, <2>2 DEF Filled, Becomes
  <2> QED
    BY <2>2, <2>3
<1>3. CASE FilledUnsaved(s)
  <2> DEFINE t == [Free EXCEPT !.pair = pair, !.held = TRUE]
  <2>1. t \in Shape /\ t.pair = pair
    BY <1>1, FreeFacts DEF Shape
  <2>2. Becomes(s, t) /\ config.mode = "LIVE"
    BY <1>3, <2>1 DEF FilledUnsaved, Becomes
  <2> QED
    BY <2>1, <2>2
<1> QED
  BY <1>2, <1>3

LEMMA ExecuteInv == GateInv /\ Execute => GateInv'
<1> SUFFICES ASSUME GateInv, Execute PROVE GateInv'
  OBVIOUS
<1>1. /\ GateTypes /\ pc = "ordering" /\ Leave /\ UNCHANGED <<period, config>>
  BY DEF GateInv, Execute, Refused, Filled, FilledUnsaved
<1>2. trade' \in [Slots -> Shape]
  <2>1. CASE Refused
    BY <1>1, <2>1 DEF Refused, GateTypes
  <2>2. ASSUME NEW s \in Slots, Filled(s) \/ FilledUnsaved(s) PROVE trade' \in [Slots -> Shape]
    BY <1>1, <2>2, OrderBecomes DEF Becomes, GateTypes
  <2> QED
    BY <2>1, <2>2 DEF Execute
<1>3. AtPairs /\ todo' \in Seq(Pairs)
  BY <1>1, LeaveFacts DEF GateTypes
<1>4. GateTypes'
  BY <1>1, <1>2, <1>3 DEF GateTypes, AtPairs
<1> QED
  BY <1>3, <1>4, LeaveInv

LEMMA GateStep == GateInv /\ [Next]_vars => GateInv'
<1> SUFFICES ASSUME GateInv, [Next]_vars PROVE GateInv'
  OBVIOUS
<1>1. CASE UNCHANGED vars
  BY <1>1 DEF vars, loop, GateInv, GateTypes, HourInv, ModeInv, CountInv, CoolInv, pair, Live, LiveOf
<1> QED
  BY <1>1, OthersInv, TickInv, LoopInv, EvaluateInv, ExecuteInv DEF Next

LEMMA GateInvariance == Spec => []GateInv
BY GateInit, GateStep, PTL DEF Spec

----------------------------------------------------------------------------
(* Numbers *)

Smaller == OpToRel(<, Nat)

LEMMA LeastExists ==
  ASSUME NEW S \in SUBSET Nat, S # {}
  PROVE  \E x \in S : \A y \in S : x <= y
<1>1. IsWellFoundedOn(Smaller, Nat)
  BY NatLessThanWellFounded DEF Smaller
<1>2. PICK x \in S : \A y \in S : ~(<<y, x>> \in Smaller)
  BY <1>1, WFMin
<1>3. \A a, b \in Nat : <<a, b>> \in Smaller <=> a < b
  BY DEF Smaller, OpToRel
<1>4. ASSUME NEW y \in S PROVE x <= y
  <2>1. x \in Nat /\ y \in Nat /\ ~(<<y, x>> \in Smaller)
    BY <1>2
  <2> QED
    BY <1>3, <2>1
<1> QED
  BY <1>4

\* A set of numbers with a bound has a greatest one.
LEMMA MaxExists ==
  ASSUME NEW b \in Nat, NEW S \in SUBSET (0..b), S # {}
  PROVE  Max(S) \in S
<1> DEFINE T == {b - x : x \in S}
<1>1. T \in SUBSET Nat /\ T # {}
  <2>1. \A x \in S : b - x \in Nat
    OBVIOUS
  <2> QED
    BY <2>1
<1>2. PICK t \in T : \A u \in T : t <= u
  BY <1>1, LeastExists
<1>3. PICK x \in S : t = b - x
  BY <1>2
<1>4. ASSUME NEW y \in S PROVE x >= y
  <2>1. t <= b - y
    BY <1>2
  <2> QED
    BY <1>3, <2>1
<1> QED
  BY <1>4 DEF Max

LEMMA MinOfTwo ==
  ASSUME NEW a \in Nat, NEW b \in Nat
  PROVE  Min({a, b}) \in Nat /\ Min({a, b}) <= a /\ Min({a, b}) <= b
<1>1. \E x \in {a, b} : \A y \in {a, b} : x <= y
  <2>1. CASE a <= b
    BY <2>1
  <2>2. CASE b < a
    BY <2>2
  <2> QED
    BY <2>1, <2>2
<1>2. Min({a, b}) \in {a, b} /\ \A y \in {a, b} : Min({a, b}) <= y
  BY <1>1 DEF Min
<1> QED
  BY <1>2

LEMMA ProductsGrow == \A a \in Nat, b, c \in Int : b <= c => a * b <= a * c
BY SMT

\* The quotient and the remainder, by what is taken from them.
LEMMA DivisionParts ==
  ASSUME NEW n \in Int, NEW d \in Int, d > 0
  PROVE  /\ n \div d \in Int /\ n % d \in Int /\ n % d >= 0 /\ n % d < d
         /\ n = d * (n \div d) + (n % d)
<1>1. n = d * (n \div d) + (n % d)
  BY SMTT(30)
<1> QED
  BY <1>1

LEMMA Quotient ==
  ASSUME NEW n \in Nat, NEW d \in Nat \ {0}
  PROVE  n \div d \in Nat /\ d * (n \div d) <= n
<1> DEFINE q == n \div d  r == n % d
<1>1. q \in Int /\ r \in Int /\ r < d /\ r >= 0 /\ n = d * q + r
  BY DivisionParts
<1> HIDE DEF q, r
<1>2. q >= 0
  <2> SUFFICES ASSUME q <= -1 PROVE FALSE
    BY <1>1
  <2>1. d * q <= d * (-1)
    BY <1>1, ProductsGrow
  <2> QED
    BY <1>1, <2>1
<1> QED
  BY <1>1, <1>2 DEF q, r

\* Rounding to the nearest number at most doubles.
LEMMA HalfEvenDoubles ==
  ASSUME NEW n \in Nat, NEW d \in Nat \ {0}
  PROVE  HalfEven(n, d) \in Nat /\ d * HalfEven(n, d) <= 2 * n
<1> DEFINE q == n \div d  r == n % d
<1>1. q \in Nat /\ r \in Nat /\ n = d * q + r /\ d * q <= n
  BY DivisionParts, Quotient
<1>2. HalfEven(n, d) = q \/ (HalfEven(n, d) = q + 1 /\ 2 * r >= d)
  BY <1>1 DEF HalfEven
<1> HIDE DEF q, r
<1>3. d * q \in Nat /\ d * (q + 1) = d * q + d
  BY <1>1
<1>4. CASE HalfEven(n, d) = q
  BY <1>1, <1>3, <1>4
<1>5. CASE HalfEven(n, d) = q + 1 /\ 2 * r >= d
  BY <1>1, <1>3, <1>5
<1> QED
  BY <1>2, <1>4, <1>5

----------------------------------------------------------------------------
(* The size of an order *)

LEMMA SizingConstants ==
  /\ Crypto \subseteq Pairs /\ MaxUnits \in Nat /\ MinUnits \in Nat
  /\ \A p, q \in Pairs : Corr[<<p, q>>] \in 0..100
BY SizingAssumption DEF SizingAssumption

LEMMA BudgetTyped ==
  ASSUME NEW s \in Sizeable, NEW m \in Nat
  PROVE  Budget(s, m) \in Nat /\ Rate(s) \in Nat /\ s.distance \in Nat
<1>1. s.balance \in Nat /\ s.entry \in Nat /\ s.distance \in Nat
  BY DEF Sizeable
<1>2. RiskPct(s, m) \in Nat
  <2> DEFINE x == IF s.pair \in Crypto THEN 5 ELSE IF s.conf >= 80 THEN 30 ELSE 20
  <2>1. x \in Nat
    OBVIOUS
  <2> HIDE DEF x
  <2>2. Min({m, x}) \in Nat
    BY <2>1, MinOfTwo
  <2> QED
    BY <2>2 DEF RiskPct, x
<1> QED
  BY <1>1, <1>2 DEF Budget, Rate

\* The losses that are allowed: a crypto order's may be doubled by rounding.
Allowance(s, m) == IF s.pair \in Crypto THEN 2 * Budget(s, m) ELSE Budget(s, m)

LEMMA BaseBounded ==
  ASSUME NEW s \in Sizeable, NEW m \in Nat
  PROVE  BaseLots(s, m) \in Nat /\ 10 * BaseLots(s, m) * s.distance <= Allowance(s, m) * Rate(s)
<1>1. Budget(s, m) \in Nat /\ Rate(s) \in Nat /\ s.distance \in Nat
  BY BudgetTyped
<1> DEFINE n == Budget(s, m) * Rate(s)  d == 10 * s.distance
<1>2. n \in Nat /\ d \in Nat /\ 2 * n = 2 * Budget(s, m) * Rate(s)
  BY <1>1
<1>3. CASE s.distance = 0
  <2>1. BaseLots(s, m) = 0
    BY <1>3 DEF BaseLots
  <2>2. Allowance(s, m) * Rate(s) \in Nat
    BY <1>1 DEF Allowance
  <2> QED
    BY <1>3, <2>1, <2>2
<1>4. CASE s.distance # 0 /\ s.pair \in Crypto
  <2>1. d \in Nat \ {0}
    BY <1>1, <1>4
  <2>2. HalfEven(n, d) \in Nat /\ d * HalfEven(n, d) <= 2 * n
    BY <1>2, <2>1, HalfEvenDoubles
  <2>3. BaseLots(s, m) = HalfEven(n, d)
    BY <1>4 DEF BaseLots
  <2>4. Allowance(s, m) * Rate(s) = 2 * n
    BY <1>1, <1>2, <1>4 DEF Allowance
  <2>5. 10 * HalfEven(n, d) * s.distance = d * HalfEven(n, d)
    BY <1>1, <2>2
  <2> QED
    BY <2>2, <2>3, <2>4, <2>5
<1>5. CASE s.distance # 0 /\ s.pair \notin Crypto
  <2> DEFINE q == n \div (100 * d)
  <2>1. 100 * d \in Nat \ {0}
    BY <1>1, <1>5
  <2>2. q \in Nat /\ (100 * d) * q <= n
    BY <1>2, <2>1, Quotient
  <2>3. BaseLots(s, m) = 100 * q
    BY <1>5 DEF BaseLots
  <2>4. Allowance(s, m) * Rate(s) = n
    BY <1>5 DEF Allowance
  <2> HIDE DEF q
  <2>5. 10 * (100 * q) * s.distance = (100 * d) * q
    BY <1>1, <2>2
  <2> QED
    BY <2>2, <2>3, <2>4, <2>5
<1> QED
  BY <1>3, <1>4, <1>5

LEMMA MultiplierTyped ==
  ASSUME NEW p \in Pairs, NEW open \in SUBSET Pairs
  PROVE  Multiplier(p, open) \in 0..200
<1> DEFINE S == {0} \cup {Corr[<<p, q>>] : q \in open}
<1>1. S \in SUBSET (0..100) /\ S # {}
  <2>1. \A q \in open : Corr[<<p, q>>] \in 0..100
    BY SizingConstants
  <2>2. ASSUME NEW x \in S PROVE x \in 0..100
    <3>1. CASE x = 0
      BY <3>1
    <3>2. CASE x # 0
      <4>1. PICK q \in open : x = Corr[<<p, q>>]
        BY <3>2
      <4> QED
        BY <2>1, <4>1
    <3> QED
      BY <3>1, <3>2
  <2>3. 0 \in S
    OBVIOUS
  <2> QED
    <3> HIDE DEF S
    <3> QED
      BY <2>2, <2>3
<1>2. Max(S) \in 0..100
  BY <1>1, MaxExists
<1> QED
  BY <1>2 DEF Multiplier

LEMMA ReducedBounded ==
  ASSUME NEW s \in Sizeable, NEW m \in Nat, NEW open \in SUBSET Pairs
  PROVE  /\ Reduced(s, m, open) \in Nat /\ Reduced(s, m, open) <= BaseLots(s, m)
         /\ 200 * Reduced(s, m, open) <= BaseLots(s, m) * Multiplier(s.pair, open)
<1> DEFINE b == BaseLots(s, m)  k == Multiplier(s.pair, open)  x == b * k
<1>1. b \in Nat /\ k \in Nat /\ k <= 200
  BY BaseBounded, MultiplierTyped DEF Sizeable
<1>2. Reduced(s, m, open) = IF k = 200 THEN b
                            ELSE IF s.pair \in Crypto THEN x \div 200 ELSE 100 * (x \div 20000)
  BY DEF Reduced
<1> HIDE DEF b, k
<1>3. x \in Nat /\ x <= b * 200
  BY <1>1, ProductsGrow
<1>4. CASE k = 200
  BY <1>1, <1>2, <1>4 DEF b, k
<1>5. CASE k # 200 /\ s.pair \in Crypto
  <2> HIDE DEF x
  <2>1. x \div 200 \in Nat /\ 200 * (x \div 200) <= x
    BY <1>3, Quotient
  <2>2. Reduced(s, m, open) = x \div 200
    BY <1>2, <1>5
  <2>3. x \div 200 <= b
    BY <1>1, <1>3, <2>1
  <2> QED
    BY <2>1, <2>2, <2>3 DEF x, b, k
<1>6. CASE k # 200 /\ s.pair \notin Crypto
  <2> HIDE DEF x
  <2> DEFINE q == x \div 20000
  <2>1. q \in Nat /\ 20000 * q <= x
    BY <1>3, Quotient
  <2>2. Reduced(s, m, open) = 100 * q
    BY <1>2, <1>6
  <2> HIDE DEF q
  <2>3. 100 * q \in Nat /\ 100 * q <= b /\ 200 * (100 * q) <= x
    BY <1>1, <1>3, <2>1
  <2> QED
    BY <2>2, <2>3 DEF x, b, k
<1> QED
  BY <1>4, <1>5, <1>6

\* The size keeps to what may be lost, and its risk is not understated.
LEMMA SizeBounded ==
  ASSUME NEW s \in Sizeable, NEW m \in Nat, NEW open \in SUBSET Pairs
  PROVE  /\ LosesAtMost(s, Lots(s, m, open), Allowance(s, m))
         /\ 200 * Lots(s, m, open) <= ReportedLots(s, m, open)
         /\ Lots(s, m, open) \in Nat /\ ReportedLots(s, m, open) \in Nat
<1> DEFINE b == BaseLots(s, m)  r == Reduced(s, m, open)  cap == 100 * MaxUnits
           l == Lots(s, m, open)  capped == Min({r, cap})
<1>1. /\ b \in Nat /\ r \in Nat /\ r <= b /\ s.distance \in Nat /\ Rate(s) \in Nat
      /\ 10 * b * s.distance <= Allowance(s, m) * Rate(s)
      /\ Budget(s, m) \in Nat
  BY BaseBounded, ReducedBounded, BudgetTyped
<1>2. capped \in Nat /\ capped <= r
  BY <1>1, SizingConstants, MinOfTwo
<1>3. \/ l = 0
      \/ l = capped
      \/ l = 1 /\ s.pair \in Crypto /\ LosesAtMost(s, 1, 2 * Budget(s, m))
  BY DEF Lots
<1>4. l \in Nat
  BY <1>2, <1>3
<1>5. LosesAtMost(s, l, Allowance(s, m))
  <2>1. CASE l = 1 /\ s.pair \in Crypto /\ LosesAtMost(s, 1, 2 * Budget(s, m))
    BY <2>1 DEF Allowance
  <2>2. CASE l <= b
    <3> HIDE DEF l, b
    <3>1. (10 * s.distance) * l <= (10 * s.distance) * b
      BY <1>1, <1>4, <2>2, ProductsGrow
    <3>2. /\ 10 * l * s.distance = (10 * s.distance) * l
          /\ 10 * b * s.distance = (10 * s.distance) * b
      BY <1>1, <1>4
    <3>3. Allowance(s, m) * Rate(s) \in Nat
      BY <1>1 DEF Allowance
    <3>4. 10 * l * s.distance <= Allowance(s, m) * Rate(s)
      <4> DEFINE u == (10 * s.distance) * l  v == (10 * s.distance) * b  w == Allowance(s, m) * Rate(s)
      <4>1. u \in Nat /\ v \in Nat /\ w \in Nat
        BY <1>1, <1>4, <3>3
      <4>2. u <= v /\ v <= w
        BY <1>1, <3>1, <3>2
      <4> HIDE DEF u, v, w
      <4>3. u <= w
        BY <4>1, <4>2
      <4> QED
        BY <3>2, <4>3 DEF u, w
    <3> QED
      BY <3>4 DEF LosesAtMost
  <2>3. l <= b \/ (l = 1 /\ s.pair \in Crypto /\ LosesAtMost(s, 1, 2 * Budget(s, m)))
    BY <1>1, <1>2, <1>3
  <2> QED
    BY <2>1, <2>2, <2>3
<1>6. 200 * l <= ReportedLots(s, m, open) /\ ReportedLots(s, m, open) \in Nat
  <2>1. CASE r > cap \/ l # r
    <3>1. ReportedLots(s, m, open) = 200 * l
      BY <2>1 DEF ReportedLots
    <3> QED
      BY <1>4, <3>1
  <2>2. CASE ~(r > cap \/ l # r)
    <3>1. ReportedLots(s, m, open) = b * Multiplier(s.pair, open) /\ l = r
      BY <2>2 DEF ReportedLots
    <3>2. 200 * r <= b * Multiplier(s.pair, open)
      BY ReducedBounded
    <3>3. b * Multiplier(s.pair, open) \in Nat
      <4>1. Multiplier(s.pair, open) \in Nat
        BY MultiplierTyped DEF Sizeable
      <4> HIDE DEF b
      <4> QED
        BY <1>1, <4>1
    <3> QED
      BY <3>1, <3>2, <3>3
  <2> QED
    BY <2>1, <2>2
<1> QED
  BY <1>4, <1>5, <1>6

\* The approved size was computed from what the evaluation has read.
SizeInv ==
  /\ pc \in {"correlating", "ordering"} => sized \in Sizeable /\ sized.pair = pair
  /\ pc = "ordering" =>
       \E open \in SUBSET Pairs : /\ order.lots = Lots(sized, config.maxRisk, open)
                                  /\ order.reported = ReportedLots(sized, config.maxRisk, open)

LEMMA SizeInvStep == GateInv /\ SizeInv /\ [Next]_vars => SizeInv'
<1> SUFFICES ASSUME GateInv, SizeInv, [Next]_vars PROVE SizeInv'
  OBVIOUS
<1>1. GateTypes
  BY DEF GateInv
<1>2. CASE Others \/ Tick \/ UNCHANGED vars
  <2>1. UNCHANGED <<config, loop>>
    BY <1>2 DEF Others, PositionCloses, RowCloses, PhantomFound, Tick, vars
  <2> QED
    BY <2>1 DEF loop, SizeInv, pair
<1>3. CASE Loop \/ Execute \/ Load \/ CountOpen \/ CountPair
  <2>1. pc' \notin {"correlating", "ordering"}
    BY <1>3 DEF Loop, StartScan, EndScan, TakePair, Scan, Execute, Refused, Filled, FilledUnsaved,
                Load, CountOpen, CountPair, Passes, Leave
  <2> QED
    BY <2>1 DEF SizeInv
<1>4. CASE CoolAndCheck
  <2>1. CASE Leave
    BY <2>1 DEF Leave, SizeInv
  <2>2. CASE ~Leave
    <3>1. /\ pc' = "correlating" /\ UNCHANGED todo /\ pc = "cooling"
          /\ \E conf \in Confs, b \in Balances, q \in Quotes[pair] :
               sized' = [pair |-> pair, conf |-> conf, balance |-> b,
                         entry |-> q.entry, distance |-> q.distance]
      BY <1>4, <2>2 DEF CoolAndCheck
    <3>2. pair \in Pairs
      BY <1>1, <3>1, HeadTailProperties DEF GateTypes, pair
    <3>3. PICK conf \in Confs, b \in Balances, q \in Quotes[pair] :
            sized' = [pair |-> pair, conf |-> conf, balance |-> b,
                      entry |-> q.entry, distance |-> q.distance]
      BY <3>1
    <3>4. conf \in Nat /\ b \in Nat /\ q.entry \in Nat /\ q.distance \in Nat
      <4>1. /\ Confs \subseteq 0..100 /\ Balances \subseteq Nat
            /\ Quotes[pair] \subseteq [entry : Nat \ {0}, distance : Nat]
        BY <3>2, ConstantsAssumption DEF ConstantsAssumption
      <4>2. q \in [entry : Nat \ {0}, distance : Nat]
        BY <4>1
      <4> QED
        BY <4>1, <4>2
    <3>5. sized' \in Sizeable /\ sized'.pair = pair
      BY <3>2, <3>3, <3>4 DEF Sizeable
    <3> QED
      BY <3>1, <3>5 DEF SizeInv, pair
  <2> QED
    BY <2>1, <2>2
<1>5. CASE Size
  <2>1. CASE Leave
    BY <2>1 DEF Leave, SizeInv
  <2>2. CASE ~Leave
    <3>1. /\ pc = "correlating" /\ pc' = "ordering" /\ UNCHANGED <<todo, sized, config>>
          /\ \E open \in {{trade[s].pair : s \in OpenRows}, {}} :
               order' = [lots |-> Lots(sized, config.maxRisk, open),
                         reported |-> ReportedLots(sized, config.maxRisk, open)]
      BY <1>5, <2>2 DEF Size
    <3>2. pair \in Pairs
      BY <1>1, <3>1, HeadTailProperties DEF GateTypes, pair
    <3>3. Free.pair \in Pairs
      BY <3>2 DEF Free
    <3>4. {trade[s].pair : s \in OpenRows} \in SUBSET Pairs
      BY <1>1, <3>3 DEF GateTypes, Shape, OpenRows
    <3>5. PICK open \in SUBSET Pairs :
            order' = [lots |-> Lots(sized, config.maxRisk, open),
                      reported |-> ReportedLots(sized, config.maxRisk, open)]
      BY <3>1, <3>4
    <3>6. /\ order'.lots = Lots(sized', config'.maxRisk, open)
          /\ order'.reported = ReportedLots(sized', config'.maxRisk, open)
      BY <3>1, <3>5
    <3>7. sized' \in Sizeable /\ sized'.pair = pair'
      BY <3>1 DEF SizeInv, pair
    <3> QED
      BY <3>6, <3>7 DEF SizeInv
  <2> QED
    BY <2>1, <2>2
<1> QED
  BY <1>2, <1>3, <1>4, <1>5 DEF Next, Evaluate

----------------------------------------------------------------------------
(* Types *)

LEMMA InitTypes == Init => TypeOK
<1> SUFFICES ASSUME Init PROVE TypeOK
  OBVIOUS
<1>1. Free \in Trade /\ NoOrder \in Orders /\ RejectFor \in Nat /\ MaxFaults \in Nat /\ Defaults \in Config
  BY ConstantsAssumption DEF Free, Trade, NoOrder, Orders
<1>2. trade \in [Slots -> Trade] /\ rejected \in [Pairs -> 0..RejectFor] /\ faults \in 0..MaxFaults
  BY <1>1 DEF Init
<1>3. early \in BOOLEAN
  BY DEF Init
<1> QED
  BY <1>1, <1>2, <1>3 DEF Init, TypeOK

\* What a step carries of the evaluation is of its type.
LEMMA CarriedTypes ==
  ASSUME GateInv, SizeInv, TypeOK, GateInv', SizeInv', [Next]_vars
  PROVE  read' \in {"none", "LIVE", "PAPER"} /\ sized' \in Sizeable \cup {NoSize} /\ order' \in Orders
<1>1. read \in {"none", "LIVE", "PAPER"} /\ sized \in Sizeable \cup {NoSize} /\ order \in Orders
  BY DEF TypeOK
<1>2. CASE Leave
  BY <1>2 DEF Leave, NoOrder, Orders
<1>3. CASE UNCHANGED <<read, sized, order>>
  BY <1>1, <1>3
<1>4. CASE Load /\ ~Leave
  <2>1. /\ read' \in {config'.mode, "none"} /\ UNCHANGED <<sized, order>>
    BY <1>4 DEF Load
  <2>2. config' \in Config
    BY DEF GateInv, GateTypes
  <2>3. config'.mode \in {"LIVE", "PAPER"}
    BY <2>2 DEF Config
  <2> QED
    BY <1>1, <2>1, <2>3
<1>5. CASE CoolAndCheck /\ ~Leave
  BY <1>1, <1>5 DEF CoolAndCheck, SizeInv
<1>6. CASE Size /\ ~Leave
  <2>1. pc = "correlating" /\ pc' = "ordering" /\ UNCHANGED <<read, sized>>
        /\ order' = [lots |-> order'.lots, reported |-> order'.reported]
    BY <1>6 DEF Size
  <2>2. PICK open \in SUBSET Pairs :
          /\ order'.lots = Lots(sized', config'.maxRisk, open)
          /\ order'.reported = ReportedLots(sized', config'.maxRisk, open)
    BY <2>1 DEF SizeInv
  <2>3. sized' \in Sizeable
    BY <2>1 DEF SizeInv
  <2>4. config'.maxRisk \in Nat
    BY DEF GateInv, GateTypes, Config
  <2>5. order'.lots \in Nat /\ order'.reported \in Nat
    BY <2>2, <2>3, <2>4, SizeBounded
  <2>6. order' \in Orders
    BY <2>1, <2>5 DEF Orders
  <2> QED
    BY <1>1, <2>1, <2>6
<1>7. CASE Others \/ Tick \/ UNCHANGED vars
  BY <1>3, <1>7 DEF Others, PositionCloses, RowCloses, PhantomFound, Tick, vars, loop
<1>8. CASE Loop \/ CountOpen \/ CountPair \/ Execute
  BY <1>2, <1>3, <1>8 DEF Loop, StartScan, EndScan, TakePair, Scan, CountOpen, CountPair, Passes,
                          Execute, Refused, Filled, FilledUnsaved
<1> QED
  BY <1>2, <1>4, <1>5, <1>6, <1>7, <1>8 DEF Next, Evaluate

LEMMA StepTypes ==
  ASSUME GateInv, SizeInv, TypeOK, GateInv', SizeInv', [Next]_vars
  PROVE  TypeOK'
<1>1. /\ rejected \in [Pairs -> 0..RejectFor] /\ faults \in 0..MaxFaults /\ early \in BOOLEAN
      /\ RejectFor \in Nat /\ MaxFaults \in Nat
  BY ConstantsAssumption DEF TypeOK
<1>2. trade' \in [Slots -> Trade]
  <2>1. Shape = Trade
    BY ConstantsAssumption DEF Shape, Trade, Free
  <2> QED
    BY <2>1 DEF GateInv, GateTypes
<1>3. rejected' \in [Pairs -> 0..RejectFor]
  <2>1. CASE Tick
    BY <1>1, <2>1 DEF Tick
  <2>2. CASE rejected' = [rejected EXCEPT ![pair] = RejectFor]
    <3> DEFINE terms == 0..RejectFor
    <3>1. RejectFor \in terms /\ rejected \in [Pairs -> terms]
      BY <1>1
    <3> HIDE DEF terms
    <3>2. rejected' \in [Pairs -> terms]
      BY <2>2, <3>1
    <3> QED
      BY <3>2 DEF terms
  <2>3. CASE UNCHANGED rejected
    BY <1>1, <2>3
  <2> QED
    BY <2>1, <2>2, <2>3 DEF Next, Others, PositionCloses, RowCloses, PhantomFound, Loop, StartScan,
       EndScan, TakePair, Scan, Evaluate, Load, CountOpen, CountPair, CoolAndCheck, Size, Passes,
       Execute, Refused, Filled, FilledUnsaved, vars
<1>4. faults' \in 0..MaxFaults
  <2>1. CASE faults < MaxFaults /\ faults' = faults + 1
    BY <1>1, <2>1
  <2>2. CASE UNCHANGED faults
    BY <1>1, <2>2
  <2> QED
    BY <2>1, <2>2 DEF Next, Others, PositionCloses, RowCloses, PhantomFound, Tick, Loop, StartScan,
       EndScan, TakePair, Scan, Evaluate, Load, CountOpen, CountPair, CoolAndCheck, Size, Passes,
       Execute, Refused, Filled, FilledUnsaved, vars
<1>5. early' \in BOOLEAN
  <2>1. CASE early' = (period # "late") \/ early' = FALSE
    BY <2>1
  <2>2. CASE UNCHANGED early
    BY <2>2 DEF TypeOK
  <2> QED
    BY <2>1, <2>2 DEF Next, Others, PositionCloses, RowCloses, PhantomFound, Tick, Loop, StartScan,
       EndScan, TakePair, Scan, Evaluate, Load, CountOpen, CountPair, CoolAndCheck, Size, Passes,
       Execute, Refused, Filled, FilledUnsaved, vars, loop
<1> QED
  BY <1>2, <1>3, <1>4, <1>5, CarriedTypes DEF TypeOK, GateInv, GateTypes

----------------------------------------------------------------------------
(* What opens a position *)

LEMMA OnlyOrdersOpen ==
  ASSUME GateInv, [Next]_vars, NEW s \in Slots, Opens(s)
  PROVE  /\ pc = "ordering" /\ config.mode = "LIVE" /\ trade[s] = Free /\ UNCHANGED config
         /\ \A t \in Slots \ {s} : trade'[t] = trade[t]
<1>1. GateTypes /\ trade[s] \in Shape
  BY DEF GateInv, GateTypes
<1>2. CASE Others
  <2>1. PICK r \in Slots : \/ PositionCloses(r)
                           \/ \E age \in 0..Cooldown : RowCloses(r, age)
                           \/ PhantomFound(r)
    BY <1>2 DEF Others
  <2>2. trade \in [Slots -> Shape] /\ trade[r] \in Shape
    BY <1>1 DEF GateTypes
  <2>3. trade'[s] = trade[s] \/ (r = s /\ (trade'[s] = Free \/ trade'[s].held \in {FALSE, trade[s].held}))
    <3>1. CASE PositionCloses(r)
      BY <2>2, <3>1 DEF PositionCloses, Shape
    <3>2. ASSUME NEW age \in 0..Cooldown, RowCloses(r, age)
          PROVE  trade'[s] = trade[s] \/ (r = s /\ (trade'[s] = Free \/ trade'[s].held \in {FALSE, trade[s].held}))
      BY <2>2, <3>2 DEF RowCloses, Shape
    <3>3. CASE PhantomFound(r)
      BY <2>2, <3>3 DEF PhantomFound, Shape
    <3> QED
      BY <2>1, <3>1, <3>2, <3>3
  <2>4. ~trade[s].held => ~trade'[s].held
    BY <2>3, FreeFacts
  <2> QED
    BY <2>4 DEF Opens
<1>3. CASE Tick
  <2>1. trade'[s] = Older(trade[s])
    BY <1>3 DEF Tick
  <2>2. ~trade[s].held => ~trade'[s].held
    BY <1>1, <2>1, FreeFacts DEF Older, Shape
  <2> QED
    BY <2>2 DEF Opens
<1>4. CASE Loop \/ Evaluate \/ Refused \/ UNCHANGED vars
  BY <1>4 DEF Opens, Loop, StartScan, EndScan, TakePair, Scan, Evaluate, Load, CountOpen, CountPair,
              CoolAndCheck, Size, Passes, Refused, vars
<1>5. ASSUME NEW r \in Slots, Filled(r) \/ FilledUnsaved(r)
      PROVE  /\ pc = "ordering" /\ config.mode = "LIVE" /\ trade[s] = Free /\ UNCHANGED config
             /\ \A t \in Slots \ {s} : trade'[t] = trade[t]
  <2>1. PICK t \in Shape : Becomes(r, t) /\ (t.held => config.mode = "LIVE")
    BY <1>1, <1>5, OrderBecomes
  <2>2. trade' = [trade EXCEPT ![r] = t] /\ trade \in [Slots -> Shape]
    BY <1>1, <2>1 DEF Becomes, GateTypes
  <2>3. r = s
    BY <2>2 DEF Opens
  <2> QED
    BY <2>1, <2>2, <2>3 DEF Becomes, Opens
<1> QED
  BY <1>2, <1>3, <1>4, <1>5 DEF Next, Execute

----------------------------------------------------------------------------
(* Theorems *)

\* Every variable keeps to its type.
THEOREM Typing == Spec => []TypeOK
<1>1. Init => SizeInv
  BY DEF Init, SizeInv
<1> QED
  BY <1>1, InitTypes, GateInit, GateStep, SizeInvStep, StepTypes, PTL DEF Spec

\* Whatever closes, opens or changes between the two counts and the fill, the positions with
\* a live row stay within the limits that were read, for the account and for the pair.
THEOREM LimitsOfPositionsHold == Spec => SlotsHold
<1> DEFINE Within ==
      \A s \in Slots : Opens(s) =>
        /\ Cardinality(HeldByRow') <= config.maxOpen
        /\ Cardinality({t \in HeldByRow' : trade'[t].pair = pair}) <= config.maxPerPair
<1>1. GateInv /\ [Next]_vars => [Within]_vars
  <2> SUFFICES ASSUME GateInv, [Next]_vars, NEW s \in Slots, Opens(s)
               PROVE  /\ Cardinality(HeldByRow') <= config.maxOpen
                      /\ Cardinality({t \in HeldByRow' : trade'[t].pair = pair}) <= config.maxPerPair
    OBVIOUS
  <2>1. /\ pc = "ordering" /\ config.mode = "LIVE"
        /\ \A t \in Slots \ {s} : trade'[t] = trade[t]
    BY OnlyOrdersOpen
  <2>2. /\ Cardinality(Live(trade)) < config.maxOpen
        /\ Cardinality(LiveOf(trade, pair)) < config.maxPerPair
        /\ config.maxOpen \in Nat /\ config.maxPerPair \in Nat
    BY <2>1 DEF GateInv, CountInv, GateTypes, Config
  <2>3. /\ HeldByRow' \subseteq Live(trade) \cup {s}
        /\ {t \in HeldByRow' : trade'[t].pair = pair} \subseteq LiveOf(trade, pair) \cup {s}
    BY <2>1 DEF HeldByRow, Held, Live, LiveOf
  <2>4. ASSUME NEW S, IsFiniteSet(S), NEW n \in Nat, Cardinality(S) < n, NEW T, T \subseteq S \cup {s}
        PROVE  Cardinality(T) <= n
    <3>0. Cardinality(S) \in Nat
      BY <2>4, FS_CardinalityType
    <3>1. IsFiniteSet(S \cup {s}) /\ Cardinality(S \cup {s}) <= Cardinality(S) + 1
      <4>1. /\ IsFiniteSet(S \cup {s})
            /\ Cardinality(S \cup {s}) = IF s \in S THEN Cardinality(S) ELSE Cardinality(S) + 1
        BY <2>4, FS_AddElement
      <4> QED
        BY <3>0, <4>1
    <3>2. /\ Cardinality(T) <= Cardinality(S \cup {s})
          /\ Cardinality(T) \in Nat /\ Cardinality(S \cup {s}) \in Nat
      BY <2>4, <3>1, FS_Subset, FS_CardinalityType
    <3> QED
      BY <2>4, <3>0, <3>1, <3>2
  <2> QED
    BY <2>2, <2>3, <2>4, LiveRowsFinite
<1> QED
  BY <1>1, GateInvariance, PTL DEF Spec, SlotsHold

\* With one position per pair, no live row of the pair is open or within its cooldown.
THEOREM CooldownsHold == Spec => CooldownHolds
<1> DEFINE Cool ==
      \A s \in Slots : (Opens(s) /\ config.maxPerPair = 1) =>
        \A t \in Slots : ~(trade[t].pair = pair /\ trade[t].mode = "LIVE" /\ trade[t].row = "closed")
<1>1. GateInv /\ [Next]_vars => [Cool]_vars
  BY OnlyOrdersOpen DEF GateInv, CoolInv
<1> QED
  BY <1>1, GateInvariance, PTL DEF Spec, CooldownHolds

\* No forex position is opened out of hours, however old the hour is that the loop filters by.
THEOREM HoursHold == Spec => OrdersInHours
<1> DEFINE InHours == \A s \in Slots : (Opens(s) /\ pair \notin Crypto) => period = "session"
<1>1. GateInv /\ [Next]_vars => [InHours]_vars
  BY OnlyOrdersOpen DEF GateInv, HourInv
<1> QED
  BY <1>1, GateInvariance, PTL DEF Spec, OrdersInHours

\* A live order follows from a LIVE its own evaluation has read.
THEOREM LiveIsRead == Spec => NoStaleLive
<1> DEFINE Fresh == \A s \in Slots : Opens(s) => read = "LIVE"
<1>1. GateInv /\ [Next]_vars => [Fresh]_vars
  BY OnlyOrdersOpen DEF GateInv, ModeInv
<1> QED
  BY <1>1, GateInvariance, PTL DEF Spec, NoStaleLive

\* An order loses at its stop what its confidence allows, a crypto order at most twice that,
\* for any balance, distance, correlations and limits; and its risk is not understated.
THEOREM RisksAreBounded == Spec => []RiskIsBounded
<1>1. Init => SizeInv
  BY DEF Init, SizeInv
<1>2. GateInv /\ SizeInv => RiskIsBounded
  <2> SUFFICES ASSUME GateInv, SizeInv, pc = "ordering"
               PROVE  /\ LosesAtMost(sized, order.lots,
                                     IF pair \in Crypto THEN 2 * Budget(sized, config.maxRisk)
                                     ELSE Budget(sized, config.maxRisk))
                      /\ 200 * order.lots <= order.reported
    BY DEF RiskIsBounded
  <2>1. sized \in Sizeable /\ sized.pair = pair
    BY DEF SizeInv
  <2>2. PICK open \in SUBSET Pairs :
          /\ order.lots = Lots(sized, config.maxRisk, open)
          /\ order.reported = ReportedLots(sized, config.maxRisk, open)
    BY DEF SizeInv
  <2>3. config.maxRisk \in Nat
    BY DEF GateInv, GateTypes, Config
  <2>4. /\ LosesAtMost(sized, order.lots, Allowance(sized, config.maxRisk))
        /\ 200 * order.lots <= order.reported
    BY <2>1, <2>2, <2>3, SizeBounded
  <2> QED
    BY <2>1, <2>4 DEF Allowance
<1> QED
  BY <1>1, <1>2, GateInit, GateStep, SizeInvStep, PTL DEF Spec
================================================================================
