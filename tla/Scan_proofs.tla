------------------------------ MODULE Scan_proofs ------------------------------
(***************************************************************************)
(* What a scan lets through, for every market, every answer of the model and *)
(* every trading memory: a proposal passes the filters of the higher time    *)
(* frames in its own direction, and none that fewer than two indicators      *)
(* confirm becomes an order at a threshold of 0.70 or more.                  *)
(***************************************************************************)
EXTENDS Scan, FiniteSetTheorems, TLAPS

\* Until the second opinion a weak proposal is at the cap at most, after it one boost above;
\* what the rules propose is not weak.
Capped ==
  /\ Weak(market, proposal.dir) /\ pc = "consulting" => proposal.conf <= 6400
  /\ Weak(market, proposal.dir) /\ pc = "judging" => proposal.conf <= 6900
  /\ Weak(market, proposal.dir) /\ pc = "approved" => MinConf < 70

Shape ==
  /\ market \in Markets
  /\ Proposed => proposal \in [dir : Directions, conf : Int]

IInv == Shape /\ FiltersHold /\ Capped

----------------------------------------------------------------------------
(* Confidence *)

LEMMA FullIs == Full \in Nat /\ Full = 10000
BY DEF Full

\* A clamped number is an integer within its bounds, and not above the number unless at zero.
LEMMA Clamping ==
  ASSUME NEW x \in Int, NEW top \in Nat
  PROVE  Clamp(x, top) \in 0..top /\ (x >= 0 => Clamp(x, top) <= x)
BY DEF Clamp

\* Whatever is added to a confidence is an integer.
LEMMA AdditionsAreIntegers ==
  ASSUME NEW m \in Market
  PROVE  Additions(m) \in Int
<1>1. NewsProximity(m) \in Int
  <2>1. \A e : NewsOf(e) \in Int
    BY DEF NewsOf
  <2> QED
    BY <2>1 DEF NewsProximity
<1>2. SessionQuality(m) \in Int
  BY DEF SessionQuality
<1>3. SpreadPenalty(m) \in Int /\ LossPenalty(m) \in Int
  BY DEF SpreadPenalty, LossPenalty
<1> QED
  BY <1>1, <1>2, <1>3 DEF Additions

\* The cap comes last: a weak proposal of the model is never above 0.64.
LEMMA AdjustedIsCapped ==
  ASSUME NEW m \in Market, NEW d \in Directions, NEW conf \in 0..100
  PROVE  /\ Adjusted(m, d, conf) \in Nat /\ Adjusted(m, d, conf) <= Full
         /\ Weak(m, d) => Adjusted(m, d, conf) <= 6400
<1>1. Scaled(m, d, conf) \in Int
  BY DEF Scaled
<1>2. Scaled(m, d, conf) + Additions(m) \in Int
  BY <1>1, AdditionsAreIntegers
<1> DEFINE top == IF Weak(m, d) THEN 6400 ELSE Full
<1>3. top \in Nat
  BY FullIs
<1>4. Clamp(Scaled(m, d, conf) + Additions(m), top) \in 0..top
  <2> HIDE DEF top
  <2> QED
    BY <1>2, <1>3, Clamping
<1>5. Adjusted(m, d, conf) = Clamp(Scaled(m, d, conf) + Additions(m), top)
  BY DEF Adjusted
<1>6. top <= Full /\ (Weak(m, d) => top <= 6400)
  BY FullIs
<1> HIDE DEF top
<1> QED
  BY FullIs, <1>3, <1>4, <1>5, <1>6

\* The rules buy only under an RSI of 30 and a rising average: two indicators confirm it.
LEMMA FallbackIsNotWeak ==
  ASSUME NEW m \in Market, Fallback(m) # "HOLD"
  PROVE  Fallback(m) \in Directions /\ ~Weak(m, Fallback(m))
<1> DEFINE fits(d) == Above(d, m.ema50, m.ema200) /\ Rsi(m, d) < 30
           d == Fallback(m)
           flags == <<Rsi(m, d) < 70, Signed(d, m.hist) > 0, Above(d, m.ema20, m.ema50),
                      Above(d, m.ema50, m.ema200), Signed(d, m.band) > 0>>
           confirming == {i \in 1..5 : flags[i]}
<1>1. \E e \in Directions : fits(e)
  BY DEF Fallback
<1>2. d \in Directions /\ fits(d)
  <2>1. d = CHOOSE e \in Directions : fits(e)
    BY <1>1 DEF Fallback
  <2> QED
    BY <1>1, <2>1
<1>3. Rsi(m, d) \in Int
  <2>1. m.rsi \in 0..100
    BY DEF Market
  <2> QED
    BY <2>1 DEF Rsi
<1>4. {1, 4} \subseteq confirming
  <2>1. flags[1] = (Rsi(m, d) < 70) /\ flags[4] = Above(d, m.ema50, m.ema200)
    BY Zenon
  <2>2. Rsi(m, d) < 70 /\ Above(d, m.ema50, m.ema200)
    BY <1>2, <1>3
  <2>3. flags[1] /\ flags[4]
    BY <2>1, <2>2
  <2> QED
    BY <2>3
<1>5. IsFiniteSet(confirming) /\ IsFiniteSet({1, 4}) /\ Cardinality({1, 4}) = 2
  <2>1. IsFiniteSet(1..5)
    BY FS_Interval, 1 \in Int, 5 \in Int
  <2>2. IsFiniteSet({1}) /\ Cardinality({1}) = 1 /\ {1} \cup {4} = {1, 4} /\ 4 \notin {1}
    BY FS_Singleton
  <2>3. IsFiniteSet({1, 4}) /\ Cardinality({1, 4}) = 2
    BY <2>2, FS_AddElement
  <2> QED
    BY <2>1, <2>3, FS_Subset
<1>6. Cardinality(confirming) \in Nat /\ Cardinality(confirming) >= 2
  BY <1>4, <1>5, FS_Subset, FS_CardinalityType
<1>7. Confirms(m, d) = Cardinality(confirming)
  BY DEF Confirms
<1> HIDE DEF confirming, d
<1>8. ~Weak(m, d)
  BY <1>6, <1>7 DEF Weak
<1> QED
  BY <1>2, <1>8 DEF d

----------------------------------------------------------------------------
(* The steps of a scan *)

\* The second opinion adds five percent at most.
LEMMA ReconsideredBound ==
  ASSUME NEW conf \in Int, NEW change \in {-500, 0, 500}
  PROVE  /\ Reconsidered(conf, change) \in Int
         /\ conf \in Nat /\ conf <= Full
              => Reconsidered(conf, change) \in Nat /\ Reconsidered(conf, change) <= Full
         /\ conf <= 6400 => Reconsidered(conf, change) <= 6900
<1>1. MaxConf \in Nat /\ 100 * MaxConf \in Nat /\ 100 * MaxConf <= Full /\ conf + change \in Int
  BY FullIs, ScanAssumption
<1>2. CASE change = 0
  BY <1>2 DEF Reconsidered
<1>3. CASE change # 0
  <2> DEFINE top == IF change > 0 THEN 100 * MaxConf ELSE Full
  <2>1. top \in Nat /\ top <= Full
    BY FullIs, <1>1
  <2>2. Reconsidered(conf, change) = Clamp(conf + change, top)
    BY <1>3 DEF Reconsidered
  <2>3. /\ Clamp(conf + change, top) \in 0..top
        /\ conf + change >= 0 => Clamp(conf + change, top) <= conf + change
        /\ conf + change < 0 => Clamp(conf + change, top) = 0
    BY <1>1, <2>1, Clamping DEF Clamp
  <2> HIDE DEF top
  <2> QED
    BY FullIs, <1>1, <2>1, <2>2, <2>3
<1> QED
  BY <1>2, <1>3

\* A scan that ends leaves no proposal.
LEMMA Ends == ASSUME IInv, End PROVE IInv'
BY ScanAssumption DEF IInv, Shape, FiltersHold, Capped, Proposed, End, NoMarket

\* A proposal starts within the cap and the filters.
LEMMA Proposes ==
  ASSUME IInv, NEW d \in Directions \cup {"HOLD"}, NEW conf \in Int, Propose(d, conf),
         d # "HOLD" /\ Weak(market, d) => conf <= 6400
  PROVE  IInv'
<1>1. CASE d # "HOLD" /\ Rechecked(d)
  <2>1. /\ pc' = "consulting" /\ proposal' = [dir |-> d, conf |-> conf] /\ market' = market
    BY <1>1 DEF Propose
  <2>2. d \in Directions /\ Admits(market, d)
    BY <1>1 DEF Rechecked
  <2>3. proposal'.dir = d /\ proposal'.conf = conf
    BY <2>1
  <2>4. Shape'
    BY <2>1, <2>2 DEF IInv, Shape
  <2>5. FiltersHold'
    BY <2>1, <2>2, <2>3 DEF FiltersHold
  <2>6. Capped'
    BY <2>1, <2>3, <1>1 DEF Capped
  <2> QED
    BY <2>4, <2>5, <2>6 DEF IInv
<1>2. CASE ~(d # "HOLD" /\ Rechecked(d))
  <2>1. End
    BY <1>2 DEF Propose
  <2> QED
    BY <2>1, Ends
<1> QED
  BY <1>1, <1>2

\* What changes nothing of a scan keeps it within the cap and the filters.
LEMMA Keeps ==
  ASSUME IInv, UNCHANGED <<market, proposal>>,
         pc' # pc => pc' \notin {"consulting", "judging", "approved"}
  PROVE  IInv'
BY DEF IInv, Shape, FiltersHold, Capped, Proposed

THEOREM Inductive == Spec => []IInv
<1>1. Init => IInv
  BY ScanAssumption DEF Init, IInv, Shape, FiltersHold, Capped, Proposed, NoMarket
<1>2. ASSUME IInv, [Next]_vars PROVE IInv'
  <2> USE <1>2
  <2>1. CASE UNCHANGED scan
    <3>1. UNCHANGED <<market, proposal, pc>>
      BY <2>1 DEF scan
    <3> QED
      BY <3>1, Keeps DEF IInv, Shape
  <2>2. CASE Snapshot
    <3>1. pc' = "BUY lessons" /\ market' \in Markets
      BY <2>2 DEF Snapshot
    <3>2. pc' \notin {"consulting", "judging", "approved"}
      BY <3>1
    <3>3. Shape' /\ FiltersHold'
      BY <3>1, <3>2 DEF Shape, FiltersHold, Proposed
    <3>4. Capped'
      BY <3>2 DEF Capped
    <3> QED
      BY <3>3, <3>4 DEF IInv
  <2>3. ASSUME NEW d \in Directions, CheckLessons(d) PROVE IInv'
    BY <2>3, Keeps DEF CheckLessons
  <2>4. CASE Decide
    <3>1. CASE End
      BY <3>1, Ends
    <3>2. CASE pc' = "asking" /\ UNCHANGED <<market, proposal>>
      BY <3>2, Keeps
    <3> QED
      BY <2>4, <3>1, <3>2 DEF Decide
  <2>5. ASSUME NEW a \in Answers, Answered(a) PROVE IInv'
    <3>1. a.action \in Directions \cup {"HOLD"} /\ a.conf \in 0..100 /\ market \in Market
      BY ScanAssumption DEF Answer, IInv, Shape
    <3>2. CASE a.action = "HOLD"
      BY <2>5, <3>1, <3>2, Proposes DEF Answered
    <3>3. CASE a.action # "HOLD"
      <4>1. a.action \in Directions
        BY <3>1, <3>3
      <4>2. /\ Adjusted(market, a.action, a.conf) \in Int
            /\ Weak(market, a.action) => Adjusted(market, a.action, a.conf) <= 6400
        BY <3>1, <4>1, AdjustedIsCapped
      <4>3. Propose(a.action, Adjusted(market, a.action, a.conf))
        BY <2>5, <3>3 DEF Answered
      <4> QED
        BY <4>1, <4>2, <4>3, Proposes
    <3> QED
      BY <3>2, <3>3
  <2>6. CASE AttemptFails
    <3>1. CASE attempt < 2
      BY <2>6, <3>1, Keeps DEF AttemptFails, IInv, Shape
    <3>2. CASE ~(attempt < 2)
      <4>1. Propose(Fallback(market), FallbackConfidence) /\ FallbackConfidence \in Int
        BY <2>6, <3>2 DEF AttemptFails, FallbackConfidence
      <4>2. market \in Market
        BY ScanAssumption DEF IInv, Shape
      <4>3. /\ Fallback(market) \in Directions \cup {"HOLD"}
            /\ Fallback(market) # "HOLD" => ~Weak(market, Fallback(market))
        BY <4>2, FallbackIsNotWeak
      <4> QED
        BY <4>1, <4>3, Proposes
    <3> QED
      BY <3>1, <3>2
  <2>7. CASE Consult
    <3>1. PICK change \in {-500, 0, 500} :
            proposal' = [proposal EXCEPT !.conf = Reconsidered(proposal.conf, change)]
      BY <2>7 DEF Consult
    <3>2. pc = "consulting" /\ pc' = "judging" /\ market' = market
      BY <2>7 DEF Consult
    <3>3. proposal \in [dir : Directions, conf : Int]
      BY <3>2 DEF IInv, Shape, Proposed
    <3>4. /\ Reconsidered(proposal.conf, change) \in Int
          /\ proposal.conf <= 6400 => Reconsidered(proposal.conf, change) <= 6900
      <4>1. proposal.conf \in Int
        BY <3>3
      <4> QED
        BY <4>1, ReconsideredBound
    <3>5. /\ proposal' \in [dir : Directions, conf : Int] /\ proposal'.dir = proposal.dir
          /\ proposal'.conf = Reconsidered(proposal.conf, change)
      BY <3>1, <3>3, <3>4
    <3>6. Shape' /\ FiltersHold'
      BY <3>2, <3>5 DEF IInv, Shape, FiltersHold, Proposed
    <3>7. Capped'
      BY <3>2, <3>4, <3>5 DEF IInv, Capped
    <3> QED
      BY <3>6, <3>7 DEF IInv
  <2>8. CASE Judge
    <3>1. CASE End
      BY <3>1, Ends
    <3>2. CASE /\ \E cautious \in BOOLEAN : Admissible(proposal.conf, cautious)
               /\ pc' = "approved" /\ UNCHANGED <<market, proposal>>
      <4>1. pc = "judging" /\ proposal \in [dir : Directions, conf : Int] /\ MinConf \in Int
        BY <2>8, ScanAssumption DEF Judge, IInv, Shape, Proposed
      <4>2. 100 * MinConf <= proposal.conf
        BY <3>2, <4>1 DEF Admissible
      <4>3. Capped'
        BY <3>2, <4>1, <4>2 DEF IInv, Capped
      <4>4. Shape' /\ FiltersHold'
        BY <3>2, <4>1 DEF IInv, Shape, FiltersHold, Proposed
      <4> QED
        BY <4>3, <4>4 DEF IInv
    <3> QED
      BY <2>8, <3>1, <3>2 DEF Judge
  <2>9. CASE Order
    BY <2>9, Ends DEF Order
  <2> QED
    BY <2>1, <2>2, <2>3, <2>4, <2>5, <2>6, <2>7, <2>8, <2>9 DEF Next, vars
<1> QED
  BY <1>1, <1>2, PTL DEF Spec

\* No proposal goes against the filters of the higher time frames.
THEOREM FiltersAlwaysHold == Spec => []FiltersHold
<1>1. IInv => FiltersHold
  BY DEF IInv
<1> QED
  BY <1>1, Inductive, PTL

\* At a threshold of 0.70, an order has two confirmations.
THEOREM WeakIsAlwaysBarred == Spec => []WeakIsBarred
<1>1. IInv => WeakIsBarred
  BY ScanAssumption DEF IInv, Capped, WeakIsBarred
<1> QED
  BY <1>1, Inductive, PTL

----------------------------------------------------------------------------
(* The trading memory *)

\* Enough trades of a pattern are closed, most of them lost.
Evidence(p) == Sample(p) >= MinSample /\ 100 * Losses(p) > 65 * MinSample

\* Rules that block, written or about to be, have their evidence, and so has a block that was
\* looked up; between two scans nothing is blocked.
EvidenceInv ==
  /\ TypeOK
  /\ \A p \in DOMAIN rules : rules[p] = "BLOCK" => Evidence(p)
  /\ \A f \in found : f[2] = "BLOCK" => Evidence(f[1])
  /\ pc = "idle" => blocked = Unblocked
  /\ BlocksHaveEvidence

LEMMA MemoryConstants ==
  /\ MaxTrades \in Nat /\ MinSample \in Nat /\ IsFiniteSet(Kinds \X (1..MaxTrades))
<1>1. MaxTrades \in Nat /\ MinSample \in Nat /\ IsFiniteSet(Kinds)
  BY LessonsAssumption
<1>2. IsFiniteSet(1..MaxTrades)
  BY <1>1, FS_Interval
<1> QED
  BY <1>1, <1>2, FS_Product

\* Closed trades are counted.
LEMMA ClosedTyped ==
  ASSUME LessonsTypeOK, NEW kinds
  PROVE  Closed(kinds) \in Nat
<1>1. {t \in history : t[1] \in kinds} \subseteq Kinds \X (1..MaxTrades)
  BY DEF LessonsTypeOK
<1> QED
  BY <1>1, MemoryConstants, FS_Subset, FS_CardinalityType DEF Closed

\* Closed trades stay, so their number never falls.
LEMMA ClosedGrows ==
  ASSUME LessonsTypeOK, LessonsTypeOK', history \subseteq history', NEW kinds
  PROVE  Closed(kinds) \in Nat /\ Closed(kinds)' \in Nat /\ Closed(kinds) <= Closed(kinds)'
<1> DEFINE now == {t \in history : t[1] \in kinds}
           then == {t \in history' : t[1] \in kinds}
<1>1. now \subseteq then /\ then \subseteq Kinds \X (1..MaxTrades)
  BY DEF LessonsTypeOK
<1>2. IsFiniteSet(then)
  BY <1>1, MemoryConstants, FS_Subset
<1>3. /\ IsFiniteSet(now) /\ Cardinality(now) <= Cardinality(then)
      /\ Cardinality(now) \in Nat /\ Cardinality(then) \in Nat
  BY <1>1, <1>2, FS_Subset, FS_CardinalityType
<1>4. Closed(kinds) = Cardinality(now) /\ Closed(kinds)' = Cardinality(then)
  BY DEF Closed
<1> QED
  BY <1>3, <1>4

\* Evidence is never lost.
LEMMA EvidenceStays ==
  ASSUME LessonsTypeOK, LessonsTypeOK', history \subseteq history', NEW p, Evidence(p)
  PROVE  Evidence(p)'
<1> DEFINE won == {k \in Covered(p) : k.won}  lost == {k \in Covered(p) : ~k.won}
<1>1. Closed(won) \in Nat /\ Closed(won)' \in Nat /\ Closed(won) <= Closed(won)'
  BY ClosedGrows
<1>2. Closed(lost) \in Nat /\ Closed(lost)' \in Nat /\ Closed(lost) <= Closed(lost)'
  BY ClosedGrows
<1>3. /\ Wins(p) = Closed(won) /\ Wins(p)' = Closed(won)'
      /\ Losses(p) = Closed(lost) /\ Losses(p)' = Closed(lost)'
  BY DEF Wins, Losses, Covered
<1> QED
  BY <1>1, <1>2, <1>3, MemoryConstants DEF Evidence, Sample

\* A history that makes a block is its evidence.
LEMMA JudgedOnEvidence ==
  ASSUME LessonsTypeOK, NEW p
  PROVE  Judged(p) \in RuleTypes /\ (Judged(p) = "BLOCK" => Evidence(p))
<1>1. Wins(p) \in Nat /\ Losses(p) \in Nat
  BY ClosedTyped DEF Wins, Losses
<1>2. Judged(p) = "BLOCK" => Sample(p) >= MinSample /\ 100 * Wins(p) < 35 * Sample(p)
  BY <1>1, MemoryConstants DEF Judged, Sample
<1>3. Judged(p) = "BLOCK" => Evidence(p)
  BY <1>1, <1>2, MemoryConstants DEF Sample, Evidence
<1> QED
  BY <1>3 DEF Judged, RuleTypes

\* A pattern's key is a pattern.
LEMMA KeysArePatterns ==
  ASSUME NEW k \in Kinds
  PROVE  PatternsOf(k) \subseteq Pattern
<1>1. k.pair \in Pairs /\ k.dir \in Directions /\ k.setup \in Setups \cup {"*"}
  BY LessonsAssumption
<1>2. SessionOf(k.hour) \in Sessions
  BY DEF SessionOf, Sessions
<1>3. ASSUME NEW s \in {SessionOf(k.hour), "*"}
      PROVE  [pair |-> k.pair, dir |-> k.dir, session |-> s, setup |-> "*"] \in Pattern
  BY <1>1, <1>2 DEF Pattern
<1>4. [pair |-> k.pair, dir |-> k.dir, session |-> SessionOf(k.hour), setup |-> k.setup] \in Pattern
  BY <1>1, <1>2 DEF Pattern
<1> QED
  BY <1>3, <1>4 DEF PatternsOf

\* What the memory does keeps its types; no closed trade and no rule's row disappears.
LEMMA RememberTypes ==
  ASSUME LessonsTypeOK, Remember
  PROVE  LessonsTypeOK' /\ history \subseteq history' /\ DOMAIN rules \subseteq DOMAIN rules'
<1>1. ASSUME NEW k \in Kinds, TradeCloses(k)
      PROVE  LessonsTypeOK' /\ history \subseteq history' /\ UNCHANGED rules
  <2> DEFINE n == Closed({k})
  <2>1. /\ history' = history \cup {<<k, n + 1>>} /\ due' = due \cup PatternsOf(k)
        /\ UNCHANGED <<found, rules>> /\ Closed(Kinds) < MaxTrades
    BY <1>1 DEF TradeCloses
  <2>2. n \in Nat /\ Closed(Kinds) \in Nat /\ n <= Closed(Kinds)
    <3> DEFINE some == {t \in history : t[1] \in {k}}  every == {t \in history : t[1] \in Kinds}
    <3>1. some \subseteq every /\ every \subseteq Kinds \X (1..MaxTrades)
      BY DEF LessonsTypeOK
    <3>2. Cardinality(some) <= Cardinality(every)
      BY <3>1, MemoryConstants, FS_Subset
    <3> QED
      BY <3>2, ClosedTyped DEF Closed
  <2> HIDE DEF n
  <2>3. n + 1 \in 1..MaxTrades
    BY <2>1, <2>2, MemoryConstants
  <2> QED
    BY <2>1, <2>3, KeysArePatterns DEF LessonsTypeOK, Table
<1>2. ASSUME NEW p \in due, Evaluate(p)
      PROVE  LessonsTypeOK' /\ UNCHANGED <<history, rules>>
  <2>1. /\ due' = due \ {p} /\ UNCHANGED <<history, rules>>
        /\ found' \in {found, found \cup {<<p, Judged(p)>>}}
    BY <1>2 DEF Evaluate
  <2>2. p \in Pattern /\ Judged(p) \in RuleTypes
    BY JudgedOnEvidence DEF LessonsTypeOK
  <2> QED
    BY <2>1, <2>2 DEF LessonsTypeOK, Table
<1>3. ASSUME NEW f \in found, Write(f)
      PROVE  LessonsTypeOK' /\ UNCHANGED history /\ DOMAIN rules \subseteq DOMAIN rules'
  <2>1. found' = found \ {f} /\ UNCHANGED <<history, due>>
    BY <1>3 DEF Write
  <2>2. f[1] \in Pattern /\ f[2] \in RuleTypes
    BY DEF LessonsTypeOK
  <2>3. Table(rules)' /\ DOMAIN rules \subseteq DOMAIN rules'
    <3>1. CASE rules' = rules
      BY <3>1 DEF LessonsTypeOK, Table
    <3>2. CASE rules' = [p \in DOMAIN rules \cup {f[1]} |-> IF p \in DOMAIN rules THEN rules[p] ELSE f[2]]
      BY <2>2, <3>2 DEF LessonsTypeOK, Table
    <3> QED
      BY <1>3, <3>1, <3>2 DEF Write
  <2> QED
    BY <2>1, <2>3 DEF LessonsTypeOK
<1>4. ASSUME NEW p \in DOMAIN rules, RuleAges(p)
      PROVE  LessonsTypeOK' /\ UNCHANGED history /\ DOMAIN rules \subseteq DOMAIN rules'
  BY <1>4 DEF RuleAges, LessonsTypeOK, Table
<1> QED
  BY <1>1, <1>2, <1>3, <1>4 DEF Remember

\* A rule that blocks does so on evidence, whoever wrote it and on which reading.
LEMMA RulesKeepEvidence ==
  ASSUME EvidenceInv, Remember, LessonsTypeOK', history \subseteq history'
  PROVE  /\ \A p \in DOMAIN rules' : rules'[p] = "BLOCK" => Evidence(p)'
         /\ \A f \in found' : f[2] = "BLOCK" => Evidence(f[1])'
<1>0. LessonsTypeOK
  BY DEF EvidenceInv, TypeOK
<1>1. ASSUME NEW p, Evidence(p) PROVE Evidence(p)'
  BY <1>0, <1>1, EvidenceStays
<1>2. ASSUME NEW k \in Kinds, TradeCloses(k) PROVE UNCHANGED <<found, rules>>
  BY <1>2 DEF TradeCloses
<1>3. ASSUME NEW p \in due, Evaluate(p)
      PROVE  UNCHANGED rules /\ \A f \in found' : f \in found \/ f = <<p, Judged(p)>>
  BY <1>3 DEF Evaluate
<1>4. ASSUME NEW p PROVE Judged(p) = "BLOCK" => Evidence(p)
  BY <1>0, JudgedOnEvidence
<1>5. ASSUME NEW f \in found, Write(f)
      PROVE  /\ found' \subseteq found
             /\ \A p \in DOMAIN rules' : \/ p \in DOMAIN rules /\ rules'[p] = rules[p]
                                         \/ p = f[1] /\ rules'[p] = f[2]
  BY <1>5 DEF Write
<1>6. ASSUME NEW p \in DOMAIN rules, RuleAges(p)
      PROVE  /\ found' = found
             /\ \A q \in DOMAIN rules' : q \in DOMAIN rules /\ (rules'[q] = rules[q] \/ rules'[q] = "old")
  BY <1>6 DEF RuleAges
<1>7. ASSUME NEW f \in found', f[2] = "BLOCK" PROVE Evidence(f[1])'
  <2>1. f \in found \/ \E p \in due : f = <<p, Judged(p)>>
    BY <1>2, <1>3, <1>5, <1>6 DEF Remember
  <2>2. Evidence(f[1])
    <3>1. CASE f \in found
      BY <1>7, <3>1 DEF EvidenceInv
    <3>2. CASE f \notin found
      <4>1. PICK p \in due : f = <<p, Judged(p)>>
        BY <2>1, <3>2
      <4>2. f[1] = p /\ Judged(p) = "BLOCK"
        BY <1>7, <4>1
      <4> QED
        BY <1>4, <4>2
    <3> QED
      BY <3>1, <3>2
  <2> QED
    BY <1>1, <2>2
<1>8. ASSUME NEW p \in DOMAIN rules', rules'[p] = "BLOCK" PROVE Evidence(p)'
  <2>1. \/ p \in DOMAIN rules /\ rules[p] = "BLOCK"
        \/ \E f \in found : p = f[1] /\ f[2] = "BLOCK"
    BY <1>2, <1>3, <1>5, <1>6, <1>8 DEF Remember
  <2>2. Evidence(p)
    BY <2>1 DEF EvidenceInv
  <2> QED
    BY <1>1, <2>2
<1> QED
  BY <1>7, <1>8

----------------------------------------------------------------------------
(* The scan's part of the types, and of the evidence *)

ScanTypes ==
  /\ pc \in {"idle", "BUY lessons", "SELL lessons", "deciding", "asking", "consulting", "judging",
             "approved"}
  /\ market \in Markets /\ blocked \in [Directions -> {"no", "rule", "unread"}]
  /\ chart \in BOOLEAN /\ attempt \in 0..2 /\ proposal \in Proposals

\* A scan that ends, and one that proposes, keep the types, and block nothing new.
LEMMA EndTypes ==
  ASSUME End
  PROVE  ScanTypes' /\ pc' = "idle" /\ blocked' = Unblocked
<1>1. NoMarket \in Markets
  BY ScanAssumption DEF NoMarket
<1>2. Unblocked \in [Directions -> {"no", "rule", "unread"}]
  BY DEF Unblocked
<1>3. Nothing \in Proposals
  BY FullIs DEF Nothing, Proposals
<1>4. /\ pc' = "idle" /\ market' = NoMarket
      /\ blocked' = Unblocked /\ chart' = FALSE /\ attempt' = 0 /\ proposal' = Nothing
  BY DEF End
<1>5. market' \in Markets /\ proposal' \in Proposals /\ blocked' \in [Directions -> {"no", "rule", "unread"}]
  BY <1>1, <1>2, <1>3, <1>4
<1>6. attempt' \in 0..2
  BY <1>4
<1>7. chart' \in BOOLEAN
  BY <1>4
<1> QED
  BY <1>4, <1>5, <1>6, <1>7 DEF ScanTypes

\* What a step does to the scan's variables, as far as types and blocks are concerned.
Orderly == ScanTypes' /\ (\/ pc' = "idle" /\ blocked' = Unblocked
                          \/ pc' # "idle" /\ UNCHANGED <<blocked, market>>)

LEMMA ProposeOrderly ==
  ASSUME ScanTypes, NEW d \in Directions \cup {"HOLD"}, NEW conf \in Nat, conf <= Full,
         Propose(d, conf)
  PROVE  Orderly
<1>1. CASE End
  BY <1>1, EndTypes DEF Orderly
<1>2. CASE ~End
  <2>1. /\ pc' = "consulting" /\ proposal' = [dir |-> d, conf |-> conf]
        /\ chart' = FALSE /\ attempt' = 0 /\ UNCHANGED <<market, blocked>>
    BY <1>2 DEF Propose
  <2>2. proposal' \in Proposals
    BY <2>1 DEF Proposals
  <2>3. attempt' = 0 /\ chart' = FALSE
    BY <2>1
  <2>4. attempt' \in 0..2
    BY <2>3
  <2>5. chart' \in BOOLEAN
    BY <2>3
  <2> QED
    BY <2>1, <2>2, <2>4, <2>5 DEF Orderly, ScanTypes
<1> QED
  BY <1>1, <1>2

LEMMA DecideOrderly == ASSUME ScanTypes, Decide PROVE Orderly
<1>1. CASE End
  BY <1>1, EndTypes DEF Orderly
<1>2. CASE ~End
  <2>1. pc' = "asking" /\ chart' \in BOOLEAN /\ UNCHANGED <<market, blocked, attempt, proposal>>
    BY <1>2 DEF Decide
  <2> QED
    BY <2>1 DEF Orderly, ScanTypes
<1> QED
  BY <1>1, <1>2

LEMMA AnsweredOrderly == ASSUME ScanTypes, NEW a \in Answers, Answered(a) PROVE Orderly
<1>1. a.action \in Directions \cup {"HOLD"} /\ a.conf \in 0..100 /\ market \in Market
  BY ScanAssumption DEF Answer, ScanTypes
<1>2. CASE a.action = "HOLD"
  BY FullIs, <1>1, <1>2, ProposeOrderly DEF Answered
<1>3. CASE a.action # "HOLD"
  <2>1. a.action \in Directions
    BY <1>1, <1>3
  <2>2. /\ Adjusted(market, a.action, a.conf) \in Nat
        /\ Adjusted(market, a.action, a.conf) <= Full
    BY <1>1, <2>1, AdjustedIsCapped
  <2>3. Propose(a.action, Adjusted(market, a.action, a.conf))
    BY <1>3 DEF Answered
  <2> QED
    BY <2>1, <2>2, <2>3, ProposeOrderly
<1> QED
  BY <1>2, <1>3

LEMMA FailsOrderly == ASSUME ScanTypes, AttemptFails PROVE Orderly
<1>1. CASE attempt < 2
  BY <1>1 DEF AttemptFails, Orderly, ScanTypes
<1>2. CASE ~(attempt < 2)
  <2>1. Propose(Fallback(market), FallbackConfidence) /\ FallbackConfidence \in Nat
        /\ FallbackConfidence <= Full
    BY FullIs, <1>2 DEF AttemptFails, FallbackConfidence
  <2>2. market \in Market
    BY ScanAssumption DEF ScanTypes
  <2>3. Fallback(market) \in Directions \cup {"HOLD"}
    BY <2>2, FallbackIsNotWeak
  <2> QED
    BY <2>1, <2>3, ProposeOrderly
<1> QED
  BY <1>1, <1>2

LEMMA ConsultOrderly == ASSUME ScanTypes, Consult PROVE Orderly
<1>1. PICK change \in {-500, 0, 500} :
        proposal' = [proposal EXCEPT !.conf = Reconsidered(proposal.conf, change)]
  BY DEF Consult
<1>2. proposal \in Proposals
  BY DEF ScanTypes
<1>3. proposal.conf \in Nat /\ proposal.conf <= Full
  BY <1>2 DEF Proposals
<1>4. /\ Reconsidered(proposal.conf, change) \in Nat
      /\ Reconsidered(proposal.conf, change) <= Full
  BY <1>3, ReconsideredBound
<1>5. Reconsidered(proposal.conf, change) \in 0..Full
  BY <1>4
<1>6. proposal' \in Proposals
  <2> DEFINE conf == Reconsidered(proposal.conf, change)
  <2> HIDE DEF conf
  <2>1. conf \in 0..Full /\ proposal' = [proposal EXCEPT !.conf = conf]
    BY <1>1, <1>5 DEF conf
  <2> QED
    BY <1>2, <2>1 DEF Proposals
<1> QED
  BY <1>6 DEF Consult, Orderly, ScanTypes

LEMMA JudgeOrderly == ASSUME ScanTypes, Judge PROVE Orderly
<1>1. CASE End
  BY <1>1, EndTypes DEF Orderly
<1>2. CASE ~End
  <2>1. pc' = "approved" /\ UNCHANGED <<market, blocked, chart, attempt, proposal>>
    BY <1>2 DEF Judge
  <2> QED
    BY <2>1 DEF Orderly, ScanTypes
<1> QED
  BY <1>1, <1>2

\* What is blocked stays with its evidence, as long as market and rules' rows do.
LEMMA BlocksStay ==
  ASSUME EvidenceInv, \A p : Evidence(p) => Evidence(p)', DOMAIN rules \subseteq DOMAIN rules',
         blocked' = Unblocked \/ UNCHANGED <<blocked, market>>
  PROVE  BlocksHaveEvidence'
<1>1. CASE blocked' = Unblocked
  BY <1>1 DEF BlocksHaveEvidence, Unblocked
<1>2. CASE UNCHANGED <<blocked, market>>
  <2>1. SUFFICES ASSUME NEW d \in Directions, blocked'[d] = "rule"
                 PROVE  \E p \in DOMAIN rules' :
                          /\ p.pair = market'.pair /\ p.dir = d
                          /\ p.session \in {LookedUp(market'.hour), "*"} /\ Evidence(p)'
    BY DEF BlocksHaveEvidence, Evidence
  <2>2. PICK p \in DOMAIN rules : /\ p.pair = market.pair /\ p.dir = d
                                  /\ p.session \in {LookedUp(market.hour), "*"} /\ Evidence(p)
    BY <1>2, <2>1 DEF EvidenceInv, BlocksHaveEvidence, Evidence
  <2>3. p \in DOMAIN rules' /\ Evidence(p)'
    BY <2>2
  <2> QED
    BY <1>2, <2>2, <2>3
<1> QED
  BY <1>1, <1>2

\* The lessons' query blocks on a rule of the table.
LEMMA LookedUpOnEvidence ==
  ASSUME EvidenceInv, NEW d \in Directions, CheckLessons(d)
  PROVE  ScanTypes' /\ pc' # "idle" /\ BlocksHaveEvidence'
<1>1. PICK v \in Verdict(d) : blocked' = [blocked EXCEPT ![d] = v]
  BY DEF CheckLessons
<1>2. /\ pc' \in {"SELL lessons", "deciding"}
      /\ UNCHANGED <<memory, market, chart, attempt, proposal>>
  BY DEF CheckLessons
<1>3. UNCHANGED <<history, rules>>
  BY <1>2 DEF memory
<1>4. TypeOK
  BY DEF EvidenceInv
<1>5. ScanTypes'
  <2>1. v \in {"no", "rule", "unread"}
    BY DEF Verdict
  <2> QED
    BY <1>1, <1>2, <1>4, <2>1 DEF ScanTypes, TypeOK
<1>6. ASSUME NEW p PROVE Evidence(p)' = Evidence(p)
  BY <1>3 DEF Evidence, Sample, Wins, Losses, Closed, Covered
<1>7. BlocksHaveEvidence'
  <2>1. SUFFICES ASSUME NEW e \in Directions, blocked'[e] = "rule"
                 PROVE  \E p \in DOMAIN rules' :
                          /\ p.pair = market'.pair /\ p.dir = e
                          /\ p.session \in {LookedUp(market'.hour), "*"} /\ Evidence(p)'
    BY DEF BlocksHaveEvidence, Evidence
  <2>2. \E p \in DOMAIN rules : /\ p.pair = market.pair /\ p.dir = e
                                /\ p.session \in {LookedUp(market.hour), "*"} /\ Evidence(p)
    <3>1. CASE e # d
      <4>1. blocked[e] = "rule"
        BY <1>1, <1>4, <2>1, <3>1 DEF TypeOK
      <4> QED
        BY <4>1 DEF EvidenceInv, BlocksHaveEvidence, Evidence
    <3>2. CASE e = d
      <4>1. v = "rule"
        BY <1>1, <1>4, <2>1, <3>2 DEF TypeOK
      <4>2. PICK read \in BOOLEAN : Blocks(market.pair, d, market.hour, read)
        BY <4>1 DEF Verdict
      <4>3. PICK p \in DOMAIN rules : /\ p.pair = market.pair /\ p.dir = d
                                      /\ p.session \in {LookedUp(market.hour), "*"}
                                      /\ rules[p] = "BLOCK"
        BY <4>2 DEF Blocks, Matching
      <4> QED
        BY <3>2, <4>3 DEF EvidenceInv
    <3> QED
      BY <3>1, <3>2
  <2> QED
    BY <1>2, <1>3, <1>6, <2>2
<1> QED
  BY <1>2, <1>5, <1>7

\* A scan leaves the memory alone.
LEMMA MemoryKept ==
  ASSUME EvidenceInv, UNCHANGED memory
  PROVE  /\ LessonsTypeOK' /\ DOMAIN rules \subseteq DOMAIN rules'
         /\ \A p : Evidence(p) => Evidence(p)'
         /\ \A p \in DOMAIN rules' : rules'[p] = "BLOCK" => Evidence(p)'
         /\ \A f \in found' : f[2] = "BLOCK" => Evidence(f[1])'
<1>1. UNCHANGED <<history, due, found, rules>>
  BY DEF memory
<1>2. LessonsTypeOK
  BY DEF EvidenceInv, TypeOK
<1>3. LessonsTypeOK'
  BY <1>1, <1>2 DEF LessonsTypeOK, Table
<1>4. ASSUME NEW p PROVE Evidence(p) => Evidence(p)'
  BY <1>1, <1>2, <1>3, EvidenceStays
<1> QED
  BY <1>1, <1>3, <1>4 DEF EvidenceInv

LEMMA EvidenceStart == Init => EvidenceInv
<1> SUFFICES ASSUME Init PROVE EvidenceInv
  OBVIOUS
<1>1. LessonsTypeOK
  BY SeedsAssumption DEF Init, LessonsInit, LessonsTypeOK
<1>2. TypeOK
  <2>1. NoMarket \in Markets /\ Nothing \in Proposals
    BY FullIs, ScanAssumption DEF NoMarket, Nothing, Proposals
  <2> QED
    <3>1. blocked \in [Directions -> {"no", "rule", "unread"}] /\ pc = "idle" /\ market \in Markets
      BY <2>1 DEF Init, Unblocked
    <3>2. attempt \in 0..2
      BY DEF Init
    <3>3. chart \in BOOLEAN
      BY DEF Init
    <3>4. proposal \in Proposals
      BY <2>1 DEF Init
    <3> QED
      BY <1>1, <3>1, <3>2, <3>3, <3>4 DEF TypeOK
<1>3. \A p \in DOMAIN rules : rules[p] # "BLOCK"
  BY SeedsAssumption DEF Init, LessonsInit
<1>4. found = {} /\ blocked = Unblocked
  BY DEF Init, LessonsInit
<1>5. BlocksHaveEvidence
  BY <1>4 DEF BlocksHaveEvidence, Unblocked
<1> QED
  BY <1>2, <1>3, <1>4, <1>5 DEF EvidenceInv

LEMMA EvidenceStep == EvidenceInv /\ [Next]_vars => EvidenceInv'
<1> SUFFICES ASSUME EvidenceInv, [Next]_vars PROVE EvidenceInv'
  OBVIOUS
<1>1. TypeOK /\ ScanTypes /\ LessonsTypeOK
  BY DEF EvidenceInv, TypeOK, ScanTypes
<1>2. CASE Remember /\ UNCHANGED scan
  <2>1. LessonsTypeOK' /\ history \subseteq history' /\ DOMAIN rules \subseteq DOMAIN rules'
    BY <1>1, <1>2, RememberTypes
  <2>2. UNCHANGED <<pc, market, blocked, chart, attempt, proposal>>
    BY <1>2 DEF scan
  <2>3. \A p : Evidence(p) => Evidence(p)'
    BY <1>1, <2>1, EvidenceStays
  <2>4. /\ \A p \in DOMAIN rules' : rules'[p] = "BLOCK" => Evidence(p)'
        /\ \A f \in found' : f[2] = "BLOCK" => Evidence(f[1])'
    BY <1>2, <2>1, RulesKeepEvidence
  <2>5. BlocksHaveEvidence'
    BY <2>1, <2>2, <2>3, BlocksStay
  <2>6. TypeOK'
    BY <1>1, <2>1, <2>2 DEF TypeOK
  <2>7. pc' = "idle" => blocked' = Unblocked
    BY <2>2 DEF EvidenceInv
  <2> QED
    BY <2>4, <2>5, <2>6, <2>7 DEF EvidenceInv
<1>3. ASSUME UNCHANGED memory, ScanTypes', BlocksHaveEvidence', pc' = "idle" => blocked' = Unblocked
      PROVE  EvidenceInv'
  <2>1. TypeOK'
    BY <1>3, MemoryKept DEF TypeOK, ScanTypes
  <2> QED
    BY <1>3, <2>1, MemoryKept DEF EvidenceInv
<1>4. ASSUME UNCHANGED memory, Orderly PROVE EvidenceInv'
  <2>1. BlocksHaveEvidence'
    BY <1>4, MemoryKept, BlocksStay DEF Orderly
  <2> QED
    BY <1>3, <1>4, <2>1 DEF Orderly
<1>5. CASE Snapshot
  <2>1. blocked' = Unblocked /\ UNCHANGED memory /\ pc' = "BUY lessons" /\ market' \in Markets
        /\ UNCHANGED <<blocked, chart, attempt, proposal>>
    BY <1>5 DEF Snapshot, EvidenceInv
  <2>2. ScanTypes'
    BY <1>1, <2>1 DEF ScanTypes
  <2>3. BlocksHaveEvidence'
    BY <2>1, MemoryKept, BlocksStay
  <2> QED
    BY <1>3, <2>1, <2>2, <2>3
<1>6. ASSUME NEW d \in Directions, CheckLessons(d) PROVE EvidenceInv'
  BY <1>3, <1>6, LookedUpOnEvidence DEF CheckLessons
<1>7. CASE Decide
  BY <1>1, <1>4, <1>7, DecideOrderly DEF Decide
<1>8. ASSUME NEW a \in Answers, Answered(a) PROVE EvidenceInv'
  BY <1>1, <1>4, <1>8, AnsweredOrderly DEF Answered
<1>9. CASE AttemptFails
  BY <1>1, <1>4, <1>9, FailsOrderly DEF AttemptFails
<1>10. CASE Consult
  BY <1>1, <1>4, <1>10, ConsultOrderly DEF Consult
<1>11. CASE Judge
  BY <1>1, <1>4, <1>11, JudgeOrderly DEF Judge
<1>12. CASE Order
  <2>1. Orderly
    BY <1>12, EndTypes DEF Order, Orderly
  <2> QED
    BY <1>4, <1>12, <2>1 DEF Order
<1>13. CASE UNCHANGED vars
  <2>1. UNCHANGED memory /\ UNCHANGED <<pc, market, blocked, chart, attempt, proposal>>
    BY <1>13 DEF vars, scan
  <2>2. ScanTypes' /\ (pc' = "idle" => blocked' = Unblocked)
    BY <1>1, <2>1 DEF ScanTypes, EvidenceInv
  <2>3. BlocksHaveEvidence'
    BY <2>1, MemoryKept, BlocksStay
  <2> QED
    BY <1>3, <2>1, <2>2, <2>3
<1> QED
  BY <1>2, <1>5, <1>6, <1>7, <1>8, <1>9, <1>10, <1>11, <1>12, <1>13 DEF Next

\* Type correctness of scan and memory.
THEOREM Typing == Spec => []TypeOK
<1>1. EvidenceInv => TypeOK
  BY DEF EvidenceInv
<1> QED
  BY <1>1, EvidenceStart, EvidenceStep, PTL DEF Spec

\* No rule blocks a direction without the lost trades to show for it, whichever analyses
\* overlap or fail while the scan looks the rules up (lesson_analyzer.py:262-326).
THEOREM BlocksAreEvident == Spec => []BlocksHaveEvidence
<1>1. EvidenceInv => BlocksHaveEvidence
  BY DEF EvidenceInv
<1> QED
  BY <1>1, EvidenceStart, EvidenceStep, PTL DEF Spec
================================================================================
