---------------------------------- MODULE Scan ----------------------------------
(***************************************************************************)
(* One pair after the other, from the snapshot to the risk engine's look at  *)
(* the confidence: the lessons, the strategies, the filters, the model with  *)
(* its three attempts, the rules in its stead, the filters again, the second *)
(* opinion.  Meanwhile trades close and the trading memory changes.          *)
(*                                                                           *)
(* A snapshot that is missing or not tradeable, a spread too wide and a pair *)
(* with all its positions end a scan before it touches anything: they are    *)
(* left out.  So are chart, briefing and sentiment, which only reach the     *)
(* prompt; the model may answer anything.                                    *)
(***************************************************************************)
EXTENDS Lessons

CONSTANTS
  Markets,      \* the snapshots
  Answers,      \* what the model may answer, if it can be read
  BuyOnly,      \* config.buy_only_mode
  MinConf,      \* the dashboard's minimal confidence, in percent
  MaxConf       \* config.max_confidence, in percent

ASSUME ScanAssumption ==
  /\ Markets \subseteq Market /\ Markets # {} /\ Answers \subseteq Answer
  /\ BuyOnly \in BOOLEAN /\ MinConf \in 50..90 /\ MaxConf \in 0..100

VARIABLES
  pc,       \* where the scan stands
  market,   \* its snapshot
  blocked,  \* per direction: "no", by a "rule", or "unread" for a failing query
  chart,    \* whether the model is shown a chart
  attempt,  \* calls of the model so far
  proposal  \* direction and confidence

scan == <<pc, market, blocked, chart, attempt, proposal>>
vars == <<memory, scan>>

Proposals == [dir : Directions \cup {"HOLD"}, conf : 0..Full]
Nothing == [dir |-> "HOLD", conf |-> 0]
NoMarket == CHOOSE m \in Markets : TRUE
Unblocked == [d \in Directions |-> "no"]

TypeOK ==
  /\ LessonsTypeOK
  /\ pc \in {"idle", "BUY lessons", "SELL lessons", "deciding", "asking", "consulting", "judging", "approved"}
  /\ market \in Markets
  /\ blocked \in [Directions -> {"no", "rule", "unread"}]
  /\ chart \in BOOLEAN /\ attempt \in 0..2
  /\ proposal \in Proposals

Init ==
  /\ LessonsInit
  /\ pc = "idle" /\ market = NoMarket
  /\ blocked = Unblocked /\ chart = FALSE /\ attempt = 0 /\ proposal = Nothing

\* The scan is over.
End ==
  /\ pc' = "idle" /\ market' = NoMarket
  /\ blocked' = Unblocked /\ chart' = FALSE /\ attempt' = 0 /\ proposal' = Nothing

Snapshot ==
  /\ pc = "idle" /\ pc' = "BUY lessons" /\ market' \in Markets
  /\ UNCHANGED <<memory, blocked, chart, attempt, proposal>>

\* The rules of a direction: failing to read the blocks is a block, failing to read the
\* boosts is none.
Verdict(d) ==
  {"unread"} \cup {IF Blocks(market.pair, d, market.hour, read) THEN "rule" ELSE "no" : read \in BOOLEAN}
CheckLessons(d) ==
  /\ pc = (IF d = "BUY" THEN "BUY lessons" ELSE "SELL lessons")
  /\ blocked' \in {[blocked EXCEPT ![d] = v] : v \in Verdict(d)}
  /\ pc' = (IF d = "BUY" THEN "SELL lessons" ELSE "deciding")
  /\ UNCHANGED <<memory, market, chart, attempt, proposal>>

\* Both directions blocked, no quantitative signal, or one in a blocked direction or
\* against the higher time frames: no call is paid for.
Decide ==
  LET d == Quant(market)
  IN  /\ pc = "deciding"
      /\ \/ /\ d # "HOLD" /\ blocked[d] = "no" /\ Admits(market, d)
            /\ pc' = "asking" /\ chart' \in BOOLEAN
            /\ UNCHANGED <<market, blocked, attempt, proposal>>
         \/ /\ d = "HOLD" \/ (d # "HOLD" /\ (blocked[d] # "no" \/ ~Admits(market, d)))
            /\ End
      /\ UNCHANGED memory

\* (mutant of Rechecked: the direction is taken to be the one already checked)
RecheckedBefore(d) == TRUE
\* Step 5b: the filters once more, on the direction that came out.
Rechecked(d) == Admits(market, d)

\* A proposal that is not HOLD goes on to the second opinion.
Propose(d, conf) ==
  IF d # "HOLD" /\ Rechecked(d)
  THEN /\ pc' = "consulting" /\ proposal' = [dir |-> d, conf |-> conf]
       /\ chart' = FALSE /\ attempt' = 0 /\ UNCHANGED <<market, blocked>>
  ELSE End

\* The trend check of a call without a chart.
Accepted(a) ==
  chart \/ a.action = "HOLD"
        \/ (~(a.action = "SELL" /\ BuyOnly) /\ ~AgainstTrend(market, a.action))

Answered(a) ==
  /\ pc = "asking" /\ Valid(a, market.pair) /\ Accepted(a)
  /\ Propose(a.action, IF a.action = "HOLD" THEN 0 ELSE Adjusted(market, a.action, a.conf))
  /\ UNCHANGED memory

\* An exception, an answer that cannot be read, one that is not valid or goes against the
\* trend: another attempt, and after the third the rules.
AttemptFails ==
  /\ pc = "asking"
  /\ IF attempt < 2 THEN attempt' = attempt + 1 /\ UNCHANGED <<pc, market, blocked, chart, proposal>>
                    ELSE Propose(Fallback(market), FallbackConfidence)
  /\ UNCHANGED memory

\* (mutant of Reconsidered: the confidence is added to as it comes)
ReconsideredUncapped(conf, change) == conf + change
\* ConsensusEngine.validate: it agrees, or not, or cannot be had.
Reconsidered(conf, change) ==
  IF change = 0 THEN conf ELSE Clamp(conf + change, IF change > 0 THEN 100 * MaxConf ELSE Full)
Consult ==
  /\ pc = "consulting" /\ pc' = "judging"
  /\ \E change \in {-500, 0, 500} :
       proposal' = [proposal EXCEPT !.conf = Reconsidered(proposal.conf, change)]
  /\ UNCHANGED <<memory, market, blocked, chart, attempt>>

\* _check_confidence and _check_confidence_ceiling; the rest of the risk engine may reject.
Admissible(conf, cautious) ==
  conf >= 100 * (IF cautious THEN MinConf + 10 ELSE MinConf) /\ conf <= 100 * MaxConf
Judge ==
  /\ pc = "judging"
  /\ \/ /\ \E cautious \in BOOLEAN : Admissible(proposal.conf, cautious)
        /\ pc' = "approved" /\ UNCHANGED <<market, blocked, chart, attempt, proposal>>
     \/ End
  /\ UNCHANGED memory

Order == pc = "approved" /\ End /\ UNCHANGED memory

Next == \/ Remember /\ UNCHANGED scan
        \/ Snapshot \/ (\E d \in Directions : CheckLessons(d)) \/ Decide
        \/ (\E a \in Answers : Answered(a)) \/ AttemptFails \/ Consult \/ Judge \/ Order

Spec == Init /\ [][Next]_vars

----------------------------------------------------------------------------
(* Properties *)

Proposed == pc \in {"consulting", "judging", "approved"}

\* No proposal goes against the filters of the higher time frames, whether it is the
\* model's, flips the strategies' direction or comes from the rules (scanner.py:389-443).
FiltersHold == Proposed => Admits(market, proposal.dir)

\* With the configured threshold of 0.70, an order has two confirmations of its direction,
\* whatever is added after the cap: session, second opinion, or the rules' confidence that
\* nothing adjusts (confidence.py:100-103).
WeakIsBarred == (pc = "approved" /\ MinConf >= 70) => ~Weak(market, proposal.dir)

\* A rule blocks a direction only after enough trades of one of the patterns it was looked
\* up under, most of them lost, whichever analyses overlap or fail
\* (lesson_analyzer.py:262-326, lesson_filter.py:54-140).
BlocksHaveEvidence ==
  \A d \in Directions : blocked[d] = "rule" =>
    \E p \in DOMAIN rules :
      /\ p.pair = market.pair /\ p.dir = d /\ p.session \in {LookedUp(market.hour), "*"}
      /\ Sample(p) >= MinSample /\ 100 * Losses(p) > 65 * MinSample

\* "BLOCK rules: If any BLOCK rule matches current conditions, the pair is skipped"
\* (lesson_filter.py:7).
NoBlockedDirection == pc = "approved" => blocked[proposal.dir] = "no"

\* "This engine decides. Claude reviews the decision and approves/rejects"
\* (quant_engine.py:8-9).
QuantDecides == pc = "approved" => proposal.dir = Quant(market)

\* "BUY_ONLY_MODE: block all SELL signals" (scanner.py:593).
BuyOnlyHolds == (pc = "approved" /\ BuyOnly) => proposal.dir = "BUY"

\* "reject signals above 0.80 rather than size up on them" (config.py:109-110): what is too
\* confident stays so.
OverconfidenceIsRejected ==
  [][(pc = "consulting" /\ proposal.conf > 100 * MaxConf) => ~Admissible(proposal'.conf, FALSE)]_vars

\* "Called after every trade closes to build the adaptive trading memory"
\* (lesson_analyzer.py:5): once the analyses are through, the rules are what the history says.
RulesKeepUp ==
  (due = {} /\ found = {}) => \A p \in DOMAIN rules : rules[p] \in {Judged(p), "old"}

\* "Return the session label used by lesson_filter and lesson_analyzer" (time_utils.py:75).
OneSessionPerHour == \A hour \in 0..23 : LookedUp(hour) = SessionOf(hour)
================================================================================
