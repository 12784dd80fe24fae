-------------------------------- MODULE Lessons --------------------------------
(***************************************************************************)
(* The trading memory: what the closed trades of a pattern say, the rule     *)
(* trading_lessons keeps of it, and what the rules let the scanner do.       *)
(*                                                                           *)
(* A pattern is a pair, a direction, a session or "*" for any, and a setup   *)
(* or "*" for any: the indicators at the entry, an RSI bracket and the order *)
(* of the averages.  Only a pattern's key tells setups apart: neither the    *)
(* statistics behind a rule nor its use look at them.                        *)
(***************************************************************************)
EXTENDS Strategy

CONSTANTS
  Setups,       \* what the indicators at an entry may be
  Kinds,        \* the trades that may close: pair, direction, hour of the opening, setup (or
                \* "*" if its signal is not found), outcome
  Seeds,        \* the rules in the table at the start, as seed_initial_rules writes them
  MinSample,    \* MIN_SAMPLE_SIZE
  MaxTrades, MaxFound, MaxAged   \* bounds: trades that close, evaluations between read and
                                 \* write, rules that grow old

Sessions == {"ASIAN", "LONDON", "NY", "OTHER"}
Pattern == [pair : Pairs, dir : Directions, session : Sessions \cup {"*"}, setup : Setups \cup {"*"}]

ASSUME LessonsAssumption ==
  /\ Kinds \subseteq [pair : Pairs, dir : Directions, hour : 0..23, setup : Setups \cup {"*"},
                     won : BOOLEAN]
  /\ IsFiniteSet(Kinds) /\ MinSample \in Nat \ {0} /\ {MaxTrades, MaxFound, MaxAged} \subseteq Nat

\* What a table of rules holds.
RuleTypes == {"BLOCK", "BOOST", "NEUTRAL"}
Table(r) == DOMAIN r \subseteq Pattern /\ \A p \in DOMAIN r : r[p] \in RuleTypes \cup {"old"}
ASSUME SeedsAssumption == Table(Seeds) /\ \A p \in DOMAIN Seeds : Seeds[p] = "BOOST"

VARIABLES
  history,  \* the closed trades: their kind, and a number among those of the kind
  due,      \* patterns that analyses in flight have still to evaluate
  found,    \* <<pattern, rule>>: evaluated, and not written yet
  rules     \* trading_lessons: the rules of the patterns it has a row for; "old" past
            \* lesson_max_age_days

memory == <<history, due, found, rules>>

LessonsTypeOK ==
  /\ history \subseteq Kinds \X (1..MaxTrades)
  /\ due \subseteq Pattern
  /\ found \subseteq Pattern \X RuleTypes
  /\ Table(rules)

LessonsInit ==
  /\ history = {} /\ due = {} /\ found = {}
  /\ rules = Seeds

\* _hour_to_session: the session a trade is remembered under.
SessionOf(hour) ==
  IF hour < 8 THEN "ASIAN" ELSE IF hour < 13 THEN "LONDON" ELSE IF hour < 21 THEN "NY" ELSE "OTHER"

\* _build_pattern_keys
PatternsOf(k) ==
  {[pair |-> k.pair, dir |-> k.dir, session |-> s, setup |-> "*"] : s \in {SessionOf(k.hour), "*"}}
  \cup {[pair |-> k.pair, dir |-> k.dir, session |-> SessionOf(k.hour), setup |-> k.setup]}

\* The kinds of trade a pattern's statistics count, and how many of them are closed.
Covered(p) ==
  {k \in Kinds : k.pair = p.pair /\ k.dir = p.dir /\ p.session \in {SessionOf(k.hour), "*"}}
Closed(kinds) == Cardinality({t \in history : t[1] \in kinds})
Wins(p) == Closed({k \in Covered(p) : k.won})
Losses(p) == Closed({k \in Covered(p) : ~k.won})
Sample(p) == Wins(p) + Losses(p)

\* (mutant of Judged: a single trade is enough)
JudgedOnOne(p) ==
  IF 100 * Wins(p) < 35 * Sample(p) THEN "BLOCK"
  ELSE IF 100 * Wins(p) > 65 * Sample(p) THEN "BOOST" ELSE "NEUTRAL"
\* The rule the history makes of a pattern.
Judged(p) ==
  IF Sample(p) < MinSample THEN "NEUTRAL"
  ELSE IF 100 * Wins(p) < 35 * Sample(p) THEN "BLOCK"
  ELSE IF 100 * Wins(p) > 65 * Sample(p) THEN "BOOST" ELSE "NEUTRAL"

\* A trade closes; a task of its own goes through its patterns, most specific first.
TradeCloses(k) ==
  /\ Closed(Kinds) < MaxTrades
  /\ history' = history \cup {<<k, Closed({k}) + 1>>}
  /\ due' = due \cup PatternsOf(k)
  /\ UNCHANGED <<found, rules>>

\* _evaluate_pattern reads the closed trades; a failing read leaves the pattern out.
Evaluate(p) ==
  /\ p \in due /\ due' = due \ {p} /\ Cardinality(found) < MaxFound
  /\ found' \in {found, found \cup {<<p, Judged(p)>>}}
  /\ UNCHANGED <<history, rules>>

\* The upsert names no conflict target, so it inserts a new id, and the table's
\* UNIQUE (account_id, pattern_key) refuses a pattern it has.  It may fail anyway.
Write(f) ==
  /\ f \in found /\ found' = found \ {f}
  /\ rules' \in {rules, [p \in DOMAIN rules \cup {f[1]} |->
                         IF p \in DOMAIN rules THEN rules[p] ELSE f[2]]}
  /\ UNCHANGED <<history, due>>

\* A neutral rule is never looked up: its age does not matter.
RuleAges(p) ==
  /\ rules[p] \in {"BLOCK", "BOOST"} /\ Cardinality({q \in DOMAIN rules : rules[q] = "old"}) < MaxAged
  /\ rules' = [rules EXCEPT ![p] = "old"]
  /\ UNCHANGED <<history, due, found>>

Remember == \/ \E k \in Kinds : TradeCloses(k)
            \/ \E p \in due : Evaluate(p)
            \/ \E f \in found : Write(f)
            \/ \E p \in DOMAIN rules : RuleAges(p)

----------------------------------------------------------------------------
(* LessonFilter.check *)

\* _session_map in the scanner: the session an hour is looked up under.
LookedUp(hour) ==
  CASE Session(hour) = "TOKYO" -> "ASIAN"
    [] Session(hour) \in {"LONDON", "OVERLAP"} -> "LONDON"
    [] Session(hour) = "NEW_YORK" -> "NY"
    [] OTHER -> "OTHER"

Specificity(p) == IF p.session = "*" THEN 2 ELSE 3
Matching(type, pair, d, hour) ==
  {p \in DOMAIN rules : p.pair = pair /\ p.dir = d /\ p.session \in {LookedUp(hour), "*"} /\ rules[p] = type}

\* A boost as specific as every block outweighs them.
Outweighs(boosts, blocks) ==
  \E b \in boosts : \A p \in blocks : Specificity(b) >= Specificity(p)
Blocks(pair, d, hour, boostsRead) ==
  LET blocks == Matching("BLOCK", pair, d, hour)
      boosts == IF boostsRead THEN Matching("BOOST", pair, d, hour) ELSE {}
  IN  blocks # {} /\ ~Outweighs(boosts, blocks)
================================================================================
