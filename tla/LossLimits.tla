------------------------------ MODULE LossLimits ------------------------------
(***************************************************************************)
(* The loss limits: the daily and weekly P&L that StateManager keeps in      *)
(* memory, the closes booked into them, their resets and their copy in the   *)
(* row of "system_state", the balance they are divided by, and the two       *)
(* places that stop trading on them, the head of the signal loop and the     *)
(* risk engine's state.                                                      *)
(*                                                                           *)
(* A process lives, dies and is followed by another; midnights pass at any   *)
(* moment.  P&L, equity and balance are in one unit of money.  The kill      *)
(* switch is KillSwitch's, the circuit breaker CircuitBreaker's: here they   *)
(* and a streak of losses are inputs of the evaluation.                      *)
(***************************************************************************)
EXTENDS Integers

CONSTANTS
  WeekDays,      \* days of a week, which begins with day 0
  Equity,        \* what each account holds: [Accounts -> Nat]
  DailyPct, WeeklyPct,   \* daily_loss_limit_pct and weekly_loss_limit_pct, in percent
  NoBalanceLimit,  \* the head of the loop's limit while the balance is 0
  AccountBreaker,  \* _BALANCE_ACCOUNT_BREAKER_THRESHOLD
  BreakerFor,    \* _BALANCE_ACCOUNT_BREAKER_SECONDS, in rounds of persist_loop
  AlertAfter,    \* _BALANCE_STALE_ALERT_THRESHOLD
  Pnls,          \* what a close may bring
  MaxLoss, MaxProfit,  \* bounds of both counters
  Events,        \* what may go wrong: see AllEvents
  MaxFaults      \* bound: how often

\* OANDA's main account and the spot crypto sub-account, if there is one.
Accounts == DOMAIN Equity

\* A crash; a failing read of the row by restore(); a failing save; a failing fetch of
\* an account's summary.
AllEvents == {"crash", "restore", "save", "fetch"}

ASSUME ConstantsAssumption ==
  /\ WeekDays \in Nat \ {0}
  /\ Accounts \subseteq {"MAIN", "CRYPTO"} /\ "MAIN" \in Accounts
  /\ \A a \in Accounts : Equity[a] \in Nat \ {0}
  /\ {DailyPct, WeeklyPct, NoBalanceLimit} \subseteq Nat \ {0}
  /\ AccountBreaker \in Nat \ {0} /\ BreakerFor \in Nat /\ AlertAfter \in Nat
  /\ Pnls \subseteq Int /\ {MaxLoss, MaxProfit} \subseteq Nat
  /\ Events \subseteq AllEvents /\ MaxFaults \in Nat

VARIABLES
  weekday,
  life,        \* "down", "primary": it has the lock, or "up": past restore() too
  daily, weekly,           \* _state: daily_pnl, weekly_pnl
  dayReset, weekReset,     \* _last_daily_reset, _last_weekly_reset: "none", "now" or "past"
  balance,     \* _state: account_balance
  row,         \* system_state: the two counters, and whether updated_at is of today
  account,     \* failures on record and rounds until the breaker ends, per account
  refreshFailures, alerted,  \* _consecutive_balance_refresh_failures, _balance_stale_alert_sent
  stale,       \* rounds in a row without any summary, up to AlertAfter
  persist,     \* persist_loop: "asleep" or "refreshing"
  scan,        \* the signal loop: "idle", "evaluating" or "checking"
  faults

counters == <<daily, weekly>>
marks == <<dayReset, weekReset>>
feed == <<account, refreshFailures, alerted, stale>>
vars == <<weekday, life, counters, marks, balance, row, feed, persist, scan, faults>>

Amounts == -MaxLoss..MaxProfit

TypeOK ==
  /\ weekday \in 0..(WeekDays - 1)
  /\ life \in {"down", "primary", "up"}
  /\ daily \in Amounts /\ weekly \in Amounts
  /\ dayReset \in {"none", "now", "past"} /\ weekReset \in {"none", "now", "past"}
  /\ balance \in Nat
  /\ row \in [daily : Amounts, weekly : Amounts, today : BOOLEAN]
  /\ account \in [Accounts -> [failures : 0..AccountBreaker, wait : 0..BreakerFor]]
  /\ refreshFailures \in Nat /\ alerted \in BOOLEAN /\ stale \in 0..AlertAfter
  /\ persist \in {"asleep", "refreshing"}
  /\ scan \in {"idle", "evaluating", "checking"}
  /\ faults \in 0..MaxFaults

\* Before the first process.
Init ==
  /\ weekday = 0 /\ life = "down"
  /\ daily = 0 /\ weekly = 0
  /\ dayReset = "none" /\ weekReset = "none" /\ balance = 0
  /\ row = [daily |-> 0, weekly |-> 0, today |-> FALSE]
  /\ account = [a \in Accounts |-> [failures |-> 0, wait |-> 0]]
  /\ refreshFailures = 0 /\ alerted = FALSE /\ stale = 0
  /\ persist = "asleep" /\ scan = "idle" /\ faults = 0

May(event) == event \in Events /\ faults < MaxFaults /\ faults' = faults + 1

----------------------------------------------------------------------------
(* The balance *)

\* (mutant of Merged: the summary of an account that stands in counts twice)
MergedTwice(asked, answer) ==
  LET of(a) == IF a \notin asked \/ answer[a] = "none" THEN 0 ELSE Equity[answer[a]]
  IN  of("MAIN") + of("CRYPTO")
\* The sum of the summaries of the accounts asked.  The crypto account may be answered
\* for by the main one, which counts once.
Merged(asked, answer) ==
  LET heard == {answer[a] : a \in asked} \ {"none"}
      of(a) == IF a \in heard THEN Equity[a] ELSE 0
  IN  of("MAIN") + of("CRYPTO")

\* What an account's summary can be: its own, none, or for the crypto account the main
\* account's (an answer 400 or 404).
Answers == {answer \in [Accounts -> Accounts \cup {"none"}] :
              answer["MAIN"] \in {"MAIN", "none"}}

\* A fetch that is not answered for its own account is a fault.
Fetch(answer) ==
  IF \E a \in Accounts : answer[a] # a THEN May("fetch") ELSE UNCHANGED faults

\* The accounts whose breaker is not open.
Asked == {a \in Accounts : account[a].wait = 0}

\* (mutant of Waited: a broken account is never asked again)
StillWaiting(w) == w
\* The breaker's time runs.
Waited(w) == w - 1

\* _get_balance_summary_with_account_breakers: what it leaves on record.
Recorded(answer) ==
  [a \in Accounts |->
     IF a \notin Asked THEN [account[a] EXCEPT !.wait = Waited(@)]
     ELSE IF answer[a] # "none" THEN [failures |-> 0, wait |-> 0]
     ELSE IF account[a].failures + 1 >= AccountBreaker
     THEN [failures |-> AccountBreaker, wait |-> BreakerFor]
     ELSE [account[a] EXCEPT !.failures = @ + 1]]

----------------------------------------------------------------------------
(* Closes *)

\* (mutant of ThisWeek: a close of unknown date is left out of the week)
KnownThisWeek(closed) == closed \in {"today", "this week"}
\* Which period a reconciled close counts in: "this week" is an earlier day of it.  The
\* unknown date of a close counts as today's.
Today(closed) == closed \in {"today", "unknown"}
ThisWeek(closed) == closed \in {"today", "this week", "unknown"}
ClosedDates == {"today", "earlier", "unknown"} \cup (IF weekday > 0 THEN {"this week"} ELSE {})

Add(p, closed, d, w) ==
  /\ daily' = d + (IF Today(closed) THEN p ELSE 0)
  /\ weekly' = w + (IF ThisWeek(closed) THEN p ELSE 0)
  /\ daily' \in Amounts /\ weekly' \in Amounts

\* _update_closed_trade, after it has claimed the row.
MonitorBooks(p) ==
  /\ life = "up"
  /\ daily' = daily + p /\ weekly' = weekly + p
  /\ daily' \in Amounts /\ weekly' \in Amounts
  /\ UNCHANGED <<weekday, life, marks, balance, row, feed, persist, scan, faults>>

\* _book_reconciled_pnl, called by reconcile_positions.
ReconcilerBooks(p, closed) ==
  /\ life = "up" /\ Add(p, closed, daily, weekly)
  /\ UNCHANGED <<weekday, life, marks, balance, row, feed, persist, scan, faults>>

----------------------------------------------------------------------------
(* The life of the process *)

Crash ==
  /\ life # "down" /\ May("crash")
  /\ life' = "down"
  /\ daily' = 0 /\ weekly' = 0
  /\ dayReset' = "none" /\ weekReset' = "none" /\ balance' = 0
  /\ account' = [a \in Accounts |-> [failures |-> 0, wait |-> 0]]
  /\ refreshFailures' = 0 /\ alerted' = FALSE /\ stale' = 0
  /\ persist' = "asleep" /\ scan' = "idle"
  /\ UNCHANGED <<weekday, row>>

Saved(failed) ==
  row' = IF failed THEN row ELSE [daily |-> daily', weekly |-> weekly', today |-> TRUE]

\* The acquisition of the lock writes updated_at of the same row.
Acquire ==
  /\ life = "down" /\ life' = "primary"
  /\ row' = [row EXCEPT !.today = TRUE]
  /\ UNCHANGED <<weekday, counters, marks, balance, feed, persist, scan, faults>>

\* restore(): the counters from the row, the day's only if updated_at is of today, that is
\* unless midnight has passed since the acquisition; then the balance, a reconciliation that
\* may find a close to book, and a save.  A failing read leaves the defaults, which the save
\* then writes.
Restore ==
  /\ life = "primary" /\ life' = "up"
  /\ \E read \in BOOLEAN, answer \in Answers, p \in Pnls \cup {0}, closed \in ClosedDates :
       /\ IF read THEN Fetch(answer) ELSE May("restore") /\ answer["MAIN"] = "MAIN"
       /\ Add(p, closed, IF read /\ row.today THEN row.daily ELSE 0,
                         IF read THEN row.weekly ELSE 0)
       /\ balance' = Merged(Accounts, answer)
  /\ Saved(FALSE)
  /\ UNCHANGED <<weekday, marks, feed, persist, scan>>

Turned(mark) == IF mark = "none" THEN "none" ELSE "past"

NextDay == (weekday + 1) % WeekDays

Midnight ==
  /\ weekday' = NextDay
  /\ dayReset' = Turned(dayReset)
  /\ weekReset' = IF weekday' = 0 THEN Turned(weekReset) ELSE weekReset
  /\ row' = [row EXCEPT !.today = FALSE]
  /\ UNCHANGED <<life, counters, balance, feed, persist, scan, faults>>

----------------------------------------------------------------------------
(* persist_loop *)

\* (mutant of DayIsNew: every round resets the day)
DayIsAlwaysNew == TRUE
\* The day of the last reset in this life is not the present one.
DayIsNew == dayReset # "now"

\* (mutant of WeekIsNew: the week is never reset)
WeekIsOne == FALSE
\* The week of the last reset in this life is not the present one.
WeekIsNew == weekReset # "now"

\* A round begins with the resets.
PersistReset ==
  /\ life = "up" /\ persist = "asleep" /\ persist' = "refreshing"
  /\ IF DayIsNew THEN daily' = 0 /\ dayReset' = "now"
     ELSE UNCHANGED <<daily, dayReset>>
  /\ IF WeekIsNew THEN weekly' = 0 /\ weekReset' = "now"
     ELSE UNCHANGED <<weekly, weekReset>>
  /\ UNCHANGED <<weekday, life, balance, row, feed, scan, faults>>

\* The fetches are over, and save() ends the round.  Their exceptions are counted per
\* account and go no further: refreshFailures counts those that would.
PersistSave ==
  /\ life = "up" /\ persist = "refreshing" /\ persist' = "asleep"
  /\ \E answer \in Answers, failed \in BOOLEAN :
       /\ IF failed THEN May("save") /\ \A a \in Accounts : answer[a] = a
          ELSE Fetch(answer)
       /\ account' = Recorded(answer)
       /\ LET merged == Merged(Asked, answer)
          IN  IF merged > 0
              THEN /\ balance' = merged /\ stale' = 0
                   /\ refreshFailures' = 0 /\ alerted' = FALSE
              ELSE /\ stale' = IF stale < AlertAfter THEN stale + 1 ELSE stale
                   /\ UNCHANGED <<balance, refreshFailures, alerted>>
       /\ UNCHANGED counters
       /\ Saved(failed)
  /\ UNCHANGED <<weekday, life, marks, scan>>

----------------------------------------------------------------------------
(* The signal loop *)

Below(pnl, pct) == 100 * pnl <= -(pct * balance)

\* _signal_loop asks every account, and goes on if the day's loss is within the limit.
StartScan ==
  /\ life = "up" /\ scan = "idle"
  /\ \E answer \in Answers :
       /\ Fetch(answer)
       /\ LET merged == Merged(Accounts, answer)
          IN  balance' = IF merged > 0 THEN merged ELSE balance
  /\ scan' = IF IF balance' > 0 THEN 100 * daily < -(DailyPct * balance')
                ELSE daily < -NoBalanceLimit
             THEN "idle" ELSE "evaluating"
  /\ UNCHANGED <<weekday, life, counters, marks, row, feed, persist>>

\* evaluate_transitions; without a balance there are no percentages, and no limits.
RiskState(kill, breakerOpen, streak) ==
  IF kill THEN "EMERGENCY_HALT"
  ELSE IF balance > 0 /\ Below(weekly, WeeklyPct) THEN "WEEKLY_LIMIT"
  ELSE IF balance > 0 /\ Below(daily, DailyPct) THEN "DAILY_LIMIT"
  ELSE IF breakerOpen THEN "CIRCUIT_OPEN"
  ELSE IF streak \/ (balance > 0 /\ 200 * daily <= -(5 * balance)) THEN "CAUTIOUS"
  ELSE "NORMAL"

Blocking == {"EMERGENCY_HALT", "WEEKLY_LIMIT", "DAILY_LIMIT", "CIRCUIT_OPEN"}

\* evaluate reads the state once, before its other checks and their queries; an
\* exception on the way makes it CAUTIOUS.
ReadRiskState ==
  /\ scan = "evaluating"
  /\ \E kill, breakerOpen, streak \in BOOLEAN :
       scan' = IF RiskState(kill, breakerOpen, streak) \in Blocking THEN "idle" ELSE "checking"
  /\ UNCHANGED <<weekday, life, counters, marks, balance, row, feed, persist, faults>>

\* The other checks, and the order if they pass.
Conclude ==
  /\ scan = "checking" /\ scan' = "idle"
  /\ UNCHANGED <<weekday, life, counters, marks, balance, row, feed, persist, faults>>

----------------------------------------------------------------------------
Booking == \/ \E p \in Pnls : MonitorBooks(p)
           \/ \E p \in Pnls, closed \in ClosedDates : ReconcilerBooks(p, closed)
Persist == PersistReset \/ PersistSave
SignalLoop == StartScan \/ ReadRiskState \/ Conclude
Next == Booking \/ Crash \/ Acquire \/ Restore \/ Midnight \/ Persist \/ SignalLoop

Spec == Init /\ [][Next]_vars

\* The supervisor restarts a dead process, persist_loop goes on, and days pass.
Fairness == WF_vars(Acquire \/ Restore) /\ WF_vars(Persist) /\ WF_vars(Midnight)
FairSpec == Spec /\ Fairness

----------------------------------------------------------------------------
(* Properties *)

Known == life = "up" /\ balance > 0
Halted == Known /\ RiskState(FALSE, FALSE, FALSE) \in {"WEEKLY_LIMIT", "DAILY_LIMIT"}
Total == Merged(Accounts, [a \in Accounts |-> a])

\* On the first day of a week, once this life has reset both counters, they agree: the
\* monitor, the reconcilers and the resets never count in one what belongs in both
\* (manager.py:359-421, 515-535; engine.py:1121-1136).
MondayAgrees ==
  (life = "up" /\ weekday = 0 /\ dayReset = "now" /\ weekReset = "now") => weekly = daily

\* A booked loss leaves the day's counter by a profit, or by the first round of
\* persist_loop of a day or of a life, never by a later round (manager.py:515-526).
LossesStay ==
  [][(life = "up" /\ dayReset = "now" /\ daily < 0 /\ daily' = 0)
       => weekly' > weekly \/ life' = "down"]_vars

\* Past the limit of everything the accounts hold, no evaluation passes the risk state,
\* whichever accounts answered when (manager.py:169-214, state_machine.py:73-85).
NoApprovalPastLimit ==
  [][(Known /\ scan = "evaluating" /\ scan' = "checking")
       => /\ 100 * daily > -(DailyPct * Total)
          /\ 100 * weekly > -(WeeklyPct * Total)]_vars

\* No limit blocks for ever: "weekly_pnl was never reset, causing it to accumulate
\* indefinitely and eventually trigger a permanent WEEKLY_LIMIT block"
\* (manager.py:528-531).
HaltIsLifted == Halted ~> ~Halted

\* An account left out after failing fetches comes back: while the faults are bounded,
\* the balance is again and again that of all accounts (manager.py:169-214).
BalanceRecovers == []<>(life = "up" /\ balance = Total)

\* "Track consecutive OANDA balance-refresh failures so the persist loop can escalate to
\* an operator alert" (manager.py:102-104).
StaleBalanceAlerts == (AlertAfter > 0 /\ stale >= AlertAfter) => alerted

\* The day's losses survive a restart: restore() reads them back and resets them only
\* "if it's a new day" (manager.py:287).
RestartKeepsLosses ==
  [][(dayReset = "none" /\ persist = "asleep" /\ persist' = "refreshing") => daily' = daily]_vars
================================================================================
