--------------------------- MODULE LossLimits_proofs ---------------------------
(***************************************************************************)
(* Proofs about the loss limits: type correctness, the agreement of the two  *)
(* counters on the first day of a week, and the limit no evaluation passes.  *)
(***************************************************************************)
EXTENDS LossLimits, TLAPS

USE DEF Accounts

\* What the fetches yield is a natural number, and never more than everything held.
LEMMA MergedBounded ==
  ASSUME NEW asked \in SUBSET Accounts, NEW answer \in Answers
  PROVE  Merged(asked, answer) \in Nat /\ Merged(asked, answer) <= Total
<1> DEFINE own == [a \in Accounts |-> a]
           heard == {answer[a] : a \in asked} \ {"none"}
           all == {own[a] : a \in Accounts} \ {"none"}
<1>1. all = Accounts
  BY ConstantsAssumption
<1>2. heard \subseteq Accounts
  BY DEF Answers
<1>3. \A a \in Accounts : Equity[a] \in Nat
  BY ConstantsAssumption
<1>4. Merged(asked, answer) =
        (IF "MAIN" \in heard THEN Equity["MAIN"] ELSE 0)
          + (IF "CRYPTO" \in heard THEN Equity["CRYPTO"] ELSE 0)
  BY DEF Merged
<1>5. Total = (IF "MAIN" \in all THEN Equity["MAIN"] ELSE 0)
                + (IF "CRYPTO" \in all THEN Equity["CRYPTO"] ELSE 0)
  BY DEF Total, Merged
<1> HIDE DEF heard, all
<1> QED
  BY <1>1, <1>2, <1>3, <1>4, <1>5

LEMMA TotalIsNat == Total \in Nat
<1>1. [a \in Accounts |-> a] \in Answers
  BY ConstantsAssumption DEF Answers
<1> QED
  BY <1>1, MergedBounded DEF Total

LEMMA ZeroIsAnAmount == 0 \in Amounts
  BY ConstantsAssumption DEF Amounts

\* One more failing or answering round leaves a well-formed record of every account.
LEMMA RecordedType ==
  ASSUME TypeOK, NEW answer \in Answers
  PROVE  Recorded(answer) \in [Accounts -> [failures : 0..AccountBreaker, wait : 0..BreakerFor]]
<1> DEFINE R == [failures : 0..AccountBreaker, wait : 0..BreakerFor]
<1>1. SUFFICES ASSUME NEW a \in Accounts PROVE Recorded(answer)[a] \in R
  BY DEF Recorded
<1>2. account[a] \in R /\ account[a].failures \in 0..AccountBreaker
        /\ account[a].wait \in 0..BreakerFor
  BY DEF TypeOK
<1>3. CASE a \notin Asked
  <2>1. account[a].wait # 0
    BY <1>3 DEF Asked
  <2>2. account[a].wait - 1 \in 0..BreakerFor
    BY <1>2, <2>1, ConstantsAssumption
  <2>3. Recorded(answer)[a] = [account[a] EXCEPT !.wait = account[a].wait - 1]
    BY <1>3 DEF Recorded, Waited
  <2> QED
    BY <1>2, <2>2, <2>3
<1>4. CASE a \in Asked /\ answer[a] # "none"
  <2>1. Recorded(answer)[a] = [failures |-> 0, wait |-> 0]
    BY <1>4 DEF Recorded
  <2> QED
    BY <2>1, ConstantsAssumption
<1>5. CASE a \in Asked /\ answer[a] = "none" /\ account[a].failures + 1 >= AccountBreaker
  <2>1. Recorded(answer)[a] = [failures |-> AccountBreaker, wait |-> BreakerFor]
    BY <1>5 DEF Recorded
  <2> QED
    BY <2>1, ConstantsAssumption
<1>6. CASE a \in Asked /\ answer[a] = "none" /\ ~(account[a].failures + 1 >= AccountBreaker)
  <2>1. Recorded(answer)[a] = [account[a] EXCEPT !.failures = account[a].failures + 1]
    BY <1>6 DEF Recorded
  <2>2. account[a].failures + 1 \in 0..AccountBreaker
    BY <1>2, <1>6, ConstantsAssumption
  <2> QED
    BY <1>2, <2>1, <2>2
<1> QED
  BY <1>3, <1>4, <1>5, <1>6

----------------------------------------------------------------------------
\* What makes MondayAgrees inductive: the markers belong to a life, and on the first day
\* of a week they are set together.
IInv ==
  /\ TypeOK
  /\ life # "up" => dayReset = "none" /\ weekReset = "none"
  /\ weekday = 0 => (weekReset = "now" <=> dayReset = "now")
  /\ MondayAgrees
  /\ balance <= Total

LEMMA InitIInv == Init => IInv
<1> SUFFICES ASSUME Init PROVE IInv
  OBVIOUS
<1>1. 0 \in Amounts
  BY ZeroIsAnAmount
<1>2. TypeOK
  <2>1. account \in [Accounts -> [failures : 0..AccountBreaker, wait : 0..BreakerFor]]
    BY ConstantsAssumption DEF Init
  <2>2. alerted \in BOOLEAN
    BY DEF Init
  <2>3. row \in [daily : Amounts, weekly : Amounts, today : BOOLEAN]
    BY <1>1 DEF Init
  <2> QED
    BY <1>1, <2>1, <2>2, <2>3, ConstantsAssumption DEF Init, TypeOK
<1>3. Total \in Nat
  BY TotalIsNat
<1> QED
  BY <1>2, <1>3 DEF Init, IInv, MondayAgrees

LEMMA StepIInv == IInv /\ [Next]_vars => IInv'
<1> SUFFICES ASSUME IInv, [Next]_vars PROVE IInv'
  OBVIOUS
<1> USE ConstantsAssumption
<1>0. TypeOK /\ 0 \in Amounts /\ Total' = Total
  BY ZeroIsAnAmount DEF IInv, Total
<1>1. ASSUME NEW p \in Pnls, MonitorBooks(p) PROVE IInv'
  <2>1. TypeOK'
    BY <1>0, <1>1 DEF MonitorBooks, TypeOK, feed, marks
  <2>2. daily \in Int /\ weekly \in Int /\ p \in Int
    BY <1>0 DEF TypeOK, Amounts
  <2>3. MondayAgrees'
    BY <1>1, <2>2 DEF MonitorBooks, IInv, MondayAgrees, marks
  <2> QED
    BY <1>0, <1>1, <2>1, <2>3 DEF MonitorBooks, IInv, marks
<1>2. ASSUME NEW p \in Pnls, NEW closed \in ClosedDates, ReconcilerBooks(p, closed) PROVE IInv'
  <2>1. TypeOK'
    BY <1>0, <1>2 DEF ReconcilerBooks, Add, TypeOK, feed, marks
  <2>2. daily \in Int /\ weekly \in Int /\ p \in Int
    BY <1>0 DEF TypeOK, Amounts
  <2>3. weekday = 0 => (Today(closed) <=> ThisWeek(closed))
    <3>1. SUFFICES ASSUME weekday = 0 PROVE Today(closed) <=> ThisWeek(closed)
      OBVIOUS
    <3>2. closed \in {"today", "earlier", "unknown"}
      BY <3>1 DEF ClosedDates
    <3> QED
      BY <3>2 DEF Today, ThisWeek
  <2>4. MondayAgrees'
    BY <1>2, <2>2, <2>3 DEF ReconcilerBooks, Add, IInv, MondayAgrees, marks
  <2> QED
    BY <1>0, <1>2, <2>1, <2>4 DEF ReconcilerBooks, IInv, marks
<1>3. ASSUME Crash PROVE IInv'
  <2>1. account' \in [Accounts -> [failures : 0..AccountBreaker, wait : 0..BreakerFor]]
    BY <1>3 DEF Crash
  <2>2. TypeOK'
    <3>1. alerted' \in BOOLEAN
      BY <1>3 DEF Crash
    <3> QED
      BY <1>0, <1>3, <2>1, <3>1 DEF Crash, May, TypeOK
  <2>4. balance' <= Total
    BY <1>0, <1>3, TotalIsNat DEF Crash
  <2> QED
    BY <1>0, <1>3, <2>2, <2>4 DEF Crash, IInv, MondayAgrees
<1>4. ASSUME Restore PROVE IInv'
  <2>1. PICK read \in BOOLEAN, answer \in Answers, p \in Pnls \cup {0}, closed \in ClosedDates :
          /\ IF read THEN Fetch(answer) ELSE May("restore") /\ answer["MAIN"] = "MAIN"
          /\ Add(p, closed, IF read /\ row.today THEN row.daily ELSE 0,
                            IF read THEN row.weekly ELSE 0)
          /\ balance' = Merged(Accounts, answer)
    BY <1>4 DEF Restore
  <2>2. balance' \in Nat /\ balance' <= Total
    BY <2>1, MergedBounded
  <2>3. daily' \in Amounts /\ weekly' \in Amounts
    BY <2>1 DEF Add
  <2>4. row' \in [daily : Amounts, weekly : Amounts, today : BOOLEAN]
    BY <1>4, <2>3 DEF Restore, Saved
  <2>5. faults' \in 0..MaxFaults
    BY <1>0, <2>1 DEF Fetch, May, TypeOK
  <2>6. TypeOK'
    BY <1>0, <1>4, <2>2, <2>3, <2>4, <2>5 DEF Restore, TypeOK, feed, marks
  <2> QED
    BY <1>0, <1>4, <2>2, <2>6 DEF Restore, IInv, MondayAgrees, marks
<1>5. ASSUME Midnight PROVE IInv'
  <2>1. weekday' \in 0..(WeekDays - 1)
    BY <1>0, <1>5 DEF Midnight, NextDay, TypeOK
  <2>2. row' \in [daily : Amounts, weekly : Amounts, today : BOOLEAN]
    BY <1>0, <1>5 DEF Midnight, TypeOK
  <2>3. dayReset' # "now" /\ dayReset' \in {"none", "now", "past"}
    BY <1>5 DEF Midnight, Turned
  <2>4. weekReset' \in {"none", "now", "past"} /\ (weekday' = 0 => weekReset' # "now")
    BY <1>0, <1>5 DEF Midnight, Turned, TypeOK
  <2>5. TypeOK'
    BY <1>0, <1>5, <2>1, <2>2, <2>3, <2>4 DEF Midnight, TypeOK, feed, counters
  <2>6. life' # "up" => dayReset' = "none" /\ weekReset' = "none"
    BY <1>5 DEF Midnight, Turned, IInv
  <2> QED
    BY <1>0, <1>5, <2>3, <2>4, <2>5, <2>6 DEF Midnight, IInv, MondayAgrees, counters
<1>6. ASSUME PersistReset PROVE IInv'
  <2>1. TypeOK'
    BY <1>0, <1>6 DEF PersistReset, TypeOK, feed
  <2>2. dayReset' = "now" /\ weekReset' = "now"
    BY <1>6 DEF PersistReset, DayIsNew, WeekIsNew
  <2>3. MondayAgrees'
    BY <1>6 DEF PersistReset, DayIsNew, WeekIsNew, IInv, MondayAgrees
  <2> QED
    BY <1>0, <1>6, <2>1, <2>2, <2>3 DEF PersistReset, IInv
<1>7. ASSUME PersistSave PROVE IInv'
  <2>1. PICK answer \in Answers, failed \in BOOLEAN :
          /\ IF failed THEN May("save") /\ \A a \in Accounts : answer[a] = a
             ELSE Fetch(answer)
          /\ account' = Recorded(answer)
          /\ LET merged == Merged(Asked, answer)
             IN  IF merged > 0
                 THEN /\ balance' = merged /\ stale' = 0
                      /\ refreshFailures' = 0 /\ alerted' = FALSE
                 ELSE /\ stale' = IF stale < AlertAfter THEN stale + 1 ELSE stale
                      /\ UNCHANGED <<balance, refreshFailures, alerted>>
          /\ UNCHANGED counters
          /\ Saved(failed)
    BY <1>7 DEF PersistSave
  <2>2. Merged(Asked, answer) \in Nat /\ Merged(Asked, answer) <= Total
    <3>1. Asked \in SUBSET Accounts
      BY DEF Asked
    <3> QED
      BY <3>1, MergedBounded
  <2>3. balance' \in Nat /\ balance' <= Total
    BY <1>0, <2>1, <2>2 DEF IInv, TypeOK
  <2>4. account' \in [Accounts -> [failures : 0..AccountBreaker, wait : 0..BreakerFor]]
    BY <1>0, <2>1, RecordedType
  <2>5. daily' = daily /\ weekly' = weekly
    BY <2>1 DEF counters
  <2>6. row' \in [daily : Amounts, weekly : Amounts, today : BOOLEAN]
    BY <1>0, <2>1, <2>5 DEF Saved, TypeOK
  <2>7. faults' \in 0..MaxFaults
    BY <1>0, <2>1 DEF Fetch, May, TypeOK
  <2>8. stale' \in 0..AlertAfter /\ refreshFailures' \in Nat /\ alerted' \in BOOLEAN
    <3>1. CASE Merged(Asked, answer) > 0
      <4>1. alerted' \in BOOLEAN
        BY <2>1, <3>1
      <4> QED
        BY <2>1, <3>1, <4>1
    <3>2. CASE ~(Merged(Asked, answer) > 0)
      <4>1. alerted' \in BOOLEAN
        BY <1>0, <2>1, <3>2 DEF TypeOK
      <4> QED
        BY <1>0, <2>1, <3>2, <4>1 DEF TypeOK
    <3> QED
      BY <3>1, <3>2
  <2>9. TypeOK'
    BY <1>0, <1>7, <2>3, <2>4, <2>5, <2>6, <2>7, <2>8 DEF PersistSave, TypeOK, marks
  <2> QED
    BY <1>0, <1>7, <2>3, <2>5, <2>9 DEF PersistSave, IInv, MondayAgrees, marks
<1>8. ASSUME StartScan PROVE IInv'
  <2>1. PICK answer \in Answers :
          /\ Fetch(answer)
          /\ LET merged == Merged(Accounts, answer)
             IN  balance' = IF merged > 0 THEN merged ELSE balance
    BY <1>8 DEF StartScan
  <2>2. balance' \in Nat /\ balance' <= Total
    BY <1>0, <2>1, MergedBounded DEF IInv, TypeOK
  <2>3. faults' \in 0..MaxFaults
    BY <1>0, <2>1 DEF Fetch, May, TypeOK
  <2>4. scan' \in {"idle", "evaluating", "checking"}
    BY <1>8 DEF StartScan
  <2>5. TypeOK'
    BY <1>0, <1>8, <2>2, <2>3, <2>4 DEF StartScan, TypeOK, feed, counters, marks
  <2> QED
    BY <1>0, <1>8, <2>2, <2>5 DEF StartScan, IInv, MondayAgrees, counters, marks
<1>9. ASSUME ReadRiskState \/ Conclude PROVE IInv'
  <2>1. TypeOK'
    BY <1>0, <1>9 DEF ReadRiskState, Conclude, TypeOK, feed, counters, marks
  <2> QED
    BY <1>0, <1>9, <2>1 DEF ReadRiskState, Conclude, IInv, MondayAgrees, counters, marks
<1>10. ASSUME UNCHANGED vars PROVE IInv'
  BY <1>0, <1>10 DEF vars, feed, counters, marks, IInv, TypeOK, MondayAgrees
<1>11. ASSUME Acquire PROVE IInv'
  <2>1. row' \in [daily : Amounts, weekly : Amounts, today : BOOLEAN]
    BY <1>0, <1>11 DEF Acquire, TypeOK
  <2>2. TypeOK'
    BY <1>0, <1>11, <2>1 DEF Acquire, TypeOK, feed, counters, marks
  <2> QED
    BY <1>0, <1>11, <2>2 DEF Acquire, IInv, MondayAgrees, counters, marks
<1> QED
  BY <1>1, <1>2, <1>3, <1>4, <1>5, <1>6, <1>7, <1>8, <1>9, <1>10, <1>11
     DEF Next, Booking, Persist, SignalLoop

\* Type correctness of the loss limits, for any accounts, limits and number of faults.
THEOREM Typing == Spec => []TypeOK
<1>1. IInv => TypeOK
  BY DEF IInv
<1> QED
  BY <1>1, InitIInv, StepIInv, PTL DEF Spec

\* On the first day of a week the two counters agree, for any accounts, closes, restarts
\* and failing calls.
THEOREM CountersAgree == Spec => []MondayAgrees
<1>1. IInv => MondayAgrees
  BY DEF IInv
<1> QED
  BY <1>1, InitIInv, StepIInv, PTL DEF Spec

LEMMA ProductsGrow == \A a, b, c \in Nat : b <= c => a * b <= a * c
  BY SMT

\* No evaluation passes the risk state past the limit of everything the accounts hold,
\* whichever of them answered when.
THEOREM LimitsHold == Spec => NoApprovalPastLimit
<1>1. ASSUME IInv, [Next]_vars, Known, scan = "evaluating", scan' = "checking"
      PROVE  100 * daily > -(DailyPct * Total) /\ 100 * weekly > -(WeeklyPct * Total)
  <2>1. ReadRiskState
    BY <1>1 DEF Next, Booking, MonitorBooks, ReconcilerBooks, Crash, Acquire, Restore, Midnight, Persist,
                PersistReset, PersistSave, SignalLoop, StartScan, Conclude, vars
  <2>2. PICK kill, breakerOpen, streak \in BOOLEAN :
          RiskState(kill, breakerOpen, streak) \notin Blocking
    BY <1>1, <2>1 DEF ReadRiskState
  <2>3. balance > 0
    BY <1>1 DEF Known
  <2>4. ~Below(weekly, WeeklyPct) /\ ~Below(daily, DailyPct)
    BY <2>2, <2>3 DEF RiskState, Blocking
  <2>5. /\ daily \in Int /\ weekly \in Int /\ balance \in Nat /\ Total \in Nat
        /\ DailyPct \in Nat /\ WeeklyPct \in Nat /\ balance <= Total
    BY <1>1, TotalIsNat, ConstantsAssumption DEF IInv, TypeOK, Amounts
  <2>6. DailyPct * balance <= DailyPct * Total /\ WeeklyPct * balance <= WeeklyPct * Total
    BY <2>5, ProductsGrow
  <2>7. /\ DailyPct * balance \in Nat /\ DailyPct * Total \in Nat
        /\ WeeklyPct * balance \in Nat /\ WeeklyPct * Total \in Nat
    BY <2>5
  <2> QED
    BY <2>4, <2>5, <2>6, <2>7 DEF Below
<1>2. IInv /\ [Next]_vars =>
        [(Known /\ scan = "evaluating" /\ scan' = "checking")
           => /\ 100 * daily > -(DailyPct * Total)
              /\ 100 * weekly > -(WeeklyPct * Total)]_vars
  BY <1>1
<1> QED
  BY <1>2, InitIInv, StepIInv, PTL DEF Spec, NoApprovalPastLimit

\* A booked loss leaves the day's counter by a profit, or by the first round of persist_loop
\* of a day or of a life, whatever is booked and saved in between.
THEOREM LossesRemain == Spec => LossesStay
<1>1. ASSUME IInv, [Next]_vars, life = "up", dayReset = "now", daily < 0, daily' = 0
      PROVE  weekly' > weekly \/ life' = "down"
  <2>1. daily \in Int /\ weekly \in Int
    BY <1>1 DEF IInv, TypeOK, Amounts
  <2>2. ASSUME NEW p \in Pnls, MonitorBooks(p) PROVE weekly' > weekly
    <3>1. p \in Int /\ daily' = daily + p /\ weekly' = weekly + p
      BY <2>2, ConstantsAssumption DEF MonitorBooks
    <3> QED
      BY <1>1, <2>1, <3>1
  <2>3. ASSUME NEW p \in Pnls, NEW closed \in ClosedDates, ReconcilerBooks(p, closed)
        PROVE  weekly' > weekly
    <3>1. /\ p \in Int
          /\ daily' = daily + (IF Today(closed) THEN p ELSE 0)
          /\ weekly' = weekly + (IF ThisWeek(closed) THEN p ELSE 0)
      BY <2>3, ConstantsAssumption DEF ReconcilerBooks, Add
    <3>2. Today(closed)
      BY <1>1, <2>1, <3>1
    <3>3. ThisWeek(closed)
      BY <3>2 DEF Today, ThisWeek
    <3> QED
      BY <1>1, <2>1, <3>1, <3>2, <3>3
  <2>4. CASE Crash
    BY <2>4 DEF Crash
  <2>5. CASE Acquire \/ Restore \/ Midnight \/ Persist \/ SignalLoop \/ UNCHANGED vars
    BY <1>1, <2>1, <2>5
    DEF Acquire, Restore, Midnight, Persist, PersistReset, PersistSave, SignalLoop, StartScan,
        ReadRiskState, Conclude, counters, vars, DayIsNew
  <2> QED
    BY <1>1, <2>2, <2>3, <2>4, <2>5 DEF Next, Booking
<1>2. IInv /\ [Next]_vars =>
        [(life = "up" /\ dayReset = "now" /\ daily < 0 /\ daily' = 0)
           => weekly' > weekly \/ life' = "down"]_vars
  BY <1>1
<1> QED
  BY <1>2, InitIInv, StepIInv, PTL DEF Spec, LossesStay
================================================================================
