------------------------------- MODULE Position -------------------------------
(***************************************************************************)
(* One live order at OANDA and the position it becomes: the executor that    *)
(* places it and makes sure it is protected, the row it is saved as, and the *)
(* position monitor that moves its stop to break-even and beyond, with the   *)
(* broker's price, failing calls and crashes in between.                     *)
(*                                                                           *)
(* Prices are distances from the entry in the direction of profit, so that a *)
(* SELL is a BUY and the entry is 0; the code writes both directions out.    *)
(* The kill switch, the lock and the row's life have modules of their own.   *)
(***************************************************************************)
EXTENDS Integers, FiniteSetsExt

CONSTANTS
  Orders,     \* stop, target (0: none), and the instrument's thresholds: see Order
  Prices,     \* the broker's prices
  Migrated,   \* the table has the column initial_stop_loss (migration 016)
  MaxFaults,  \* bound: calls that fail or whose reply is lost, attachments dropped, crashes
  None        \* no price

\* breakEven is the fixed threshold of gold and crypto, 0 for the rule of forex, which takes
\* floor for 25 pips; activation is TRAIL_ACTIVATION_PIPS.
Order == [stop : {p \in Int : p < 0}, target : Nat, activation : Nat, breakEven : Nat, floor : Nat]

ASSUME ConstantsAssumption ==
  /\ Orders \subseteq Order /\ Prices \subseteq Int /\ 0 \in Prices
  /\ Migrated \in BOOLEAN /\ MaxFaults \in Nat /\ None \notin Int

VARIABLES
  order, price,
  position,  \* at the broker: [state, stop, target], target: a take profit is attached
  pc,        \* where execute_order stands
  row,       \* of table trades: [state, stop, initial]
  alerted,   \* a critical alert has been sent about this position
  monitor,   \* where _check_and_trail stands: [at, stop, initial, new]
  faults

executor == <<pc, alerted>>
vars == <<order, price, position, executor, row, monitor, faults>>

Idle == [at |-> "idle", stop |-> None, initial |-> None, new |-> None]

Positions == [state : {"none", "open", "closed"}, stop : Int \cup {None}, target : BOOLEAN]
Rows == [state : {"none", "open", "closed"}, stop : Int, initial : Int \cup {None}]
Monitors == [at : {"idle", "pricing", "modifying", "updating"}, stop : Int \cup {None},
             initial : Int \cup {None}, new : Int \cup {None}]

TypeOK ==
  /\ order \in Orders /\ price \in Prices
  /\ position \in Positions /\ row \in Rows /\ monitor \in Monitors
  /\ position.target => order.target > 0
  /\ pc \in {"placing", "looking up", "reading", "reasserting", "correcting", "reading again",
             "closing", "saving", "done"}
  /\ alerted \in BOOLEAN /\ faults \in 0..MaxFaults

Init ==
  /\ order \in Orders /\ price = 0
  /\ position = [state |-> "none", stop |-> None, target |-> FALSE]
  /\ pc = "placing" /\ alerted = FALSE
  /\ row = [state |-> "none", stop |-> 0, initial |-> None]
  /\ monitor = Idle /\ faults = 0

Open == position.state = "open"
Fault == faults < MaxFaults /\ faults' = faults + 1

----------------------------------------------------------------------------
(* The broker *)

\* Stop and take profit close the position at their price.
PriceMoves(p) ==
  /\ Open /\ price' = p
  /\ position' = IF \/ position.stop # None /\ p <= position.stop
                    \/ position.target /\ p >= order.target
                 THEN [position EXCEPT !.state = "closed"] ELSE position
  /\ UNCHANGED <<order, executor, row, monitor, faults>>

\* The operator, the kill switch, the maximal holding time.
PositionCloses ==
  /\ Open /\ position' = [position EXCEPT !.state = "closed"]
  /\ UNCHANGED <<order, price, executor, row, monitor, faults>>

\* modify_trade sets the stop, and the take profit if there is one.
Modified(stop) == [position EXCEPT !.stop = stop, !.target = (order.target > 0)]
Modifiable(stop) == Open /\ stop < price /\ (order.target > 0 => price < order.target)
Accepted(stop) == Modifiable(stop) /\ position' = Modified(stop) /\ UNCHANGED faults
\* It raises: the broker refuses, or it never arrives, or its reply is lost.
Raised(stop) ==
  \/ ~Modifiable(stop) /\ UNCHANGED <<position, faults>>
  \/ Fault /\ (UNCHANGED position \/ (Modifiable(stop) /\ position' = Modified(stop)))

----------------------------------------------------------------------------
(* OandaExecutor.execute *)

\* Before the row is saved a failing order ends without one.
Ends == pc' = "done" /\ UNCHANGED alerted
Goes(next) == pc' = next /\ UNCHANGED alerted
AlertsAnd(next) == pc' = next /\ alerted' = TRUE

Rejected ==
  /\ pc = "placing" /\ Ends
  /\ UNCHANGED <<order, price, position, row, monitor, faults>>

\* place_market_order: the fill attaches stop and target, or drops some of what was asked;
\* its reply arrives or not.
Filled(stop, target) ==
  /\ pc = "placing" /\ (target => order.target > 0)
  /\ position' = [state |-> "open", stop |-> stop, target |-> target]
  /\ \/ /\ stop # None /\ target = (order.target > 0) /\ Goes("reading") /\ UNCHANGED faults
     \/ /\ stop = None \/ target # (order.target > 0)
        /\ Fault /\ Goes("reading")
     \/ Fault /\ Goes("looking up")
  /\ UNCHANGED <<order, price, row, monitor>>

\* lookup_order_status finds the fill, or nothing it can be sure of.
LookUp ==
  /\ pc = "looking up"
  /\ \/ Goes("reading") /\ UNCHANGED faults
     \/ Ends /\ Fault
  /\ UNCHANGED <<order, price, position, row, monitor>>

Missing == position.stop = None \/ (order.target > 0 /\ ~position.target)
\* FillVerifier takes a target that was not asked for as one not confirmed.
Confirmed == IF order.target > 0 THEN Goes("saving") ELSE AlertsAnd("saving")

\* (mutant of ReadProtection: a failing read is taken for a confirmation)
ReadProtectionTrusting ==
  /\ pc = "reading"
  /\ \/ Missing /\ Goes("correcting") /\ UNCHANGED faults
     \/ ~Missing /\ Confirmed /\ UNCHANGED faults
     \/ Confirmed /\ Fault
  /\ UNCHANGED <<order, price, position, row, monitor>>
ReadProtection ==
  /\ pc = "reading"
  /\ \/ Missing /\ Goes("correcting") /\ UNCHANGED faults
     \/ ~Missing /\ Confirmed /\ UNCHANGED faults
     \/ Goes("reasserting") /\ Fault
  /\ UNCHANGED <<order, price, position, row, monitor>>

\* The read failed: set the protection again, whatever comes of it.
Reassert ==
  /\ pc = "reasserting" /\ AlertsAnd("saving")
  /\ Accepted(order.stop) \/ Raised(order.stop)
  /\ UNCHANGED <<order, price, row, monitor>>

Correct ==
  /\ pc = "correcting"
  /\ \/ Accepted(order.stop) /\ Goes("reading again")
     \/ Raised(order.stop) /\ Goes("closing")
  /\ UNCHANGED <<order, price, row, monitor>>

ReadAgain ==
  /\ pc = "reading again"
  /\ \/ Missing /\ Goes("closing") /\ UNCHANGED faults
     \/ ~Missing /\ Confirmed /\ UNCHANGED faults
     \/ AlertsAnd("saving") /\ Fault
  /\ UNCHANGED <<order, price, position, row, monitor>>

\* The unprotected position is closed, or at least that is tried.
EmergencyClose ==
  /\ pc = "closing" /\ AlertsAnd("saving")
  /\ \/ Open /\ position' = [position EXCEPT !.state = "closed"] /\ UNCHANGED faults
     \/ UNCHANGED position /\ (IF Open THEN Fault ELSE UNCHANGED faults)
  /\ UNCHANGED <<order, price, row, monitor>>

\* _save_trade, without the initial stop where the column is missing; if it fails, there is
\* an alert.
SaveTrade ==
  /\ pc = "saving"
  /\ \/ /\ row' = [state |-> "open", stop |-> order.stop,
                   initial |-> IF Migrated THEN order.stop ELSE None]
        /\ Ends /\ UNCHANGED faults
     \/ AlertsAnd("done") /\ Fault /\ UNCHANGED row
  /\ UNCHANGED <<order, price, position, monitor>>

----------------------------------------------------------------------------
(* Reconciler and restarts *)

\* A position left without a row: its row has the entry for both stops, and an alert.  The
\* reconciler that is faster than the executor is TradeLedger's.
PhantomFound ==
  /\ Open /\ row.state = "none" /\ pc = "done"
  /\ row' = [state |-> "open", stop |-> 0, initial |-> 0] /\ alerted' = TRUE
  /\ UNCHANGED <<order, price, position, pc, monitor, faults>>

\* Monitor or reconciler find the position gone.
RowCloses ==
  /\ row.state = "open" /\ position.state = "closed"
  /\ row' = [row EXCEPT !.state = "closed"]
  /\ UNCHANGED <<order, price, position, executor, monitor, faults>>

Crash ==
  /\ Fault /\ Ends /\ monitor' = Idle
  /\ UNCHANGED <<order, price, position, row>>

----------------------------------------------------------------------------
(* _trail_stop_losses and _check_and_trail *)

Distance(seen) == IF seen.initial = None THEN -seen.stop ELSE -seen.initial

BreakEvenReached(seen, p) ==
  IF order.breakEven > 0 THEN p >= order.breakEven
  ELSE 2 * p >= Max({3 * Distance(seen), -3 * Distance(seen), 2 * order.floor})

\* (mutant of NewStop: the stop follows the price back as well)
NewStopAnywhere(seen, p) ==
  IF BreakEvenReached(seen, p) /\ seen.stop < 0 THEN 0
  ELSE LET new == p - Max({Distance(seen), -Distance(seen)})
       IN  IF /\ p >= order.activation /\ Distance(seen) # 0
              /\ order.target > 0 => new < order.target
           THEN new ELSE None
\* (mutant of NewStop: no break-even before the trailing has been activated)
NewStopLate(seen, p) ==
  LET new == p - Max({Distance(seen), -Distance(seen)})
  IN  IF p < order.activation THEN None
      ELSE IF BreakEvenReached(seen, p) /\ seen.stop < 0 THEN 0
      ELSE IF /\ Distance(seen) # 0 /\ new > seen.stop
              /\ order.target > 0 => new < order.target
           THEN new ELSE None
\* To the entry at the threshold of break-even, else to the original distance from the
\* price; never behind the stop of the row, never past the target.
NewStop(seen, p) ==
  IF BreakEvenReached(seen, p) /\ seen.stop < 0 THEN 0
  ELSE LET new == p - Max({Distance(seen), -Distance(seen)})
       IN  IF /\ p >= order.activation /\ Distance(seen) # 0 /\ new > seen.stop
              /\ order.target > 0 => new < order.target
           THEN new ELSE None

ReadRow ==
  /\ monitor.at = "idle" /\ row.state = "open"
  /\ monitor' = [Idle EXCEPT !.at = "pricing", !.stop = row.stop, !.initial = row.initial]
  /\ UNCHANGED <<order, price, position, executor, row, faults>>

\* The price is read, or not.
Price ==
  /\ monitor.at = "pricing"
  /\ \/ /\ NewStop(monitor, price) # None
        /\ monitor' = [monitor EXCEPT !.at = "modifying", !.new = NewStop(monitor, price)]
        /\ UNCHANGED faults
     \/ NewStop(monitor, price) = None /\ monitor' = Idle /\ UNCHANGED faults
     \/ Fault /\ monitor' = Idle
  /\ UNCHANGED <<order, price, position, executor, row>>

ModifyStop ==
  /\ monitor.at = "modifying"
  /\ \/ Accepted(monitor.new) /\ monitor' = [monitor EXCEPT !.at = "updating"]
     \/ Raised(monitor.new) /\ monitor' = Idle
  /\ UNCHANGED <<order, price, executor, row>>

\* The row's stop is updated, open or closed, unless the update fails.
UpdateRow ==
  /\ monitor.at = "updating" /\ monitor' = Idle
  /\ \/ row' = [row EXCEPT !.stop = monitor.new] /\ UNCHANGED faults
     \/ Fault /\ UNCHANGED row
  /\ UNCHANGED <<order, price, position, executor>>

----------------------------------------------------------------------------
Broker ==
  \/ \E p \in Prices : PriceMoves(p)
  \/ PositionCloses
Execute ==
  \/ Rejected \/ \E s \in {order.stop, None}, t \in BOOLEAN : Filled(s, t)
  \/ LookUp \/ ReadProtection \/ Reassert \/ Correct \/ ReadAgain \/ EmergencyClose \/ SaveTrade
Reconcile == PhantomFound \/ RowCloses
Monitor == ReadRow \/ Price \/ ModifyStop \/ UpdateRow
Next == Broker \/ Execute \/ Reconcile \/ Crash \/ Monitor

\* position_monitor runs once a minute for as long as the process lives.
Fairness == WF_vars(Monitor)
Spec == Init /\ [][Next]_vars /\ Fairness

----------------------------------------------------------------------------
(* Properties *)

\* A position with a row is at least as well protected as the row shows, or someone has
\* been alerted: whatever the fill attached, whichever call failed, wherever the process
\* stopped (oanda_executor.py:295-400, engine.py:336-423, 818-926).
UncoveredIsAlerted ==
  (Open /\ row.state = "open" /\ ~alerted) =>
    /\ position.stop # None /\ position.stop >= row.stop
    /\ order.target > 0 => position.target

\* A stop the row shows as it is never moves back, however the price moved since it was
\* read (engine.py:705-709).
StopsOnlyForward ==
  [][(Open /\ position.stop # None /\ row.stop = position.stop) => position'.stop >= position.stop]_vars

\* A position that stays in profit past the threshold gets its stop to the entry, after
\* failing calls too (engine.py:808-852).  Past a target that is not attached the broker
\* refuses every modification, which names the target again.
InProfit ==
  /\ Open /\ row.state = "open" /\ row.initial = order.stop
  /\ BreakEvenReached(row, price) /\ (order.target > 0 => price < order.target)
ProfitIsSecured ==
  <>[]InProfit
    => <>(Open /\ position.stop # None /\ position.stop >= 0)

\* "Never move SL backwards - only forward in the direction of profit" (engine.py:709).
StopNeverBackwards ==
  [][(Open /\ position.stop # None) => position'.stop >= position.stop]_vars

\* "Closing a live trade on ambiguous data is forbidden" (oanda_executor.py:283).
NoCloseOnDoubt ==
  [][(pc = "closing" /\ Open /\ position'.state = "closed" /\ pc' = "saving") => Missing]_vars

\* The stop follows the price at the original distance, also for a row without the initial
\* stop (engine.py:858-865).
DistanceIsKept ==
  [][(monitor.at = "pricing" /\ monitor'.at = "modifying" /\ monitor'.new > 0) =>
       price - monitor'.new >= -order.stop]_vars
================================================================================
