--------------------------- MODULE Position_proofs ---------------------------
(***************************************************************************)
(* Proofs about Position, for every order, every course of the price, and   *)
(* any number of failing calls and crashes: a position with a row has the    *)
(* protection its row shows or somebody was alerted, and its stop does not   *)
(* move back while the row shows it as it is.                                *)
(***************************************************************************)
EXTENDS Position, TLAPS

\* Until the row is saved the stop is the order's or missing, and only the order's own task
\* is at work; an order about to be saved without an alert is protected.
UnsavedInv ==
  /\ pc # "done" => row.state = "none"
  /\ pc = "placing" => position.state = "none"
  /\ row.state = "none" => monitor.at = "idle" /\ position.stop \in {order.stop, None}
  /\ (pc = "saving" /\ ~alerted) =>
        position.stop = order.stop /\ (order.target > 0 => position.target)

\* What the monitor has read is what the row says, for nobody else moves its stop; its new
\* stop is ahead of it; and what it is about to write is what the broker has.
MonitorInv ==
  /\ monitor.at # "idle" => monitor.stop = row.stop
  /\ monitor.at \in {"modifying", "updating"} => monitor.new \in Int /\ monitor.new > row.stop
  /\ monitor.at = "updating" => position.stop = monitor.new

PositionInv == TypeOK /\ UnsavedInv /\ MonitorInv /\ UncoveredIsAlerted

----------------------------------------------------------------------------
(* Facts about the operators *)

LEMMA OrderFacts ==
  ASSUME TypeOK
  PROVE  /\ order.stop \in Int /\ order.stop < 0 /\ order.target \in Nat /\ order.activation \in Nat
         /\ order.breakEven \in Nat /\ order.floor \in Nat /\ None \notin Int
BY ConstantsAssumption DEF TypeOK, ConstantsAssumption, Order

\* The types one by one.
LEMMA TypeParts ==
  ASSUME TypeOK
  PROVE  /\ faults \in 0..MaxFaults /\ MaxFaults \in Nat /\ price \in Int
         /\ position \in Positions /\ row \in Rows /\ monitor \in Monitors
BY ConstantsAssumption DEF TypeOK, ConstantsAssumption

\* The greater of a number and its negative is a number.
LEMMA MaxOfTwo == ASSUME NEW d \in Int PROVE Max({d, -d}) \in Int
<1>1. \E x \in {d, -d} : \A y \in {d, -d} : x >= y
  <2>1. CASE d >= 0
    BY <2>1
  <2>2. CASE d < 0
    BY <2>2
  <2> QED
    BY <2>1, <2>2
<1>2. Max({d, -d}) \in {d, -d}
  BY <1>1 DEF Max
<1> QED
  BY <1>2

\* The monitor's new stop is ahead of the one it has read.
LEMMA NewStopIsAhead ==
  ASSUME TypeOK, monitor.stop \in Int, NewStop(monitor, price) # None
  PROVE  NewStop(monitor, price) \in Int /\ NewStop(monitor, price) > monitor.stop
<1>1. CASE BreakEvenReached(monitor, price) /\ monitor.stop < 0
  BY <1>1 DEF NewStop
<1>2. CASE ~(BreakEvenReached(monitor, price) /\ monitor.stop < 0)
  <2> DEFINE new == price - Max({Distance(monitor), -Distance(monitor)})
  <2>1. NewStop(monitor, price) = new /\ new > monitor.stop
    BY <1>2 DEF NewStop
  <2>2. Distance(monitor) \in Int
    BY TypeParts DEF Distance, Monitors
  <2>3. price \in Int
    BY ConstantsAssumption DEF TypeOK, ConstantsAssumption
  <2>4. new \in Int
    BY <2>2, <2>3, MaxOfTwo
  <2> QED
    BY <2>1, <2>4
<1> QED
  BY <1>1, <1>2

\* What modify_trade leaves behind, if anything: the named stop, and the target if there is one.
Sets(stop) == position' = Modified(stop)
LEMMA ModifiedFacts ==
  ASSUME TypeOK, NEW stop \in Int \cup {None}, Sets(stop)
  PROVE  /\ position' \in Positions
         /\ position'.state = position.state /\ position'.stop = stop
         /\ position'.target = (order.target > 0)
<1>1. position \in Positions
  BY TypeParts
<1>2. (order.target > 0) \in BOOLEAN
  OBVIOUS
<1> QED
  BY <1>1, <1>2 DEF Sets, Modified, Positions

LEMMA ModifyOutcomes ==
  ASSUME NEW stop, Accepted(stop) \/ Raised(stop), TypeOK
  PROVE  /\ UNCHANGED position \/ Sets(stop)
         /\ Accepted(stop) => Sets(stop)
         /\ faults' \in 0..MaxFaults
BY TypeParts DEF Accepted, Raised, Sets, Fault

----------------------------------------------------------------------------
(* The invariant *)

LEMMA PositionInit == Init => PositionInv
<1> SUFFICES ASSUME Init PROVE PositionInv
  OBVIOUS
<1>1. order.target \in Nat
  BY ConstantsAssumption DEF Init, ConstantsAssumption, Order
<1>2. TypeOK
  <2>1. alerted \in BOOLEAN
    BY DEF Init
  <2> QED
    BY <2>1, <1>1, ConstantsAssumption DEF Init, TypeOK, Idle, ConstantsAssumption, Positions, Rows, Monitors
<1> QED
  BY <1>2 DEF Init, PositionInv, UnsavedInv, MonitorInv, UncoveredIsAlerted, Idle, Open

FaultOrNot == Fault \/ UNCHANGED faults
LEMMA FaultTyped == ASSUME TypeOK, FaultOrNot PROVE faults' \in 0..MaxFaults
BY TypeParts DEF Fault, FaultOrNot

LEMMA BrokerInv == PositionInv /\ Broker => PositionInv'
<1> SUFFICES ASSUME PositionInv, Broker PROVE PositionInv'
  OBVIOUS
<1>1. /\ position' \in {position, [position EXCEPT !.state = "closed"]} /\ Open
      /\ price' \in Prices
      /\ UNCHANGED <<order, pc, alerted, row, monitor, faults>>
  BY DEF Broker, PriceMoves, PositionCloses, executor, PositionInv, TypeOK
<1>2. /\ position'.stop = position.stop /\ position'.target = position.target
      /\ position'.state \in {position.state, "closed"}
      /\ position' \in Positions
  BY <1>1 DEF PositionInv, TypeOK, Positions
<1>3. TypeOK'
  BY <1>1, <1>2 DEF PositionInv, TypeOK
<1> QED
  BY <1>1, <1>2, <1>3 DEF PositionInv, UnsavedInv, MonitorInv, UncoveredIsAlerted, Open

\* What a step of the executor before the save leaves behind.
Unsaved ==
  /\ position' \in Positions
  /\ position'.stop \in {order.stop, None}
  /\ position'.target => order.target > 0
  /\ faults' \in 0..MaxFaults
  /\ pc' \in {"looking up", "reading", "reasserting", "correcting", "reading again",
              "closing", "saving", "done"}
  /\ alerted' \in {alerted, TRUE}
  /\ (pc' = "saving" /\ alerted' # TRUE) =>
        position'.stop = order.stop /\ (order.target > 0 => position'.target)

\* Setting the protection again leaves the order's own, or what was there.
LEMMA Reasserted ==
  ASSUME PositionInv, row.state = "none", Accepted(order.stop) \/ Raised(order.stop)
  PROVE  /\ position' \in Positions
         /\ position'.stop \in {order.stop, None}
         /\ position'.target => order.target > 0
         /\ faults' \in 0..MaxFaults
<1>1. TypeOK /\ order.stop \in Int /\ position.stop \in {order.stop, None}
  BY OrderFacts DEF PositionInv, UnsavedInv
<1>2. (UNCHANGED position \/ Sets(order.stop)) /\ faults' \in 0..MaxFaults
  BY <1>1, ModifyOutcomes
<1>3. CASE UNCHANGED position
  BY <1>1, <1>2, <1>3 DEF TypeOK
<1>4. CASE Sets(order.stop)
  BY <1>1, <1>2, <1>4, ModifiedFacts
<1> QED
  BY <1>2, <1>3, <1>4

\* A position whose protection is not missing has the order's.
LEMMA NotMissing ==
  ASSUME PositionInv, row.state = "none", ~Missing
  PROVE  position.stop = order.stop /\ (order.target > 0 => position.target)
BY OrderFacts DEF PositionInv, UnsavedInv, Missing

LEMMA ExecuteInv == PositionInv /\ Execute /\ ~SaveTrade => PositionInv'
<1> SUFFICES ASSUME PositionInv, Execute, ~SaveTrade PROVE PositionInv'
  OBVIOUS
<1>1. TypeOK /\ order.stop \in Int /\ None \notin Int /\ order.target \in Nat
  BY OrderFacts DEF PositionInv
<1>2. /\ pc # "done" /\ UNCHANGED <<order, price, row, monitor>>
  BY DEF Execute, Rejected, Filled, LookUp, ReadProtection, Reassert, Correct, ReadAgain,
         EmergencyClose
<1>3. row.state = "none" /\ monitor.at = "idle" /\ position.stop \in {order.stop, None}
  BY <1>2 DEF PositionInv, UnsavedInv
<1>4. FaultOrNot => faults' \in 0..MaxFaults
  BY <1>1, FaultTyped DEF FaultOrNot
<1>5. Unsaved
  <2>1. CASE Rejected
    BY <1>1, <1>3, <2>1 DEF Rejected, Ends, TypeOK, Unsaved
  <2>2. ASSUME NEW s \in {order.stop, None}, NEW t \in BOOLEAN, Filled(s, t) PROVE Unsaved
    <3>1. /\ position' = [state |-> "open", stop |-> s, target |-> t] /\ (t => order.target > 0)
          /\ pc' \in {"reading", "looking up"} /\ alerted' = alerted /\ FaultOrNot
      BY <2>2 DEF Filled, Goes, FaultOrNot
    <3> QED
      BY <1>1, <1>4, <3>1 DEF Unsaved, Positions
  <2>3. CASE LookUp
    <3>1. /\ pc' \in {"reading", "done"} /\ alerted' = alerted /\ UNCHANGED position /\ FaultOrNot
      BY <2>3 DEF LookUp, Goes, Ends, FaultOrNot
    <3> QED
      BY <1>1, <1>3, <1>4, <3>1 DEF Unsaved, TypeOK
  <2>4. CASE ReadProtection \/ ReadAgain
    <3>1. /\ UNCHANGED position /\ FaultOrNot
          /\ \/ pc' \in {"correcting", "reasserting", "closing"} /\ alerted' = alerted
             \/ pc' = "saving" /\ alerted' = TRUE
             \/ pc' = "saving" /\ alerted' = alerted /\ ~Missing
      BY <2>4 DEF ReadProtection, ReadAgain, Goes, AlertsAnd, Confirmed, FaultOrNot
    <3>2. ~Missing => position.stop = order.stop /\ (order.target > 0 => position.target)
      BY <1>3, NotMissing
    <3> QED
      BY <1>1, <1>3, <1>4, <3>1, <3>2 DEF Unsaved, TypeOK
  <2>5. CASE Reassert \/ Correct
    <3>1. /\ Accepted(order.stop) \/ Raised(order.stop)
          /\ \/ pc' \in {"reading again", "closing"} /\ alerted' = alerted
             \/ pc' = "saving" /\ alerted' = TRUE
      BY <2>5 DEF Reassert, Correct, Goes, AlertsAnd
    <3> QED
      BY <1>1, <1>3, <3>1, Reasserted DEF Unsaved
  <2>6. CASE EmergencyClose
    <3>1. /\ position' \in {position, [position EXCEPT !.state = "closed"]} /\ FaultOrNot
          /\ pc' = "saving" /\ alerted' = TRUE
      BY <2>6 DEF EmergencyClose, AlertsAnd, FaultOrNot
    <3> QED
      BY <1>1, <1>3, <1>4, <3>1 DEF Unsaved, TypeOK, Positions
  <2> QED
    BY <2>1, <2>2, <2>3, <2>4, <2>5, <2>6 DEF Execute
<1>6. TypeOK'
  <2>1. alerted' \in BOOLEAN
    BY <1>1, <1>5 DEF Unsaved, TypeOK
  <2> QED
    BY <1>1, <1>2, <1>5, <2>1 DEF Unsaved, TypeOK
<1>7. UnsavedInv'
  BY <1>2, <1>3, <1>5 DEF Unsaved, UnsavedInv
<1>8. MonitorInv' /\ UncoveredIsAlerted'
  BY <1>2, <1>3 DEF MonitorInv, UncoveredIsAlerted
<1> QED
  BY <1>6, <1>7, <1>8 DEF PositionInv

\* The row is saved with the order's stop, which is attached unless somebody was alerted.
LEMMA SaveInv == PositionInv /\ SaveTrade => PositionInv'
<1> SUFFICES ASSUME PositionInv, SaveTrade PROVE PositionInv'
  OBVIOUS
<1>1. TypeOK /\ order.stop \in Int /\ None \notin Int /\ order.target \in Nat
  BY OrderFacts DEF PositionInv
<1>2. /\ pc = "saving" /\ pc' = "done" /\ UNCHANGED <<order, price, position, monitor>>
      /\ row.state = "none" /\ monitor.at = "idle" /\ position.stop \in {order.stop, None}
  BY DEF SaveTrade, Ends, AlertsAnd, PositionInv, UnsavedInv
<1>3. \/ /\ row' = [state |-> "open", stop |-> order.stop,
                    initial |-> IF Migrated THEN order.stop ELSE None]
         /\ UNCHANGED <<alerted, faults>>
      \/ alerted' = TRUE /\ FaultOrNot /\ UNCHANGED row
  BY DEF SaveTrade, Ends, AlertsAnd, FaultOrNot
<1>4. TypeOK'
  <2>1. alerted' \in BOOLEAN
    BY <1>1, <1>3 DEF TypeOK
  <2>2. faults' \in 0..MaxFaults
    BY <1>1, <1>3, FaultTyped DEF FaultOrNot
  <2>3. row' \in Rows
    <3>1. (IF Migrated THEN order.stop ELSE None) \in Int \cup {None}
      BY <1>1
    <3>2. row \in Rows
      BY <1>1 DEF TypeOK
    <3> QED
      BY <1>1, <1>3, <3>1, <3>2 DEF Rows
  <2> QED
    BY <1>1, <1>2, <2>1, <2>2, <2>3 DEF TypeOK
<1>5. UncoveredIsAlerted'
  <2>1. CASE alerted' # TRUE
    <3>1. /\ row' = [state |-> "open", stop |-> order.stop,
                     initial |-> IF Migrated THEN order.stop ELSE None]
          /\ ~alerted
      BY <1>1, <1>3, <2>1 DEF TypeOK
    <3>2. position.stop = order.stop /\ (order.target > 0 => position.target)
      BY <1>2, <3>1 DEF PositionInv, UnsavedInv
    <3> QED
      BY <1>1, <1>2, <3>1, <3>2 DEF UncoveredIsAlerted
  <2>2. CASE alerted' = TRUE
    BY <2>2 DEF UncoveredIsAlerted
  <2> QED
    BY <2>1, <2>2
<1> QED
  BY <1>2, <1>3, <1>4, <1>5 DEF PositionInv, UnsavedInv, MonitorInv

LEMMA ReconcileInv == PositionInv /\ (Reconcile \/ Crash) => PositionInv'
<1> SUFFICES ASSUME PositionInv, Reconcile \/ Crash PROVE PositionInv'
  OBVIOUS
<1>1. TypeOK /\ order.stop \in Int /\ None \notin Int
  BY OrderFacts DEF PositionInv
<1>2. CASE PhantomFound
  <2>1. TypeOK'
    <3>1. alerted' \in BOOLEAN
      BY <1>2 DEF PhantomFound
    <3> QED
      BY <1>1, <1>2, <3>1 DEF PhantomFound, TypeOK, Rows
  <2> QED
    BY <1>2, <2>1 DEF PhantomFound, PositionInv, UnsavedInv, MonitorInv, UncoveredIsAlerted
<1>3. CASE RowCloses
  <2>1. /\ row'.stop = row.stop /\ row'.state = "closed" /\ row.state = "open"
        /\ row' \in Rows
        /\ UNCHANGED <<order, price, position, pc, alerted, monitor, faults>>
    BY <1>1, <1>3 DEF RowCloses, TypeOK, executor, Rows
  <2>2. TypeOK'
    BY <1>1, <2>1 DEF TypeOK
  <2> QED
    BY <2>1, <2>2 DEF PositionInv, UnsavedInv, MonitorInv, UncoveredIsAlerted
<1>4. CASE Crash
  <2>1. TypeOK'
    BY <1>1, <1>4, FaultTyped DEF Crash, Ends, TypeOK, Idle, FaultOrNot, Monitors
  <2> QED
    BY <1>4, <2>1
    DEF Crash, Ends, Idle, PositionInv, UnsavedInv, MonitorInv, UncoveredIsAlerted, Open
<1> QED
  BY <1>2, <1>3, <1>4 DEF Reconcile

LEMMA MonitoringInv == PositionInv /\ Monitor => PositionInv'
<1> SUFFICES ASSUME PositionInv, Monitor PROVE PositionInv'
  OBVIOUS
<1>1. /\ TypeOK /\ order.stop \in Int /\ None \notin Int /\ order.target \in Nat /\ row.stop \in Int
      /\ UNCHANGED <<order, price, pc, alerted>>
  BY OrderFacts DEF PositionInv, TypeOK, Monitor, ReadRow, Price, ModifyStop, UpdateRow, executor, Rows
<1>2. /\ row.state # "none" /\ pc = "done"
  BY DEF Monitor, ReadRow, Price, ModifyStop, UpdateRow, PositionInv, UnsavedInv
<1>3. CASE ReadRow
  <2>1. /\ monitor' = [at |-> "pricing", stop |-> row.stop, initial |-> row.initial, new |-> None]
        /\ UNCHANGED <<position, row, faults>>
    BY <1>3 DEF ReadRow, Idle
  <2>2. TypeOK'
    BY <1>1, <2>1 DEF TypeOK, Monitors, Rows
  <2> QED
    BY <1>1, <1>2, <2>1, <2>2 DEF PositionInv, UnsavedInv, MonitorInv, UncoveredIsAlerted, Open
<1>4. CASE Price
  <2>1. monitor.at = "pricing" /\ monitor.stop = row.stop /\ UNCHANGED <<position, row>>
    BY <1>4 DEF Price, PositionInv, MonitorInv
  <2>2. NewStop(monitor, price) # None =>
          NewStop(monitor, price) \in Int /\ NewStop(monitor, price) > row.stop
    BY <1>1, <2>1, NewStopIsAhead
  <2>3. \/ /\ NewStop(monitor, price) # None
           /\ monitor' = [monitor EXCEPT !.at = "modifying", !.new = NewStop(monitor, price)]
        \/ monitor' = Idle
    BY <1>4 DEF Price
  <2>4. /\ monitor'.at \in {"modifying", "idle"} /\ (monitor'.at = "modifying" =>
             monitor'.stop = row.stop /\ monitor'.new \in Int /\ monitor'.new > row.stop)
        /\ monitor' \in Monitors
    <3>1. monitor \in Monitors
      BY <1>1 DEF TypeOK
    <3>2. CASE monitor' = Idle
      BY <3>2 DEF Idle, Monitors
    <3>3. CASE /\ NewStop(monitor, price) # None
               /\ monitor' = [monitor EXCEPT !.at = "modifying", !.new = NewStop(monitor, price)]
      <4> DEFINE new == NewStop(monitor, price)
      <4>1. new \in Int /\ new > row.stop
        BY <2>2, <3>3
      <4> HIDE DEF new
      <4>2. monitor' = [monitor EXCEPT !.at = "modifying", !.new = new]
        BY <3>3 DEF new
      <4> QED
        BY <2>1, <3>1, <4>1, <4>2 DEF Monitors
    <3> QED
      BY <2>3, <3>2, <3>3
  <2>5. faults' \in 0..MaxFaults
    BY <1>1, <1>4, FaultTyped DEF Price, FaultOrNot
  <2>6. TypeOK'
    BY <1>1, <2>1, <2>4, <2>5 DEF TypeOK
  <2> QED
    BY <1>1, <1>2, <2>1, <2>4, <2>6 DEF PositionInv, UnsavedInv, MonitorInv, UncoveredIsAlerted, Open
<1>5. CASE ModifyStop
  <2>1. /\ monitor.at = "modifying" /\ monitor.stop = row.stop /\ UNCHANGED row
        /\ monitor.new \in Int /\ monitor.new > row.stop
    BY <1>5 DEF ModifyStop, PositionInv, MonitorInv
  <2>2. /\ UNCHANGED position \/ Sets(monitor.new)
        /\ Accepted(monitor.new) => Sets(monitor.new)
        /\ faults' \in 0..MaxFaults
    BY <1>1, <1>5, ModifyOutcomes DEF ModifyStop
  <2>3. \/ monitor' = Idle
        \/ monitor' = [monitor EXCEPT !.at = "updating"] /\ Sets(monitor.new)
    BY <1>5, <2>2 DEF ModifyStop
  <2>4. Sets(monitor.new) =>
          /\ position' \in Positions
          /\ position'.state = position.state /\ position'.stop = monitor.new
          /\ position'.target = (order.target > 0)
    BY <1>1, <2>1, ModifiedFacts
  <2>5. TypeOK'
    <3>1. monitor' \in Monitors
      <4>1. monitor \in Monitors
        BY <1>1 DEF TypeOK
      <4> QED
        BY <2>3, <4>1 DEF Idle, Monitors
    <3>2. /\ position' \in Positions
          /\ position'.target => order.target > 0
      BY <1>1, <2>2, <2>4 DEF TypeOK
    <3> QED
      BY <1>1, <2>1, <2>2, <3>1, <3>2 DEF TypeOK
  <2>6. UncoveredIsAlerted'
    <3>1. CASE UNCHANGED position
      BY <1>1, <2>1, <3>1 DEF PositionInv, UncoveredIsAlerted, Open
    <3>2. CASE Sets(monitor.new)
      <4>1. position'.stop = monitor.new /\ position'.target = (order.target > 0)
        BY <2>4, <3>2
      <4>2. position'.stop # None /\ position'.stop >= row.stop
        BY <1>1, <2>1, <4>1
      <4>3. order.target > 0 => position'.target
        BY <4>1
      <4> QED
        BY <1>1, <2>1, <4>2, <4>3 DEF UncoveredIsAlerted
    <3> QED
      BY <2>2, <3>1, <3>2
  <2>7. MonitorInv'
    <3>1. CASE monitor' = Idle
      BY <3>1 DEF MonitorInv, Idle
    <3>2. CASE monitor' = [monitor EXCEPT !.at = "updating"] /\ Sets(monitor.new)
      <4>1. monitor \in Monitors
        BY <1>1 DEF TypeOK
      <4>2. monitor'.stop = monitor.stop /\ monitor'.new = monitor.new /\ monitor'.at = "updating"
        BY <3>2, <4>1 DEF Monitors
      <4>3. position'.stop = monitor.new
        BY <2>4, <3>2
      <4> QED
        BY <2>1, <4>2, <4>3 DEF MonitorInv
    <3> QED
      BY <2>3, <3>1, <3>2
  <2> QED
    BY <1>1, <1>2, <2>1, <2>5, <2>6, <2>7 DEF PositionInv, UnsavedInv
<1>6. CASE UpdateRow
  <2>1. /\ monitor.at = "updating" /\ monitor' = Idle /\ UNCHANGED position
        /\ monitor.new \in Int /\ position.stop = monitor.new /\ monitor.new > row.stop
        /\ row' \in {row, [row EXCEPT !.stop = monitor.new]}
    BY <1>6 DEF UpdateRow, PositionInv, MonitorInv
  <2>2. /\ row'.state = row.state /\ row'.stop \in {row.stop, monitor.new}
        /\ row' \in Rows
    BY <1>1, <2>1 DEF TypeOK, Rows
  <2>3. TypeOK'
    <3>1. faults' \in 0..MaxFaults
      BY <1>1, <1>6, FaultTyped DEF UpdateRow, FaultOrNot
    <3> QED
      BY <1>1, <2>1, <2>2, <3>1 DEF TypeOK, Idle, Monitors
  <2>4. UncoveredIsAlerted'
    BY <1>1, <2>1, <2>2 DEF PositionInv, UncoveredIsAlerted, Open
  <2> QED
    BY <1>1, <1>2, <2>1, <2>2, <2>3, <2>4 DEF PositionInv, UnsavedInv, MonitorInv, Idle
<1> QED
  BY <1>3, <1>4, <1>5, <1>6 DEF Monitor

LEMMA PositionStep == PositionInv /\ [Next]_vars => PositionInv'
<1> SUFFICES ASSUME PositionInv, [Next]_vars PROVE PositionInv'
  OBVIOUS
<1>1. CASE UNCHANGED vars
  BY <1>1 DEF vars, executor, PositionInv, TypeOK, UnsavedInv, MonitorInv, UncoveredIsAlerted, Open
<1> QED
  BY <1>1, BrokerInv, ExecuteInv, SaveInv, ReconcileInv, MonitoringInv DEF Next

LEMMA PositionInvariance == Spec => []PositionInv
BY PositionInit, PositionStep, PTL DEF Spec

----------------------------------------------------------------------------
(* Theorems *)

\* Every variable keeps to its type.
THEOREM Typing == Spec => []TypeOK
<1>1. PositionInv => TypeOK
  BY DEF PositionInv
<1> QED
  BY <1>1, PositionInvariance, PTL

\* Whatever the fill attached, whichever call failed, wherever the process stopped: a
\* position with a row has the protection the row shows, or somebody was alerted.
THEOREM ProtectedOrAlerted == Spec => []UncoveredIsAlerted
<1>1. PositionInv => UncoveredIsAlerted
  BY DEF PositionInv
<1> QED
  BY <1>1, PositionInvariance, PTL

\* The stop of a position never moves back while the row shows it as it is: neither the
\* executor's repairs nor the monitor's moves do that, whatever the price does meanwhile.
THEOREM StopsAdvance == Spec => StopsOnlyForward
<1> DEFINE Forward == (Open /\ position.stop # None /\ row.stop = position.stop)
                        => position'.stop >= position.stop
<1>1. PositionInv /\ [Next]_vars => [Forward]_vars
  <2> SUFFICES ASSUME PositionInv, Next, Open, position.stop # None, row.stop = position.stop
               PROVE  position'.stop >= position.stop
    OBVIOUS
  <2>1. /\ TypeOK /\ order.stop \in Int /\ None \notin Int
        /\ position.stop \in Int /\ position.state = "open"
    BY OrderFacts DEF PositionInv, TypeOK, Open, Positions
  <2>2. CASE position' = position \/ position' = [position EXCEPT !.state = "closed"]
    <3>1. position'.stop = position.stop
      BY <2>1, <2>2 DEF TypeOK, Positions
    <3> QED
      BY <2>1, <3>1
  <2>3. ASSUME NEW s \in {order.stop, None}, NEW t \in BOOLEAN, Filled(s, t)
        PROVE  position'.stop >= position.stop
    BY <2>1, <2>3 DEF Filled, PositionInv, UnsavedInv
  <2>4. CASE Reassert \/ Correct
    <3>1. position.stop = order.stop
      BY <2>1, <2>4 DEF Reassert, Correct, PositionInv, UnsavedInv
    <3>2. UNCHANGED position \/ Sets(order.stop)
      BY <2>1, <2>4, ModifyOutcomes DEF Reassert, Correct
    <3> QED
      BY <2>1, <3>1, <3>2, ModifiedFacts
  <2>5. CASE ModifyStop
    <3>1. monitor.new \in Int /\ monitor.new > row.stop
      BY <2>5 DEF ModifyStop, PositionInv, MonitorInv
    <3>2. UNCHANGED position \/ Sets(monitor.new)
      BY <2>1, <2>5, ModifyOutcomes DEF ModifyStop
    <3> QED
      BY <2>1, <3>1, <3>2, ModifiedFacts
  <2> QED
    BY <2>2, <2>3, <2>4, <2>5
    DEF Next, Broker, PriceMoves, PositionCloses, Execute, Rejected, LookUp, ReadProtection,
        ReadAgain, EmergencyClose, SaveTrade, Reconcile, PhantomFound, RowCloses, Crash,
        Monitor, ReadRow, Price, UpdateRow
<1> QED
  BY <1>1, PositionInvariance, PTL DEF Spec, StopsOnlyForward
================================================================================
