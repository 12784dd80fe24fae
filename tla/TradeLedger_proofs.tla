-------------------------- MODULE TradeLedger_proofs --------------------------
(* Proofs about TradeLedger, for every set of orders, rows and reconcilers. *)
EXTENDS TradeLedger, TLAPS

\* A broker that holds, or held, a position.
Held(o) == broker[o] \in {"open", "closed"}

ExecInv ==
  /\ exec.pc # "idle" => exec.order \in Orders
  /\ exec.pc = "checked" => broker[exec.order] = "none"
  /\ exec.pc = "filled" => Held(exec.order)

RowInv == \A r \in Rows : trades[r].status # "FREE" =>
            trades[r].broker_id \in Orders /\ Held(trades[r].broker_id)

\* What a pass has read stays true enough to act upon: its rows exist, its
\* snapshot holds real positions, and a row missing from a complete snapshot
\* belongs to a position that is closed, because the rows were read first.
PassOK(p, tr, br) ==
  /\ \A r \in p.rows : tr[r].status # "FREE"
  /\ \A o \in p.snapshot : br[o] \in {"open", "closed"}
  /\ p.pc = "comparing" =>
       \A r \in p.rows : LET o == tr[r].broker_id IN
         (~Simulated(o) /\ AccountOf[o] # "CAPITAL" /\ ProvedGone(p, o)) => br[o] = "closed"
PassInv(p) == PassOK(p, trades, broker)

GoneInv == /\ TypeOK /\ ExecInv /\ RowInv /\ ClosedRowsAreGone
           /\ PassInv(monitor) /\ \A k \in Reconcilers : PassInv(recon[k])

LEMMA GoneInit == Init => GoneInv
  BY ConstantsAssumption
  DEF Init, GoneInv, TypeOK, ExecInv, RowInv, PassInv, PassOK, ClosedRowsAreGone, Executor,
      IdleExecutor, Pass, IdlePass, Row, FreeRow, BrokerStates, Modes, Held

----------------------------------------------------------------------------
(* The two ways a row is written. *)

LEMMA ClosedRow ==
  ASSUME NEW row \in Row, NEW who \in Closers, NEW known \in BOOLEAN
  PROVE  LET new == Closed(row, who, known) IN
         /\ new \in Row /\ new.status = "CLOSED" /\ new.closed_by = who
         /\ new.broker_id = row.broker_id /\ new.mode = row.mode
         /\ new.saved = row.saved /\ new.pnl_known = known
BY DEF Closed, Row

LEMMA OpenedRow ==
  ASSUME NEW o \in Orders, NEW mode \in Modes, NEW saved \in BOOLEAN
  PROVE  LET new == OpenRow(o, mode, saved) IN
         /\ new \in Row /\ new.status = "OPEN" /\ new.broker_id = o
         /\ new.mode = mode /\ new.saved = saved
BY DEF OpenRow, FreeRow, Row, Modes

\* A step writes at most one row, and in one of these two ways.
Opens(r) == /\ trades[r].status = "FREE"
            /\ \E o \in Orders, mode \in Modes, saved \in BOOLEAN :
                 /\ Held(o) /\ trades' = [trades EXCEPT ![r] = OpenRow(o, mode, saved)]
                 /\ saved => (mode = ModeOf[o] /\ exec.pc = "filled")
Closes(r) == /\ trades[r].status = "OPEN"
             /\ \E who \in Closers, known \in BOOLEAN :
                  trades' = [trades EXCEPT ![r] = Closed(trades[r], who, known)]
RowsWritten == UNCHANGED trades \/ \E r \in Rows : Opens(r) \/ Closes(r)

----------------------------------------------------------------------------
(* The broker and the table only go forward. *)

BrokerForward == \A o \in Orders : /\ Held(o) => Held(o)'
                                   /\ broker[o] = "closed" => broker'[o] = "closed"
TradesForward == \A r \in Rows : trades[r].status # "FREE" =>
                   /\ trades'[r].status # "FREE"
                   /\ trades'[r].broker_id = trades[r].broker_id

LEMMA BrokerGoesForward == GoneInv /\ [Next]_vars => BrokerForward
<1> SUFFICES ASSUME GoneInv, [Next]_vars PROVE BrokerForward
  OBVIOUS
<1> USE DEF GoneInv, TypeOK, BrokerForward, Held, BrokerStates
<1>1. CASE Place
  BY <1>1 DEF Place, ExecInv, Executor
<1>2. CASE Broker
  BY <1>2 DEF Broker, BrokerAnswers, PositionCloses
<1>3. ASSUME NEW r \in Rows, MonitorRow(r) PROVE BrokerForward
  <2>1. r \in monitor.rows /\ Held(trades[r].broker_id) /\ trades[r].broker_id \in Orders
    BY <1>3 DEF MonitorRow, PassInv, PassOK, RowInv, Pass
  <2>2. MaxHold(r) => BrokerForward
    BY <2>1 DEF MaxHold, MarkTradeClosed
  <2> QED
    BY <1>3, <2>2 DEF MonitorRow, KeepRow, CloseGoneRow, MarkTradeClosed, PaperExit
<1>4. CASE UNCHANGED broker
  BY <1>4
<1> QED
  BY <1>1, <1>2, <1>3, <1>4
  DEF vars, Next, Execute, CheckSignal, FillReported, OrderRejected, FillUnknown,
      SaveTrade, SaveTradeFails, Monitor, MonitorReadRows, MonitorSnapshot, Reconcile,
      ReconReadRows, ReconSnapshot, ReconRow, HandlePhantom, ReconDone, Crash

\* What one row of a pass does to the table.
LEMMA MonitorWrites ==
  ASSUME NEW r \in Rows, MonitorRow(r) PROVE UNCHANGED trades \/ Closes(r)
<1>1. ASSUME NEW who \in {Engine, NotFound}, NEW known \in BOOLEAN,
             MonitorCloses(r, who, known)
      PROVE  UNCHANGED trades \/ Closes(r)
  BY <1>1 DEF MonitorCloses, Claims, Closes, Closers
<1>2. ASSUME NEW who \in {Engine, NotFound}, NEW known \in BOOLEAN,
             UpdateFails(r, who, known)
      PROVE  UNCHANGED trades \/ Closes(r)
  BY <1>2 DEF UpdateFails, Claims, Closes, Closers
<1>3. Fetchable(r) \in BOOLEAN
  BY DEF Fetchable
<1> QED
  BY <1>1, <1>2, <1>3
  DEF MonitorRow, KeepRow, CloseGoneRow, MarkTradeClosed, PaperExit, MaxHold

LEMMA ReconWrites ==
  ASSUME NEW k \in Reconcilers, NEW r \in Rows, ReconRow(k, r)
  PROVE  UNCHANGED trades \/ Closes(r)
<1>1. ASSUME NEW known \in BOOLEAN, ReconCloses(k, r, known)
      PROVE  UNCHANGED trades \/ Closes(r)
  BY <1>1 DEF ReconCloses, Claims, Closes, Closers
<1>2. ASSUME NEW known \in BOOLEAN, Claims(r),
             trades' = [trades EXCEPT ![r] = Closed(@, k, known)]
      PROVE  Closes(r)
  BY <1>2 DEF Claims, Closes, Closers
<1>3. Fetchable(r) \in BOOLEAN
  BY DEF Fetchable
<1> QED
  BY <1>1, <1>2, <1>3 DEF ReconRow, ReconKeeps, HandleGhost

LEMMA RowsAreWritten == GoneInv /\ [Next]_vars => RowsWritten
<1> SUFFICES ASSUME GoneInv, [Next]_vars PROVE RowsWritten
  OBVIOUS
<1>1. ASSUME NEW r \in Rows, SaveTrade(r) PROVE Opens(r)
  <2>1. exec.order \in Orders /\ Held(exec.order) /\ ModeOf[exec.order] \in Modes
    BY <1>1, ConstantsAssumption DEF SaveTrade, ExecInv, GoneInv
  <2> QED
    BY <1>1, <2>1 DEF SaveTrade, Opens
<1>2. ASSUME NEW k \in Reconcilers, NEW o \in Orders, HandlePhantom(k, o)
      PROVE  RowsWritten
  <2>1. Held(o) /\ "PAPER" \in Modes
    BY <1>2 DEF HandlePhantom, Phantoms, PassInv, PassOK, Modes, Held, GoneInv
  <2> QED
    BY <1>2, <2>1 DEF HandlePhantom, Opens, RowsWritten
<1>3. CASE UNCHANGED trades
  BY <1>3 DEF RowsWritten
<1> QED
  BY <1>1, <1>2, <1>3, MonitorWrites, ReconWrites
  DEF RowsWritten, vars, Next, Execute, CheckSignal, Place, FillReported, OrderRejected,
      FillUnknown, SaveTradeFails, Broker, BrokerAnswers, PositionCloses, Monitor,
      MonitorReadRows, MonitorSnapshot, Reconcile, ReconReadRows, ReconSnapshot,
      ReconDone, Crash

LEMMA TradesGoForward ==
  GoneInv /\ [Next]_vars => TradesForward /\ trades' \in [Rows -> Row]
<1> SUFFICES ASSUME GoneInv, [Next]_vars PROVE TradesForward /\ trades' \in [Rows -> Row]
  OBVIOUS
<1>1. trades \in [Rows -> Row]
  BY DEF GoneInv, TypeOK
<1>2. ASSUME NEW r \in Rows, Opens(r) PROVE TradesForward /\ trades' \in [Rows -> Row]
  BY <1>1, <1>2, OpenedRow DEF Opens, TradesForward
<1>3. ASSUME NEW r \in Rows, Closes(r) PROVE TradesForward /\ trades' \in [Rows -> Row]
  BY <1>1, <1>3, ClosedRow DEF Closes, TradesForward
<1> QED
  BY <1>1, <1>2, <1>3, RowsAreWritten DEF RowsWritten, TradesForward

----------------------------------------------------------------------------
(* The passes: how they are made, and why what they have read stays true. *)

LEMMA IdlePassFields == IdlePass \in Pass /\ IdlePass.pc = "idle" /\ IdlePass.rows = {}
                        /\ IdlePass.snapshot = {} /\ IdlePass.ghosts = {}
  BY DEF IdlePass, Pass

LEMMA RowsReadFields ==
  ASSUME NEW S \in SUBSET Rows, BrokerIds(S) \in SUBSET Orders
  PROVE  LET q == RowsRead(S) IN /\ q \in Pass /\ q.pc = "rows_read" /\ q.rows = S
                                 /\ q.snapshot = {} /\ q.ghosts = {}
  BY DEF RowsRead, IdlePass, Pass

LEMMA SnapshotFields ==
  ASSUME NEW p \in Pass, NEW S \in SUBSET Orders, NEW c \in BOOLEAN
  PROVE  LET q == Snapshot(p, S, c) IN
           /\ q \in Pass /\ q.pc = "comparing" /\ q.rows = p.rows
           /\ q.snapshot = S /\ q.complete = c /\ q.ghosts = p.ghosts
  BY DEF Snapshot, Pass

LEMMA RowDoneFields ==
  ASSUME NEW p \in Pass, NEW r \in Rows, NEW G \in SUBSET Rows
  PROVE  LET q == RowDone(p, r, G) IN
           /\ q \in Pass /\ q.pc = p.pc /\ q.rows = p.rows \ {r} /\ q.snapshot = p.snapshot
           /\ q.complete = p.complete /\ q.ghosts = p.ghosts \cup G
  BY DEF RowDone, Pass

\* q is p with some of its rows done.
Shorter(q, p) == /\ q \in Pass /\ q.pc = p.pc /\ q.rows \subseteq p.rows
                 /\ q.snapshot = p.snapshot /\ q.complete = p.complete

LEMMA OpenRowsFacts ==
  ASSUME RowInv
  PROVE  OpenRows \in SUBSET Rows /\ BrokerIds(OpenRows) \in SUBSET Orders
  BY DEF OpenRows, BrokerIds, RowInv

\* The ways a pass moves on.
PassMoves(p, q) ==
  \/ q = IdlePass
  \/ q = RowsRead(OpenRows) /\ UNCHANGED <<broker, trades>>
  \/ /\ \E c \in BOOLEAN : q = Snapshot(p, OandaOpen(c), c)
     /\ UNCHANGED <<broker, trades>>
  \/ Shorter(q, p)

LEMMA MonitorMoves == GoneInv /\ [Next]_vars => PassMoves(monitor, monitor')
<1> SUFFICES ASSUME GoneInv, [Next]_vars PROVE PassMoves(monitor, monitor')
  OBVIOUS
<1>1. monitor \in Pass
  BY DEF GoneInv, TypeOK
<1>2. ASSUME MonitorReadRows \/ MonitorSnapshot PROVE PassMoves(monitor, monitor')
  BY <1>2 DEF MonitorReadRows, MonitorSnapshot, PassMoves
<1>3. ASSUME NEW r \in Rows, MonitorRow(r) PROVE PassMoves(monitor, monitor')
  BY <1>1, <1>3 DEF MonitorRow, PassMoves, Shorter, Pass
<1>4. CASE Crash
  BY <1>4 DEF Crash, PassMoves
<1>5. CASE UNCHANGED monitor
  BY <1>1, <1>5 DEF PassMoves, Shorter
<1> QED
  BY <1>2, <1>3, <1>4, <1>5
  DEF vars, Next, Execute, CheckSignal, Place, FillReported, OrderRejected, FillUnknown,
      SaveTrade, SaveTradeFails, Broker, BrokerAnswers, PositionCloses, Monitor, Reconcile,
      ReconReadRows, ReconSnapshot, ReconRow, HandlePhantom, ReconDone

LEMMA ReconMoves ==
  ASSUME GoneInv, [Next]_vars
  PROVE  /\ recon' \in [Reconcilers -> Pass]
         /\ \A k \in Reconcilers : PassMoves(recon[k], recon'[k])
<1> DEFINE Goal == /\ recon' \in [Reconcilers -> Pass]
                   /\ \A k \in Reconcilers : PassMoves(recon[k], recon'[k])
<1>1. recon \in [Reconcilers -> Pass] /\ RowInv
  BY DEF GoneInv, TypeOK
<1>2. \A k \in Reconcilers : PassMoves(recon[k], recon[k])
  BY <1>1 DEF PassMoves, Shorter
<1>3. ASSUME NEW k \in Reconcilers, NEW q \in Pass, PassMoves(recon[k], q),
             recon' = [recon EXCEPT ![k] = q]
      PROVE  Goal
  BY <1>1, <1>2, <1>3
<1>4. ASSUME NEW k \in Reconcilers, ReconReadRows(k) PROVE Goal
  <2>1. RowsRead(OpenRows) \in Pass
    BY <1>1, OpenRowsFacts, RowsReadFields
  <2> QED
    BY <1>3, <1>4, <2>1 DEF ReconReadRows, PassMoves
<1>5. ASSUME NEW k \in Reconcilers, ReconSnapshot(k) PROVE Goal
  <2>1. ASSUME NEW c \in BOOLEAN PROVE Snapshot(recon[k], OandaOpen(c), c) \in Pass
    BY <1>1, SnapshotFields DEF OandaOpen
  <2>2. PICK q \in {Snapshot(recon[k], OandaOpen(TRUE), TRUE),
                    Snapshot(recon[k], OandaOpen(FALSE), FALSE), IdlePass} :
          recon' = [recon EXCEPT ![k] = q]
    BY <1>5 DEF ReconSnapshot
  <2>3. q \in Pass /\ PassMoves(recon[k], q)
    BY <1>5, <2>1, IdlePassFields DEF ReconSnapshot, PassMoves
  <2> QED
    BY <1>3, <2>2, <2>3
<1>6. ASSUME NEW k \in Reconcilers, NEW r \in Rows, ReconRow(k, r) PROVE Goal
  <2>1. PICK G \in SUBSET Rows : recon' = [recon EXCEPT ![k] = RowDone(recon[k], r, G)]
    BY <1>6 DEF ReconRow, ReconKeeps, HandleGhost, ReconCloses
  <2>2. RowDone(recon[k], r, G) \in Pass /\ Shorter(RowDone(recon[k], r, G), recon[k])
    BY <1>1, RowDoneFields DEF Shorter
  <2> QED
    BY <1>3, <2>1, <2>2 DEF PassMoves
<1>7. ASSUME NEW k \in Reconcilers, NEW o \in Orders, HandlePhantom(k, o) PROVE Goal
  <2>1. PhantomDone(recon[k], o) \in Pass /\ Shorter(PhantomDone(recon[k], o), recon[k])
    BY <1>1 DEF Shorter, Pass, PhantomDone
  <2> QED
    BY <1>3, <1>7, <2>1 DEF HandlePhantom, PassMoves
<1>8. ASSUME NEW k \in Reconcilers, ReconDone(k) PROVE Goal
  BY <1>3, <1>8, IdlePassFields DEF ReconDone, PassMoves
<1>9. CASE Crash
  BY <1>9, IdlePassFields DEF Crash, PassMoves
<1>10. CASE UNCHANGED recon
  BY <1>1, <1>2, <1>10
<1> QED
  BY <1>4, <1>5, <1>6, <1>7, <1>8, <1>9, <1>10
  DEF vars, Next, Execute, CheckSignal, Place, FillReported, OrderRejected, FillUnknown,
      SaveTrade, SaveTradeFails, Broker, BrokerAnswers, PositionCloses, Monitor,
      MonitorReadRows, MonitorSnapshot, MonitorRow, Reconcile

LEMMA PassStays ==
  ASSUME GoneInv, [Next]_vars, NEW p \in Pass, PassInv(p), NEW q, PassMoves(p, q)
  PROVE  q \in Pass /\ PassOK(q, trades', broker')
<1>1. TradesForward /\ BrokerForward /\ RowInv /\ TypeOK
  BY TradesGoForward, BrokerGoesForward DEF GoneInv
<1>2. CASE q = IdlePass
  BY <1>2, IdlePassFields DEF PassOK
<1>3. CASE q = RowsRead(OpenRows) /\ UNCHANGED <<broker, trades>>
  BY <1>1, <1>3, OpenRowsFacts, RowsReadFields DEF PassOK, OpenRows
<1>4. ASSUME NEW c \in BOOLEAN, q = Snapshot(p, OandaOpen(c), c), UNCHANGED <<broker, trades>>
      PROVE  q \in Pass /\ PassOK(q, trades', broker')
  <2>1. /\ q \in Pass /\ q.pc = "comparing" /\ q.rows = p.rows
        /\ q.snapshot = OandaOpen(c) /\ q.complete = c
    BY <1>4, SnapshotFields DEF OandaOpen
  <2>2. ASSUME NEW r \in q.rows, ~Simulated(trades[r].broker_id),
               AccountOf[trades[r].broker_id] # "CAPITAL", ProvedGone(q, trades[r].broker_id)
        PROVE  broker[trades[r].broker_id] = "closed"
    <3>1. trades[r].broker_id \in Orders /\ Held(trades[r].broker_id)
      BY <1>1, <2>1 DEF PassInv, PassOK, RowInv, Pass
    <3>2. AccountOf[trades[r].broker_id] \in {"MAIN", "CRYPTO"}
      BY <2>2, <3>1, ConstantsAssumption DEF Accounts
    <3> QED
      BY <2>1, <2>2, <3>1, <3>2 DEF ProvedGone, OandaOpen, Held
  <2> QED
    BY <1>4, <2>1, <2>2 DEF PassInv, PassOK, OandaOpen
<1>5. CASE Shorter(q, p)
  <2>1. \A r \in q.rows : r \in Rows /\ trades[r].status # "FREE"
                          /\ trades[r].broker_id \in Orders
    BY <1>1, <1>5 DEF PassInv, PassOK, Shorter, Pass, RowInv
  <2>2. \A r \in q.rows : trades'[r].status # "FREE"
                          /\ trades'[r].broker_id = trades[r].broker_id
    BY <1>1, <2>1 DEF TradesForward
  <2>3. \A o \in q.snapshot : broker'[o] \in {"open", "closed"}
    BY <1>1, <1>5 DEF PassInv, PassOK, Shorter, Pass, BrokerForward, Held
  <2>4. q.pc = "comparing" => \A r \in q.rows : LET o == trades'[r].broker_id IN
         (~Simulated(o) /\ AccountOf[o] # "CAPITAL" /\ ProvedGone(q, o)) => broker'[o] = "closed"
    BY <1>1, <1>5, <2>1, <2>2 DEF PassInv, PassOK, Shorter, BrokerForward, ProvedGone
  <2> QED
    BY <1>5, <2>2, <2>3, <2>4 DEF PassOK, Shorter
<1> QED
  BY <1>2, <1>3, <1>4, <1>5 DEF PassMoves

----------------------------------------------------------------------------
(* The parts of GoneInv, one by one. *)

LEMMA AddPnlTyped == ASSUME TypeOK, NEW S, AddPnl(S) PROVE booked' \in [Rows -> Nat]
  BY DEF TypeOK, AddPnl

LEMMA FaultTyped == ASSUME TypeOK, Fault \/ UNCHANGED faults PROVE faults' \in 0..MaxFaults
  BY ConstantsAssumption DEF TypeOK, Fault

LEMMA MonitorRowTyped ==
  ASSUME TypeOK, NEW r \in Rows, MonitorRow(r)
  PROVE  booked' \in [Rows -> Nat] /\ broker' \in [Orders -> BrokerStates]
         /\ (Fault \/ UNCHANGED faults)
<1>1. ASSUME NEW who, NEW known, MonitorCloses(r, who, known)
      PROVE  booked' \in [Rows -> Nat]
  BY <1>1, AddPnlTyped DEF MonitorCloses, TypeOK
<1>2. ASSUME NEW who, MarkTradeClosed(r, who) PROVE booked' \in [Rows -> Nat]
  BY <1>1, <1>2 DEF MarkTradeClosed, UpdateFails, TypeOK
<1>3. ASSUME NEW who, MarkTradeClosed(r, who) PROVE Fault \/ UNCHANGED faults
  BY <1>3 DEF MarkTradeClosed, UpdateFails
<1>4. booked' \in [Rows -> Nat]
  BY <1>1, <1>2 DEF MonitorRow, KeepRow, CloseGoneRow, PaperExit, MaxHold, UpdateFails, TypeOK
<1>5. broker' \in [Orders -> BrokerStates]
  BY DEF MonitorRow, KeepRow, CloseGoneRow, PaperExit, MaxHold, MarkTradeClosed,
         TypeOK, BrokerStates
<1>6. Fault \/ UNCHANGED faults
  BY <1>3 DEF MonitorRow, KeepRow, CloseGoneRow, PaperExit, MaxHold, UpdateFails
<1> QED
  BY <1>4, <1>5, <1>6

LEMMA TypeStep == GoneInv /\ [Next]_vars => TypeOK'
<1> SUFFICES ASSUME GoneInv, [Next]_vars PROVE TypeOK'
  OBVIOUS
<1>1. trades' \in [Rows -> Row] /\ recon' \in [Reconcilers -> Pass] /\ monitor' \in Pass
  BY TradesGoForward, ReconMoves, MonitorMoves, PassStays DEF GoneInv, TypeOK
<1>2. TypeOK
  BY DEF GoneInv
<1>3. exec' \in Executor
  <2>1. Execute => exec' \in Executor
    <3> USE <1>2 DEF TypeOK, Executor
    <3>1. ASSUME NEW o \in Orders, CheckSignal(o) PROVE exec' \in Executor
      BY <3>1 DEF CheckSignal
    <3>2. Place \/ FillReported => exec' \in Executor
      BY DEF Place, FillReported
    <3>3. IdleExecutor \in Executor
      BY DEF IdleExecutor
    <3> QED
      BY <3>1, <3>2, <3>3 DEF Execute, OrderRejected, FillUnknown, SaveTrade, SaveTradeFails
  <2>2. Crash => exec' \in Executor
    BY DEF Crash, Executor, IdleExecutor
  <2>3. UNCHANGED exec => exec' \in Executor
    BY <1>2 DEF TypeOK
  <2> QED
    BY <2>1, <2>2, <2>3
    DEF vars, Next, Broker, BrokerAnswers, PositionCloses, Monitor, MonitorReadRows,
        MonitorSnapshot, MonitorRow, Reconcile, ReconReadRows, ReconSnapshot, ReconRow,
        HandlePhantom, ReconDone
<1>4. broker' \in [Orders -> BrokerStates]
  BY <1>2, MonitorRowTyped DEF TypeOK, BrokerStates, vars, Next, Execute, CheckSignal, Place,
      FillReported, OrderRejected, FillUnknown, SaveTrade, SaveTradeFails, Broker,
      BrokerAnswers, PositionCloses, Monitor, MonitorReadRows, MonitorSnapshot,
      Reconcile, ReconReadRows, ReconSnapshot, ReconRow, HandlePhantom, ReconDone, Crash
<1>5. booked' \in [Rows -> Nat]
  BY <1>2, MonitorRowTyped, AddPnlTyped DEF TypeOK, vars, Next, Execute, CheckSignal, Place,
      FillReported, OrderRejected, FillUnknown, SaveTrade, SaveTradeFails, Broker,
      BrokerAnswers, PositionCloses, Monitor, MonitorReadRows, MonitorSnapshot,
      Reconcile, ReconReadRows, ReconSnapshot, ReconRow, HandlePhantom, ReconDone, Crash
<1>6. Fault \/ UNCHANGED faults
  BY <1>2, MonitorRowTyped DEF vars, Next, Execute, CheckSignal, Place,
      FillReported, OrderRejected, FillUnknown, SaveTrade, SaveTradeFails, Broker,
      BrokerAnswers, PositionCloses, Monitor, MonitorReadRows, MonitorSnapshot,
      Reconcile, ReconReadRows, ReconSnapshot, ReconRow, ReconKeeps, HandleGhost,
      HandlePhantom, ReconDone, Crash
<1> QED
  BY <1>1, <1>2, <1>3, <1>4, <1>5, <1>6, FaultTyped DEF TypeOK

LEMMA ExecStep == GoneInv /\ [Next]_vars => ExecInv'
<1> SUFFICES ASSUME GoneInv, [Next]_vars PROVE ExecInv'
  OBVIOUS
<1> USE DEF ExecInv, Held
<1>1. ExecInv /\ TypeOK /\ BrokerForward
  BY BrokerGoesForward DEF GoneInv
<1>2. ASSUME NEW o \in Orders, CheckSignal(o) PROVE ExecInv'
  BY <1>2 DEF CheckSignal
<1>3. CASE Place
  BY <1>1, <1>3 DEF Place, TypeOK, Executor
<1>4. CASE FillReported
  BY <1>1, <1>4 DEF FillReported, TypeOK, Executor
<1>5. CASE exec' = IdleExecutor
  BY <1>5 DEF IdleExecutor
<1>6. ASSUME UNCHANGED exec,
             \A o \in Orders : broker[o] = "none" => broker'[o] = "none"
      PROVE  ExecInv'
  BY <1>1, <1>6 DEF BrokerForward
<1>7. CASE Broker
  BY <1>1, <1>6, <1>7 DEF Broker, BrokerAnswers, PositionCloses, TypeOK
<1>8. ASSUME NEW r \in Rows, MonitorRow(r) PROVE ExecInv'
  <2>1. MaxHold(r) => \A o \in Orders : broker[o] = "none" => broker'[o] = "none"
    BY <1>1 DEF MaxHold, MarkTradeClosed, TypeOK
  <2> QED
    BY <1>6, <1>8, <2>1 DEF MonitorRow, KeepRow, CloseGoneRow, MarkTradeClosed, PaperExit
<1> QED
  BY <1>1, <1>2, <1>3, <1>4, <1>5, <1>6, <1>7, <1>8
  DEF vars, Next, Execute, OrderRejected, FillUnknown, SaveTrade, SaveTradeFails,
      Monitor, MonitorReadRows, MonitorSnapshot, Reconcile, ReconReadRows, ReconSnapshot,
      ReconRow, HandlePhantom, ReconDone, Crash

LEMMA RowStep == GoneInv /\ [Next]_vars => RowInv'
<1> SUFFICES ASSUME GoneInv, [Next]_vars PROVE RowInv'
  OBVIOUS
<1>1. RowInv /\ BrokerForward /\ TradesForward /\ trades \in [Rows -> Row]
  BY BrokerGoesForward, TradesGoForward DEF GoneInv, TypeOK
<1>2. ASSUME NEW r \in Rows, trades[r].status # "FREE" \/ UNCHANGED trades,
             trades'[r].status # "FREE"
      PROVE  trades'[r].broker_id \in Orders
             /\ broker'[trades'[r].broker_id] \in {"open", "closed"}
  BY <1>1, <1>2 DEF RowInv, BrokerForward, TradesForward, Held
<1>3. ASSUME NEW s \in Rows, Opens(s) PROVE RowInv'
  BY <1>1, <1>2, <1>3, OpenedRow DEF Opens, RowInv, BrokerForward, Held
<1>4. ASSUME NEW s \in Rows, Closes(s) PROVE RowInv'
  <2>1. \A r \in Rows : trades'[r].status # "FREE" => trades[r].status # "FREE"
    BY <1>1, <1>4 DEF Closes
  <2> QED
    BY <1>2, <2>1 DEF RowInv, Held
<1>5. CASE UNCHANGED trades
  BY <1>2, <1>5 DEF RowInv, Held
<1> QED
  BY <1>3, <1>4, <1>5, RowsAreWritten DEF RowsWritten

----------------------------------------------------------------------------
(* Whoever closes a row has proof that the position is gone. *)

Gone(o) == Simulated(o) \/ AccountOf[o] = "CAPITAL" \/ broker[o] = "closed"

\* ... but for the max-hold branch, which may take an id with "404" in it for a proof.
ClosesGone(r) ==
  /\ trades[r].status = "OPEN"
  /\ \E who \in Closers, known \in BOOLEAN :
       /\ trades' = [trades EXCEPT ![r] = Closed(trades[r], who, known)]
       /\ \/ Gone(trades[r].broker_id)
          \/ who = NotFound /\ trades[r].broker_id \in Looks404

LEMMA MonitorClosesGone ==
  ASSUME GoneInv, NEW r \in Rows, MonitorRow(r) PROVE UNCHANGED trades \/ ClosesGone(r)
<1>1. /\ monitor.pc = "comparing" /\ r \in monitor.rows
      /\ trades[r].broker_id \in Orders /\ Held(trades[r].broker_id)
  BY DEF MonitorRow, GoneInv, PassInv, PassOK, RowInv
<1>2. Gone(trades[r].broker_id) => UNCHANGED trades \/ ClosesGone(r)
  BY MonitorWrites DEF Closes, ClosesGone
<1>3. CloseGoneRow(r) => Gone(trades[r].broker_id)
  BY <1>1 DEF CloseGoneRow, Gone, GoneInv, PassInv, PassOK
<1>4. CASE MaxHold(r)
  <2>1. ASSUME trades[r].broker_id \in Looks404, MonitorCloses(r, NotFound, FALSE)
        PROVE  UNCHANGED trades \/ ClosesGone(r)
    BY <2>1 DEF MonitorCloses, Claims, ClosesGone, Closers
  <2>2. \/ UNCHANGED trades \/ Gone(trades[r].broker_id)
        \/ trades[r].broker_id \in Looks404 /\ MonitorCloses(r, NotFound, FALSE)
    BY <1>1, <1>4 DEF MaxHold, Gone, Held
  <2> QED
    BY <1>2, <2>1, <2>2
<1>5. PaperExit(r) => Gone(trades[r].broker_id)
  BY DEF PaperExit, Gone
<1>6. KeepRow(r) => UNCHANGED trades
  BY DEF KeepRow
<1> QED
  BY <1>2, <1>3, <1>4, <1>5, <1>6 DEF MonitorRow

LEMMA ReconClosesGone ==
  ASSUME GoneInv, NEW k \in Reconcilers, NEW r \in Rows, ReconRow(k, r)
  PROVE  UNCHANGED trades \/ ClosesGone(r)
<1>1. Ghost(k, r) => Gone(trades[r].broker_id)
  BY DEF ReconRow, GoneInv, PassInv, PassOK, Ghost, Gone
<1>2. HandleGhost(k, r) => Ghost(k, r)
  BY DEF HandleGhost
<1>3. ReconKeeps(k, r) => UNCHANGED trades
  BY DEF ReconKeeps
<1> QED
  BY <1>1, <1>2, <1>3, ReconWrites DEF ReconRow, Closes, ClosesGone

LEMMA GoneStep == GoneInv /\ [Next]_vars => ClosedRowsAreGone'
<1> SUFFICES ASSUME GoneInv, [Next]_vars PROVE ClosedRowsAreGone'
  OBVIOUS
<1> USE DEF ClosedRowsAreGone, RowInv
<1>1. RowInv /\ ClosedRowsAreGone /\ BrokerForward /\ trades \in [Rows -> Row]
  BY BrokerGoesForward DEF GoneInv, TypeOK
<1>2. CASE UNCHANGED trades
  BY <1>1, <1>2 DEF BrokerForward
<1>3. ASSUME NEW s \in Rows, Opens(s) PROVE ClosedRowsAreGone'
  BY <1>1, <1>3, OpenedRow DEF Opens, BrokerForward
<1>4. ASSUME NEW s \in Rows, ClosesGone(s) PROVE ClosedRowsAreGone'
  <2>1. \A r \in Rows : r # s => trades'[r] = trades[r]
    BY <1>1, <1>4 DEF ClosesGone
  <2>2. /\ trades'[s].broker_id = trades[s].broker_id /\ trades[s].broker_id \in Orders
        /\ \/ Gone(trades[s].broker_id)
           \/ trades'[s].closed_by = NotFound /\ trades[s].broker_id \in Looks404
    BY <1>1, <1>4, ClosedRow DEF ClosesGone
  <2> QED
    BY <1>1, <2>1, <2>2 DEF BrokerForward, Gone
<1>5. ASSUME NEW s \in Rows, SaveTrade(s) PROVE ClosedRowsAreGone'
  <2>1. exec.order \in Orders /\ Held(exec.order) /\ ModeOf[exec.order] \in Modes
    BY <1>5, ConstantsAssumption DEF SaveTrade, ExecInv, GoneInv
  <2> QED
    BY <1>3, <1>5, <2>1 DEF SaveTrade, Opens
<1>6. ASSUME NEW k \in Reconcilers, NEW o \in Orders, HandlePhantom(k, o)
      PROVE  ClosedRowsAreGone'
  <2>1. Held(o) /\ "PAPER" \in Modes
    BY <1>6 DEF HandlePhantom, Phantoms, PassInv, PassOK, Modes, Held, GoneInv
  <2> QED
    BY <1>2, <1>3, <1>6, <2>1 DEF HandlePhantom, Opens
<1> QED
  BY <1>2, <1>4, <1>5, <1>6, MonitorClosesGone, ReconClosesGone
  DEF vars, Next, Execute, CheckSignal, Place, FillReported, OrderRejected, FillUnknown,
      SaveTradeFails, Broker, BrokerAnswers, PositionCloses, Monitor, MonitorReadRows,
      MonitorSnapshot, Reconcile, ReconReadRows, ReconSnapshot, ReconDone, Crash

----------------------------------------------------------------------------
(* The theorems. *)

LEMMA GoneInvStep == GoneInv /\ [Next]_vars => GoneInv'
<1> SUFFICES ASSUME GoneInv, [Next]_vars PROVE GoneInv'
  OBVIOUS
<1>1. PassInv(monitor)'
  BY MonitorMoves, PassStays DEF GoneInv, TypeOK, PassInv
<1>2. \A k \in Reconcilers : PassInv(recon[k])'
  BY ReconMoves, PassStays DEF GoneInv, TypeOK, PassInv
<1> QED
  BY <1>1, <1>2, TypeStep, ExecStep, RowStep, GoneStep DEF GoneInv

LEMMA GoneInvariance == Spec => []GoneInv
  BY GoneInit, GoneInvStep, PTL DEF Spec

\* Every variable keeps its type: for any number of orders, rows and reconcilers
\* execute_order, the monitor and the reconcilers write only well-formed rows.
THEOREM Typing == Spec => []TypeOK
<1>1. GoneInv => TypeOK
  BY DEF GoneInv
<1> QED
  BY <1>1, GoneInvariance, PTL

\* A closed row of an OANDA order belongs to a closed position: _check_closed_positions
\* and _handle_ghost never close the row of a live position, because the rows are read
\* before the snapshot and only a complete one counts.  The exception is a row that the
\* max-hold branch closed on an error that reads as a 404, for an id with these digits.
THEOREM ClosedIsGone == Spec => []ClosedRowsAreGone
<1>1. GoneInv => ClosedRowsAreGone
  BY DEF GoneInv
<1> QED
  BY <1>1, GoneInvariance, PTL

----------------------------------------------------------------------------
(* One signal, one live order. *)

\* execute_order saves a row with the order's own mode, and no row is saved
\* between the check of a signal and the placing of its order.
SignalInv ==
  /\ \A r \in Rows : trades[r].saved => /\ trades[r].status # "FREE"
                                        /\ trades[r].mode = ModeOf[trades[r].broker_id]
  /\ (exec.pc = "checked" /\ ~Simulated(exec.order)) => SignalUnused(exec.order)

\* Saved rows are those that were saved before, unless the executor has a fill.
SavedAreKept ==
  \A r \in Rows : trades'[r].saved =>
    \/ /\ trades[r].saved /\ trades'[r].mode = trades[r].mode
       /\ trades'[r].broker_id = trades[r].broker_id
    \/ exec.pc = "filled" /\ trades'[r].mode = ModeOf[trades'[r].broker_id]

LEMMA SavedKept == GoneInv /\ [Next]_vars => SavedAreKept
<1> SUFFICES ASSUME GoneInv, RowsWritten PROVE SavedAreKept
  BY RowsAreWritten
<1> USE DEF SavedAreKept
<1>1. trades \in [Rows -> Row]
  BY DEF GoneInv, TypeOK
<1>2. ASSUME NEW r \in Rows, Opens(r) PROVE SavedAreKept
  BY <1>1, <1>2, OpenedRow DEF Opens
<1>3. ASSUME NEW r \in Rows, Closes(r) PROVE SavedAreKept
  BY <1>1, <1>3, ClosedRow DEF Closes
<1> QED
  BY <1>1, <1>2, <1>3 DEF RowsWritten

LEMMA SignalInvStep == GoneInv /\ SignalInv /\ [Next]_vars => SignalInv'
<1> SUFFICES ASSUME GoneInv, SignalInv, [Next]_vars PROVE SignalInv'
  OBVIOUS
<1>1. SavedAreKept /\ TradesForward /\ GoneInv'
  BY SavedKept, TradesGoForward, GoneInvStep
<1>2. \A r \in Rows : trades'[r].saved => /\ trades'[r].status # "FREE"
                                          /\ trades'[r].mode = ModeOf[trades'[r].broker_id]
  <2>1. \A r \in Rows : trades'[r].saved => trades'[r].status # "FREE"
    <3>1. ASSUME NEW r \in Rows, Opens(r)
          PROVE  \A s \in Rows : trades'[s].saved => trades'[s].status # "FREE"
      BY <3>1, OpenedRow DEF Opens, SignalInv, GoneInv, TypeOK
    <3>2. ASSUME NEW r \in Rows, Closes(r)
          PROVE  \A s \in Rows : trades'[s].saved => trades'[s].status # "FREE"
      BY <3>2, ClosedRow DEF Closes, SignalInv, GoneInv, TypeOK
    <3> QED
      BY <3>1, <3>2, RowsAreWritten DEF RowsWritten, SignalInv
  <2> QED
    BY <1>1, <2>1 DEF SavedAreKept, SignalInv
<1>3. ASSUME UNCHANGED exec PROVE SignalInv'
  <2>1. (exec.pc = "checked" /\ ~Simulated(exec.order)) =>
          \A r \in Rows : ~ /\ trades'[r].saved /\ trades'[r].mode = "LIVE"
                            /\ ~Simulated(trades'[r].broker_id)
                            /\ SignalOf[trades'[r].broker_id] = SignalOf[exec.order]
    BY <1>1 DEF SignalInv, SignalUnused, SavedAreKept
  <2> QED
    BY <1>2, <1>3, <2>1 DEF SignalInv, SignalUnused
<1>4. ASSUME NEW o \in Orders, CheckSignal(o) PROVE SignalInv'
  BY <1>2, <1>4 DEF CheckSignal, SignalInv, SignalUnused
<1>5. ASSUME exec'.pc # "checked" PROVE SignalInv'
  BY <1>2, <1>5 DEF SignalInv
<1>6. Place \/ FillReported => exec'.pc # "checked"
  BY DEF Place, FillReported, GoneInv, TypeOK, Executor
<1>7. IdleExecutor.pc # "checked"
  BY DEF IdleExecutor
<1>8. UNCHANGED exec \/ Execute \/ Crash
  BY DEF vars, Next, Broker, BrokerAnswers, PositionCloses, Monitor, MonitorReadRows,
         MonitorSnapshot, MonitorRow, Reconcile, ReconReadRows, ReconSnapshot, ReconRow,
         HandlePhantom, ReconDone
<1>9. CASE Execute
  BY <1>4, <1>5, <1>6, <1>7, <1>9
  DEF Execute, OrderRejected, FillUnknown, SaveTrade, SaveTradeFails
<1>10. CASE Crash
  BY <1>5, <1>7, <1>10 DEF Crash
<1> QED
  BY <1>3, <1>8, <1>9, <1>10

LEMMA OnlyPlaceSends ==
  ASSUME GoneInv, [Next]_vars, NEW o \in Orders, broker[o] = "none", broker'[o] = "sent"
  PROVE  Place /\ o = exec.order /\ ~Simulated(o)
<1>1. broker \in [Orders -> BrokerStates]
  BY DEF GoneInv, TypeOK
<1>2. ASSUME NEW r \in Rows, MonitorRow(r) PROVE FALSE
  BY <1>1, <1>2 DEF MonitorRow, KeepRow, CloseGoneRow, PaperExit, MaxHold, MarkTradeClosed
<1>3. CASE Place
  BY <1>1, <1>3 DEF Place
<1>4. CASE Broker
  BY <1>1, <1>4 DEF Broker, BrokerAnswers, PositionCloses
<1> QED
  BY <1>1, <1>2, <1>3, <1>4
  DEF vars, Next, Execute, CheckSignal, FillReported, OrderRejected, FillUnknown, SaveTrade,
      SaveTradeFails, Monitor, MonitorReadRows, MonitorSnapshot, Reconcile, ReconReadRows,
      ReconSnapshot, ReconRow, HandlePhantom, ReconDone, Crash

\* A signal that has a saved live row, open or closed, never gets a second live
\* order: the idempotency guard of execute_order, with any number of activities.
THEOREM OneOrderPerSignal == Spec => NoSecondLiveOrder
<1>1. Init => SignalInv
  BY DEF Init, SignalInv, FreeRow, IdleExecutor
<1>2. GoneInv /\ SignalInv /\ [Next]_vars => NewOrderIsNew
  <2> SUFFICES ASSUME GoneInv, SignalInv, [Next]_vars,
                      NEW o \in Orders, broker[o] = "none", broker'[o] = "sent",
                      NEW r \in Rows, trades[r].saved, ~Simulated(trades[r].broker_id)
               PROVE  SignalOf[trades[r].broker_id] # SignalOf[o]
    BY DEF NewOrderIsNew
  <2>1. SignalUnused(o)
    BY OnlyPlaceSends DEF Place, SignalInv
  <2> QED
    BY <2>1 DEF SignalUnused, SignalInv, Simulated
<1>3. GoneInv /\ SignalInv /\ [Next]_vars => [NewOrderIsNew]_vars
  BY <1>2
<1> QED
  BY <1>1, <1>3, GoneInit, GoneInvStep, SignalInvStep, PTL
  DEF Spec, NoSecondLiveOrder

----------------------------------------------------------------------------
(* The P&L bookings: no row is booked twice, and the table with its counters *)
(* implements TradeBook.                                                      *)

\* A ghost that is still to be booked was closed by the caller that holds it, so
\* no other caller holds it, and nobody has booked it.
BookInv ==
  /\ \A r \in Rows : booked[r] # 0 => /\ booked[r] = 1 /\ trades[r].status = "CLOSED"
                                      /\ trades[r].pnl_known /\ Counts(r)
  /\ \A k \in Reconcilers : \A r \in recon[k].ghosts :
       /\ trades[r].status = "CLOSED" /\ trades[r].closed_by = k
       /\ trades[r].pnl_known /\ booked[r] = 0

----------------------------------------------------------------------------
(* What a step does to the table, the counters and the ghosts. *)

GhostsShrink == \A j \in Reconcilers : recon'[j].ghosts \subseteq recon[j].ghosts

StepOpens(r) == Opens(r) /\ UNCHANGED booked /\ GhostsShrink

\* The monitor claims r and books what it learned.
StepMonitorCloses(r) ==
  /\ trades[r].status = "OPEN" /\ GhostsShrink
  /\ \E who \in {Engine, NotFound}, known \in BOOLEAN :
       /\ trades' = [trades EXCEPT ![r] = Closed(trades[r], who, known)]
       /\ UNCHANGED booked \/ (known /\ AddPnl({r}))

\* The caller k claims r and keeps it as a ghost if it learned a P&L.
StepReconCloses(k, r) ==
  /\ trades[r].status = "OPEN" /\ UNCHANGED booked
  /\ \E known \in BOOLEAN :
       /\ trades' = [trades EXCEPT ![r] = Closed(trades[r], k, known)]
       /\ \A j \in Reconcilers : recon'[j].ghosts
            \subseteq recon[j].ghosts \cup (IF j = k /\ known THEN {r} ELSE {})

\* The caller k books its ghosts.
StepBooks(k) == /\ UNCHANGED trades /\ GhostsShrink
                /\ recon'[k].ghosts = {} /\ AddPnl(recon[k].ghosts)

StepKinds ==
  \/ UNCHANGED <<trades, booked>> /\ GhostsShrink
  \/ \E r \in Rows : StepOpens(r) \/ StepMonitorCloses(r)
  \/ \E k \in Reconcilers, r \in Rows : StepReconCloses(k, r)
  \/ \E k \in Reconcilers : StepBooks(k)

LEMMA NothingToAdd == ASSUME TypeOK, AddPnl({}) PROVE UNCHANGED booked
  BY DEF TypeOK, AddPnl

LEMMA MonitorRowKind ==
  ASSUME GoneInv, NEW r \in Rows, MonitorRow(r) PROVE StepKinds
<1>1. GhostsShrink /\ TypeOK
  BY DEF MonitorRow, GhostsShrink, GoneInv
<1>2. ASSUME NEW who \in {Engine, NotFound}, NEW known \in BOOLEAN,
             MonitorCloses(r, who, known)
      PROVE  StepKinds
  <2>1. CASE Claims(r)
    <3>1. AddPnl(IF known THEN {r} ELSE {}) => UNCHANGED booked \/ (known /\ AddPnl({r}))
      BY <1>1, NothingToAdd
    <3> QED
      BY <1>1, <1>2, <2>1, <3>1 DEF StepKinds, MonitorCloses, Claims, StepMonitorCloses
  <2>2. CASE ~Claims(r)
    BY <1>1, <1>2, <2>2 DEF StepKinds, MonitorCloses
  <2> QED
    BY <2>1, <2>2
<1>3. ASSUME NEW who \in {Engine, NotFound}, NEW known \in BOOLEAN,
             UpdateFails(r, who, known)
      PROVE  StepKinds
  BY <1>1, <1>3 DEF UpdateFails, Claims, StepKinds, StepMonitorCloses
<1>4. Fetchable(r) \in BOOLEAN
  BY DEF Fetchable
<1>5. ASSUME NEW who \in {Engine, NotFound}, MarkTradeClosed(r, who) PROVE StepKinds
  BY <1>2, <1>3, <1>4, <1>5 DEF MarkTradeClosed
<1>6. ASSUME UNCHANGED <<trades, booked>> PROVE StepKinds
  BY <1>1, <1>6 DEF StepKinds
<1> QED
  BY <1>2, <1>3, <1>5, <1>6 DEF MonitorRow, KeepRow, CloseGoneRow, PaperExit, MaxHold

LEMMA ReconRowKind ==
  ASSUME GoneInv, NEW k \in Reconcilers, NEW r \in Rows, ReconRow(k, r) PROVE StepKinds
<1>1. recon \in [Reconcilers -> Pass] /\ UNCHANGED booked
  BY DEF ReconRow, GoneInv, TypeOK
<1>2. ASSUME NEW G \in SUBSET Rows, recon' = [recon EXCEPT ![k] = RowDone(recon[k], r, G)]
      PROVE  \A j \in Reconcilers : recon'[j].ghosts
               \subseteq recon[j].ghosts \cup (IF j = k THEN G ELSE {})
  <2>1. RowDone(recon[k], r, G).ghosts = recon[k].ghosts \cup G
    BY <1>1, RowDoneFields
  <2>2. recon'[k] = RowDone(recon[k], r, G) /\ \A j \in Reconcilers \ {k} : recon'[j] = recon[j]
    BY <1>1, <1>2
  <2> QED
    BY <2>1, <2>2
<1>3. ASSUME UNCHANGED trades, recon' = [recon EXCEPT ![k] = RowDone(recon[k], r, {})]
      PROVE  StepKinds
  <2>1. \A j \in Reconcilers : recon'[j].ghosts \subseteq recon[j].ghosts \cup {}
    BY <1>2, <1>3
  <2> QED
    BY <1>1, <1>3, <2>1 DEF StepKinds, GhostsShrink
<1>4. ASSUME NEW known \in BOOLEAN, Claims(r),
             trades' = [trades EXCEPT ![r] = Closed(trades[r], k, known)],
             recon' = [recon EXCEPT ![k] = RowDone(recon[k], r, IF known THEN {r} ELSE {})]
      PROVE  StepKinds
  <2>1. \A j \in Reconcilers : recon'[j].ghosts
               \subseteq recon[j].ghosts \cup (IF j = k /\ known THEN {r} ELSE {})
    BY <1>2, <1>4
  <2>2. StepReconCloses(k, r)
    BY <1>1, <1>4, <2>1 DEF StepReconCloses, Claims
  <2> QED
    BY <2>2 DEF StepKinds
<1>5. ASSUME NEW known \in BOOLEAN, ReconCloses(k, r, known) PROVE StepKinds
  BY <1>3, <1>4, <1>5 DEF ReconCloses
<1>6. ASSUME NEW known \in BOOLEAN, Claims(r),
             trades' = [trades EXCEPT ![r] = Closed(trades[r], k, known)],
             recon' = [recon EXCEPT ![k] = RowDone(recon[k], r, {})]
      PROVE  StepKinds
  <2>1. \A j \in Reconcilers : recon'[j].ghosts \subseteq recon[j].ghosts \cup {}
    BY <1>2, <1>6
  <2>2. StepReconCloses(k, r)
    BY <1>1, <1>6, <2>1 DEF StepReconCloses, Claims
  <2> QED
    BY <2>2 DEF StepKinds
<1>7. Fetchable(r) \in BOOLEAN
  BY DEF Fetchable
<1> QED
  BY <1>3, <1>5, <1>6, <1>7 DEF ReconRow, ReconKeeps, HandleGhost

LEMMA EveryKind == GoneInv /\ [Next]_vars => StepKinds
<1> SUFFICES ASSUME GoneInv, [Next]_vars PROVE StepKinds
  OBVIOUS
<1>1. TypeOK /\ recon \in [Reconcilers -> Pass] /\ ExecInv /\ RowInv
  BY DEF GoneInv, TypeOK
<1>2. ASSUME UNCHANGED recon PROVE GhostsShrink
  BY <1>2 DEF GhostsShrink
<1>3. ASSUME NEW k \in Reconcilers, NEW q \in Pass, q.ghosts \subseteq recon[k].ghosts,
             recon' = [recon EXCEPT ![k] = q]
      PROVE  GhostsShrink /\ recon'[k] = q
  BY <1>1, <1>3 DEF GhostsShrink
<1>4. ASSUME NEW r \in Rows, SaveTrade(r) PROVE StepKinds
  <2>1. exec.order \in Orders /\ Held(exec.order) /\ ModeOf[exec.order] \in Modes
    BY <1>1, <1>4, ConstantsAssumption DEF SaveTrade, ExecInv
  <2> QED
    BY <1>2, <1>4, <2>1 DEF SaveTrade, Opens, StepKinds, StepOpens
<1>5. ASSUME NEW k \in Reconcilers, ReconReadRows(k) PROVE StepKinds
  BY <1>1, <1>3, <1>5, OpenRowsFacts, RowsReadFields DEF ReconReadRows, StepKinds
<1>6. ASSUME NEW k \in Reconcilers, ReconSnapshot(k) PROVE StepKinds
  <2>1. ASSUME NEW c \in BOOLEAN
        PROVE  /\ Snapshot(recon[k], OandaOpen(c), c) \in Pass
               /\ Snapshot(recon[k], OandaOpen(c), c).ghosts = recon[k].ghosts
    BY <1>1, SnapshotFields DEF OandaOpen
  <2>2. PICK q \in {Snapshot(recon[k], OandaOpen(TRUE), TRUE),
                    Snapshot(recon[k], OandaOpen(FALSE), FALSE), IdlePass} :
          recon' = [recon EXCEPT ![k] = q]
    BY <1>6 DEF ReconSnapshot
  <2>3. q \in Pass /\ q.ghosts \subseteq recon[k].ghosts
    BY <2>1, IdlePassFields
  <2> QED
    BY <1>3, <1>6, <2>2, <2>3 DEF ReconSnapshot, StepKinds
<1>7. ASSUME NEW k \in Reconcilers, NEW o \in Orders, HandlePhantom(k, o) PROVE StepKinds
  <2>1. Held(o) /\ "PAPER" \in Modes
    BY <1>7 DEF HandlePhantom, Phantoms, PassInv, PassOK, Modes, Held, GoneInv
  <2>2. /\ PhantomDone(recon[k], o) \in Pass
        /\ PhantomDone(recon[k], o).ghosts = recon[k].ghosts
    BY <1>1 DEF PhantomDone, Pass
  <2>3. GhostsShrink /\ UNCHANGED booked
    BY <1>3, <1>7, <2>2 DEF HandlePhantom
  <2> QED
    BY <1>7, <2>1, <2>3 DEF HandlePhantom, Opens, StepKinds, StepOpens
<1>8. ASSUME NEW k \in Reconcilers, ReconDone(k) PROVE StepKinds
  <2>1. GhostsShrink /\ recon'[k].ghosts = {}
    BY <1>3, <1>8, IdlePassFields DEF ReconDone
  <2>2. CASE k \in BookingReconcilers
    BY <1>8, <2>1, <2>2 DEF ReconDone, StepKinds, StepBooks
  <2>3. CASE k \notin BookingReconcilers
    BY <1>1, <1>8, <2>1, <2>3, NothingToAdd DEF ReconDone, StepKinds
  <2> QED
    BY <2>2, <2>3
<1>9. CASE Crash
  BY <1>9, IdlePassFields DEF Crash, StepKinds, GhostsShrink
<1>10. ASSUME UNCHANGED <<trades, recon, booked>> PROVE StepKinds
  BY <1>2, <1>10 DEF StepKinds
<1> QED
  BY <1>4, <1>5, <1>6, <1>7, <1>8, <1>9, <1>10, MonitorRowKind, ReconRowKind
  DEF vars, Next, Execute, CheckSignal, Place, FillReported, OrderRejected, FillUnknown,
      SaveTradeFails, Broker, BrokerAnswers, PositionCloses, Monitor, MonitorReadRows,
      MonitorSnapshot, Reconcile

----------------------------------------------------------------------------
(* BookInv, kind by kind. *)

LEMMA ClosedSteps ==
  ASSUME TypeOK, NEW r \in Rows, NEW who \in Closers, NEW known \in BOOLEAN,
         trades' = [trades EXCEPT ![r] = Closed(trades[r], who, known)]
  PROVE  /\ trades'[r].status = "CLOSED" /\ trades'[r].closed_by = who
         /\ trades'[r].pnl_known = known /\ trades'[r].mode = trades[r].mode
         /\ \A s \in Rows : s # r => trades'[s] = trades[s]
  BY ClosedRow DEF TypeOK

LEMMA AddPnlValues ==
  ASSUME TypeOK, NEW S, AddPnl(S)
  PROVE  \A r \in Rows : booked'[r] = IF r \in S /\ Counts(r) THEN booked[r] + 1 ELSE booked[r]
  BY DEF TypeOK, AddPnl

LEMMA BookInvStep == GoneInv /\ BookInv /\ [Next]_vars => BookInv'
<1> SUFFICES ASSUME GoneInv, BookInv, StepKinds PROVE BookInv'
  BY EveryKind
<1> USE DEF BookInv, Counts
<1>1. TypeOK /\ booked \in [Rows -> Nat] /\ recon \in [Reconcilers -> Pass]
  BY DEF GoneInv, TypeOK
<1>2. \A k \in Reconcilers : recon[k].ghosts \subseteq Rows
  BY <1>1 DEF Pass
<1>3. CASE UNCHANGED <<trades, booked>> /\ GhostsShrink
  BY <1>3 DEF GhostsShrink
<1>4. ASSUME NEW r \in Rows, StepOpens(r) PROVE BookInv'
  <2>1. \A s \in Rows : trades[s].status = "CLOSED" => trades'[s] = trades[s]
    BY <1>1, <1>4 DEF StepOpens, Opens, TypeOK
  <2> QED
    BY <1>2, <1>4, <2>1 DEF StepOpens, GhostsShrink
<1>5. ASSUME NEW r \in Rows, StepMonitorCloses(r) PROVE BookInv'
  <2>1. PICK who \in {Engine, NotFound}, known \in BOOLEAN :
          /\ trades' = [trades EXCEPT ![r] = Closed(trades[r], who, known)]
          /\ UNCHANGED booked \/ (known /\ AddPnl({r}))
    BY <1>5 DEF StepMonitorCloses
  <2>2. /\ trades'[r].status = "CLOSED" /\ trades'[r].pnl_known = known
        /\ trades'[r].mode = trades[r].mode
        /\ \A s \in Rows : s # r => trades'[s] = trades[s]
    BY <1>1, <2>1, ClosedSteps DEF Closers
  <2>3. booked[r] = 0 /\ \A k \in Reconcilers : r \notin recon[k].ghosts
    BY <1>1, <1>5 DEF StepMonitorCloses
  <2>4. /\ \A s \in Rows : s # r => booked'[s] = booked[s]
        /\ booked'[r] = 0 \/ (booked'[r] = 1 /\ known /\ Counts(r))
    BY <1>1, <2>1, <2>3, AddPnlValues
  <2>5. \A s \in Rows : booked'[s] # 0 =>
          /\ booked'[s] = 1 /\ trades'[s].status = "CLOSED"
          /\ trades'[s].pnl_known /\ trades'[s].mode # "PAPER_SHADOW"
    BY <2>2, <2>4
  <2>6. \A k \in Reconcilers : \A s \in recon'[k].ghosts :
          s \in Rows /\ s # r /\ s \in recon[k].ghosts
    BY <1>2, <1>5, <2>3 DEF StepMonitorCloses, GhostsShrink
  <2> QED
    BY <2>2, <2>4, <2>5, <2>6
<1>6. ASSUME NEW k \in Reconcilers, NEW r \in Rows, StepReconCloses(k, r) PROVE BookInv'
  <2>1. PICK known \in BOOLEAN :
          /\ trades' = [trades EXCEPT ![r] = Closed(trades[r], k, known)]
          /\ \A j \in Reconcilers : recon'[j].ghosts
               \subseteq recon[j].ghosts \cup (IF j = k /\ known THEN {r} ELSE {})
    BY <1>6 DEF StepReconCloses
  <2>2. /\ trades'[r].status = "CLOSED" /\ trades'[r].pnl_known = known
        /\ trades'[r].closed_by = k
        /\ \A s \in Rows : s # r => trades'[s] = trades[s]
    BY <1>1, <2>1, ClosedSteps DEF Closers
  <2>3. booked'[r] = 0 /\ UNCHANGED booked /\ \A j \in Reconcilers : r \notin recon[j].ghosts
    BY <1>1, <1>6 DEF StepReconCloses
  <2>4. \A j \in Reconcilers : \A s \in recon'[j].ghosts :
          s \in Rows /\ (s \in recon[j].ghosts \/ (s = r /\ j = k /\ known))
    BY <1>2, <2>1
  <2> QED
    BY <2>2, <2>3, <2>4
<1>7. ASSUME NEW k \in Reconcilers, StepBooks(k) PROVE BookInv'
  <2>1. \A r \in Rows : booked'[r] = IF r \in recon[k].ghosts /\ Counts(r)
                                     THEN booked[r] + 1 ELSE booked[r]
    BY <1>1, <1>7, AddPnlValues DEF StepBooks
  <2>2. \A r \in Rows : r \in recon[k].ghosts => booked[r] = 0
    OBVIOUS
  <2>3. \A j \in Reconcilers : \A r \in recon'[j].ghosts :
          r \in Rows /\ r \in recon[j].ghosts /\ r \notin recon[k].ghosts
    BY <1>2, <1>7 DEF StepBooks, GhostsShrink
  <2> QED
    BY <1>7, <2>1, <2>2, <2>3 DEF StepBooks
<1> QED
  BY <1>3, <1>4, <1>5, <1>6, <1>7 DEF StepKinds

LEMMA BookInit == Init => BookInv
  BY DEF Init, BookInv, IdlePass

LEMMA BookInvariance == Spec => [](GoneInv /\ BookInv)
<1>1. GoneInv /\ BookInv /\ [Next]_vars => (GoneInv /\ BookInv)'
  BY GoneInvStep, BookInvStep
<1> QED
  BY <1>1, GoneInit, BookInit, PTL DEF Spec

\* The P&L of a row reaches the loss limits at most once, after its close, for any
\* number of reconcilers racing with the monitor: the compare-and-set on OPEN in
\* _update_closed_trade and _handle_ghost lets one of them book it.
THEOREM BookedOnce == Spec => []BookedAtMostOnce
<1>1. GoneInv /\ BookInv => BookedAtMostOnce
  BY DEF GoneInv, TypeOK, BookInv, BookedAtMostOnce, Counts
<1> QED
  BY <1>1, BookInvariance, PTL

----------------------------------------------------------------------------
(* No P&L is lost but by the three steps that LossesAreBooked names: what was *)
(* learned is booked, or held by a pass.                                      *)

\* Only a pass that compares holds ghosts: none is dropped where a pass ends early.
HandInv == \A k \in Reconcilers : recon[k].pc # "comparing" => recon[k].ghosts = {}

LEMMA HandInit == Init => HandInv
  BY IdlePassFields DEF Init, HandInv

LEMMA HandStep == GoneInv /\ HandInv /\ [Next]_vars => HandInv'
<1> SUFFICES ASSUME GoneInv, HandInv, [Next]_vars PROVE HandInv'
  OBVIOUS
<1>1. recon \in [Reconcilers -> Pass] /\ RowInv
  BY DEF GoneInv, TypeOK
<1>2. ASSUME NEW k \in Reconcilers, NEW q, recon' = [recon EXCEPT ![k] = q],
             q.pc # "comparing" => q.ghosts = {}
      PROVE  HandInv'
  BY <1>1, <1>2 DEF HandInv
<1>3. ASSUME NEW k \in Reconcilers, ReconReadRows(k) PROVE HandInv'
  BY <1>1, <1>2, <1>3, OpenRowsFacts, RowsReadFields DEF ReconReadRows
<1>4. ASSUME NEW k \in Reconcilers, ReconSnapshot(k) PROVE HandInv'
  <2>1. ASSUME NEW c \in BOOLEAN PROVE Snapshot(recon[k], OandaOpen(c), c).pc = "comparing"
    BY <1>1, SnapshotFields DEF OandaOpen
  <2> QED
    BY <1>2, <1>4, <2>1, IdlePassFields DEF ReconSnapshot
<1>5. ASSUME NEW k \in Reconcilers, NEW r \in Rows, ReconRow(k, r) PROVE HandInv'
  <2>1. PICK G \in SUBSET Rows : recon' = [recon EXCEPT ![k] = RowDone(recon[k], r, G)]
    BY <1>5 DEF ReconRow, ReconKeeps, HandleGhost, ReconCloses
  <2>2. RowDone(recon[k], r, G).pc = "comparing"
    BY <1>1, <1>5, RowDoneFields DEF ReconRow
  <2> QED
    BY <1>2, <2>1, <2>2
<1>6. ASSUME NEW k \in Reconcilers, NEW o \in Orders, HandlePhantom(k, o) PROVE HandInv'
  <2>1. PhantomDone(recon[k], o).pc = "comparing"
    BY <1>1, <1>6 DEF HandlePhantom, Phantoms, PhantomDone, Pass
  <2> QED
    BY <1>2, <1>6, <2>1 DEF HandlePhantom
<1>7. ASSUME NEW k \in Reconcilers, ReconDone(k) PROVE HandInv'
  BY <1>2, <1>7, IdlePassFields DEF ReconDone
<1>8. CASE Crash
  BY <1>8, IdlePassFields DEF Crash, HandInv
<1>9. CASE UNCHANGED recon
  BY <1>9 DEF HandInv
<1> QED
  BY <1>3, <1>4, <1>5, <1>6, <1>7, <1>8, <1>9
  DEF vars, Next, Execute, CheckSignal, Place, FillReported, OrderRejected, FillUnknown,
      SaveTrade, SaveTradeFails, Broker, BrokerAnswers, PositionCloses, Monitor,
      MonitorReadRows, MonitorSnapshot, MonitorRow, Reconcile

NoneLost == \A r \in Rows : Lost(r)' => Lost(r) \/ ReplyLost(r) \/ Dropped(r)
GhostsStay == \A j \in Reconcilers : recon[j].ghosts \subseteq recon'[j].ghosts
Recorded == \A r \in Rows : booked[r] = 1 => booked'[r] = 1
RowsKept == \A r \in Rows : \/ trades'[r] = trades[r]
                            \/ Owed(r)' => InHand(r)'
                            \/ ReplyLost(r)

\* What is in hand stays there if no ghost is dropped and no booking undone; a row may be
\* closed meanwhile, if it then is in hand itself or the reply was lost.
LEMMA StaysInHand ==
  ASSUME GhostsStay, Recorded, RowsKept PROVE NoneLost
<1> SUFFICES ASSUME NEW r \in Rows, Lost(r)', ~ReplyLost(r) PROVE Lost(r)
  BY DEF NoneLost
<1>1. trades'[r] = trades[r] /\ Owed(r)'
  BY DEF Lost, RowsKept
<1>2. Owed(r)
  BY <1>1 DEF Owed, Counts
<1>3. InHand(r) => InHand(r)'
  BY DEF InHand, HeldBy, GhostsStay, Recorded
<1> QED
  BY <1>2, <1>3 DEF Lost

LEMMA FaultShows == ASSUME TypeOK, Fault PROVE faults' # faults
  BY ConstantsAssumption DEF TypeOK, Fault

LEMMA OpeningLosesNone ==
  ASSUME GoneInv, NEW r \in Rows, Opens(r), GhostsStay, UNCHANGED booked PROVE NoneLost
<1>1. /\ \A s \in Rows \ {r} : trades'[s] = trades[s]
      /\ trades'[r].status = "OPEN"
  BY OpenedRow DEF Opens, GoneInv, TypeOK
<1> QED
  BY <1>1, StaysInHand DEF Recorded, Owed, RowsKept

\* The monitor books what it closes in the same step.
LEMMA MonitorLosesNone ==
  ASSUME GoneInv, BookInv, NEW r \in Rows, MonitorRow(r) PROVE NoneLost
<1>1. TypeOK /\ booked \in [Rows -> Nat] /\ GhostsStay
  BY DEF MonitorRow, GhostsStay, GoneInv, TypeOK
<1>2. CASE UNCHANGED <<trades, booked>>
  BY <1>1, <1>2, StaysInHand DEF Recorded, RowsKept
<1>3. ASSUME NEW who \in {Engine, NotFound}, NEW known \in BOOLEAN, Claims(r),
             trades' = [trades EXCEPT ![r] = Closed(trades[r], who, known)],
             AddPnl(IF known THEN {r} ELSE {})
      PROVE  NoneLost
  <2>1. /\ trades'[r].pnl_known = known /\ trades'[r].mode = trades[r].mode
        /\ \A s \in Rows \ {r} : trades'[s] = trades[s]
    BY <1>1, <1>3, ClosedSteps DEF Closers
  <2>2. booked[r] = 0
    BY <1>3 DEF BookInv, Claims
  <2>3. Recorded
    <3>1. ASSUME NEW s \in Rows, booked[s] = 1 PROVE s # r
      BY <2>2, <3>1
    <3> QED
      BY <1>1, <1>3, <3>1, AddPnlValues DEF Recorded
  <2>4. ASSUME Owed(r)' PROVE InHand(r)'
    <3>1. known /\ Counts(r)
      BY <2>1, <2>4 DEF Owed, Counts
    <3>2. booked'[r] = booked[r] + 1
      BY <1>1, <1>3, <3>1, AddPnlValues
    <3> QED
      BY <2>2, <3>2 DEF InHand
  <2> QED
    BY <1>1, <2>1, <2>3, <2>4, StaysInHand DEF RowsKept
<1>4. ASSUME NEW who \in {Engine, NotFound}, NEW known \in BOOLEAN,
             MonitorCloses(r, who, known)
      PROVE  NoneLost
  BY <1>2, <1>3, <1>4 DEF MonitorCloses
<1>5. ASSUME NEW who \in {Engine, NotFound}, NEW known \in BOOLEAN,
             UpdateFails(r, who, known)
      PROVE  NoneLost
  <2>1. CASE UNCHANGED trades
    BY <1>2, <1>5, <2>1 DEF UpdateFails
  <2>2. CASE Claims(r) /\ trades' = [trades EXCEPT ![r] = Closed(trades[r], who, known)]
    <3>1. trades'[r].status = "CLOSED" /\ \A s \in Rows \ {r} : trades'[s] = trades[s]
      BY <1>1, <2>2, ClosedSteps DEF Closers
    <3>2. ReplyLost(r)
      BY <1>1, <1>5, <2>2, <3>1, FaultShows DEF UpdateFails, ReplyLost
    <3> QED
      BY <1>1, <1>5, <3>1, <3>2, StaysInHand DEF UpdateFails, Recorded, RowsKept
  <2> QED
    BY <1>5, <2>1, <2>2 DEF UpdateFails
<1>6. Fetchable(r) \in BOOLEAN
  BY DEF Fetchable
<1>7. ASSUME NEW who \in {Engine, NotFound}, MarkTradeClosed(r, who) PROVE NoneLost
  BY <1>4, <1>5, <1>6, <1>7 DEF MarkTradeClosed
<1> QED
  BY <1>2, <1>4, <1>5, <1>7 DEF MonitorRow, KeepRow, CloseGoneRow, PaperExit, MaxHold

\* A reconciler keeps the ghosts it has, and holds the one it claims, unless the reply
\* to the claim is lost.
LEMMA ReconLosesNone ==
  ASSUME GoneInv, NEW k \in Reconcilers, NEW r \in Rows, ReconRow(k, r) PROVE NoneLost
<1>1. TypeOK /\ recon \in [Reconcilers -> Pass] /\ Recorded
  BY DEF ReconRow, Recorded, GoneInv, TypeOK
<1>2. ASSUME NEW G \in SUBSET Rows, recon' = [recon EXCEPT ![k] = RowDone(recon[k], r, G)]
      PROVE  GhostsStay /\ G \subseteq recon'[k].ghosts
  <2>1. recon'[k].ghosts = recon[k].ghosts \cup G
    BY <1>1, <1>2, RowDoneFields
  <2> QED
    BY <1>1, <1>2, <2>1 DEF GhostsStay
<1>3. ASSUME UNCHANGED trades, recon' = [recon EXCEPT ![k] = RowDone(recon[k], r, {})]
      PROVE  NoneLost
  <2>1. GhostsStay
    BY <1>2, <1>3, {} \in SUBSET Rows
  <2> QED
    BY <1>1, <1>3, <2>1, StaysInHand DEF RowsKept
<1>4. ASSUME NEW known \in BOOLEAN, trades' = [trades EXCEPT ![r] = Closed(trades[r], k, known)],
             recon' = [recon EXCEPT ![k] = RowDone(recon[k], r, IF known THEN {r} ELSE {})]
      PROVE  NoneLost
  <2>1. /\ trades'[r].closed_by = k /\ trades'[r].pnl_known = known
        /\ \A s \in Rows \ {r} : trades'[s] = trades[s]
    BY <1>1, <1>4, ClosedSteps DEF Closers
  <2>2. GhostsStay /\ (IF known THEN {r} ELSE {}) \subseteq recon'[k].ghosts
    <3>1. (IF known THEN {r} ELSE {}) \in SUBSET Rows
      OBVIOUS
    <3> QED
      BY <1>2, <1>4, <3>1
  <2>3. Owed(r)' => InHand(r)'
    BY <2>1, <2>2 DEF Owed, InHand, HeldBy
  <2> QED
    BY <1>1, <2>1, <2>2, <2>3, StaysInHand DEF RowsKept
<1>5. ASSUME NEW known \in BOOLEAN, Claims(r), Fault,
             trades' = [trades EXCEPT ![r] = Closed(trades[r], k, known)],
             recon' = [recon EXCEPT ![k] = RowDone(recon[k], r, {})]
      PROVE  NoneLost
  <2>1. trades'[r].status = "CLOSED" /\ \A s \in Rows \ {r} : trades'[s] = trades[s]
    BY <1>1, <1>5, ClosedSteps DEF Closers
  <2>2. ReplyLost(r)
    BY <1>1, <1>5, <2>1, FaultShows DEF ReplyLost
  <2>3. GhostsStay
    BY <1>2, <1>5, {} \in SUBSET Rows
  <2> QED
    BY <1>1, <2>1, <2>2, <2>3, StaysInHand DEF RowsKept
<1>6. Fetchable(r) \in BOOLEAN
  BY DEF Fetchable
<1> QED
  BY <1>3, <1>4, <1>5, <1>6 DEF ReconRow, ReconKeeps, HandleGhost, ReconCloses

\* The end of a pass: the ghosts of a booking caller are booked, those of another one are
\* dropped.
LEMMA PassEndLosesNone ==
  ASSUME GoneInv, BookInv, NEW k \in Reconcilers, ReconDone(k) PROVE NoneLost
<1>1. /\ TypeOK /\ recon \in [Reconcilers -> Pass] /\ booked \in [Rows -> Nat]
      /\ UNCHANGED trades
  BY DEF ReconDone, GoneInv, TypeOK
<1>2. \A j \in Reconcilers \ {k} : recon'[j] = recon[j]
  BY <1>1 DEF ReconDone
<1> SUFFICES ASSUME NEW r \in Rows, Lost(r)', ~Dropped(r) PROVE Lost(r)
  BY DEF NoneLost
<1>3. Owed(r)
  BY <1>1 DEF Lost, Owed, Counts
<1>4. ASSUME booked[r] = 1 PROVE booked'[r] = 1
  <2>1. r \notin (IF k \in BookingReconcilers THEN recon[k].ghosts ELSE {})
    BY <1>4 DEF BookInv
  <2> QED
    BY <1>1, <1>4, <2>1, AddPnlValues DEF ReconDone
<1>5. ASSUME r \in recon[k].ghosts PROVE booked'[r] = 1
  <2>1. booked[r] = 0 /\ Counts(r)
    BY <1>3, <1>5 DEF BookInv, Owed
  <2>2. k \in BookingReconcilers
    BY <1>5 DEF Dropped
  <2> QED
    BY <1>1, <1>5, <2>1, <2>2, AddPnlValues DEF ReconDone
<1>6. ASSUME NEW j \in Reconcilers, r \in recon[j].ghosts PROVE InHand(r)'
  BY <1>2, <1>5, <1>6 DEF InHand, HeldBy
<1> QED
  BY <1>3, <1>4, <1>6 DEF Lost, InHand, HeldBy

LEMMA StepLosesNone == GoneInv /\ BookInv /\ HandInv /\ [Next]_vars => Crash \/ NoneLost
<1> SUFFICES ASSUME GoneInv, BookInv, HandInv, [Next]_vars, ~Crash PROVE NoneLost
  OBVIOUS
<1>1. TypeOK /\ recon \in [Reconcilers -> Pass] /\ ExecInv /\ RowInv
  BY DEF GoneInv, TypeOK
<1>2. ASSUME UNCHANGED recon PROVE GhostsStay
  BY <1>2 DEF GhostsStay
<1>3. ASSUME GhostsStay, UNCHANGED <<trades, booked>> PROVE NoneLost
  BY <1>3, StaysInHand DEF Recorded, RowsKept
<1>4. ASSUME NEW k \in Reconcilers, NEW q, recon[k].ghosts \subseteq q.ghosts,
             recon' = [recon EXCEPT ![k] = q]
      PROVE  GhostsStay
  BY <1>1, <1>4 DEF GhostsStay
<1>5. ASSUME NEW r \in Rows, SaveTrade(r) PROVE NoneLost
  <2>1. exec.order \in Orders /\ Held(exec.order) /\ ModeOf[exec.order] \in Modes
    BY <1>1, <1>5, ConstantsAssumption DEF SaveTrade, ExecInv
  <2> QED
    BY <1>2, <1>5, <2>1, OpeningLosesNone DEF SaveTrade, Opens
<1>6. ASSUME NEW k \in Reconcilers, ReconReadRows(k) PROVE NoneLost
  <2>1. recon[k].ghosts = {}
    BY <1>6 DEF ReconReadRows, HandInv
  <2> QED
    BY <1>3, <1>4, <1>6, <2>1 DEF ReconReadRows
<1>7. ASSUME NEW k \in Reconcilers, ReconSnapshot(k) PROVE NoneLost
  <2>1. recon[k].ghosts = {}
    BY <1>7 DEF ReconSnapshot, HandInv
  <2> QED
    BY <1>3, <1>4, <1>7, <2>1 DEF ReconSnapshot
<1>8. ASSUME NEW k \in Reconcilers, NEW o \in Orders, HandlePhantom(k, o) PROVE NoneLost
  <2>1. Held(o) /\ "PAPER" \in Modes
    BY <1>8 DEF HandlePhantom, Phantoms, PassInv, PassOK, Modes, Held, GoneInv
  <2>2. PhantomDone(recon[k], o).ghosts = recon[k].ghosts
    BY <1>1 DEF PhantomDone, Pass
  <2>3. GhostsStay /\ UNCHANGED booked
    BY <1>4, <1>8, <2>2 DEF HandlePhantom
  <2> QED
    BY <1>3, <1>8, <2>1, <2>3, OpeningLosesNone DEF HandlePhantom, Opens
<1> QED
  BY <1>2, <1>3, <1>5, <1>6, <1>7, <1>8, MonitorLosesNone, ReconLosesNone, PassEndLosesNone
  DEF vars, Next, Execute, CheckSignal, Place, FillReported, OrderRejected, FillUnknown,
      SaveTradeFails, Broker, BrokerAnswers, PositionCloses, Monitor, MonitorReadRows,
      MonitorSnapshot, Reconcile

\* A P&L that anybody has learned is booked, or held by a pass: whichever calls fail and
\* however the passes interleave, it is lost only by a crash between claim and booking, by
\* the lost reply of the claim, or by a caller of reconcile() that drops its ghosts
\* (engine.py:1060-1145, reconciler.py:352-377, manager.py:423-458).
THEOREM NoLossIsLost == Spec => LossesAreBooked
<1>1. GoneInv /\ HandInv /\ [Next]_vars => HandInv'
  BY HandStep
<1>2. GoneInv /\ BookInv /\ HandInv /\ [Next]_vars
        => [\A r \in Rows : Lost(r)' => Lost(r) \/ Crash \/ ReplyLost(r) \/ Dropped(r)]_vars
  BY StepLosesNone DEF NoneLost
<1> QED
  BY <1>1, <1>2, HandInit, BookInvariance, PTL DEF Spec, LossesAreBooked

----------------------------------------------------------------------------
(* The refinement. *)

LEMMA AbstractCounts ==
  ASSUME TypeOK, NEW S, AddPnl(S)
  PROVE  Abstract!Count({r \in Rows : r \in S /\ Counts(r)})
  BY AddPnlValues DEF TypeOK, AddPnl, Abstract!Count

LEMMA AbstractStep == GoneInv /\ BookInv /\ StepKinds =>
                        [Abstract!Next]_<<[r \in Rows |-> trades[r].status], booked>>
<1> DEFINE status == [r \in Rows |-> trades[r].status]
<1> SUFFICES ASSUME GoneInv, BookInv, StepKinds
             PROVE  Abstract!Next \/ (status' = status /\ booked' = booked)
  OBVIOUS
<1>1. TypeOK /\ booked \in [Rows -> Nat] /\ trades \in [Rows -> Row]
      /\ recon \in [Reconcilers -> Pass]
  BY DEF GoneInv, TypeOK
<1>2. CASE UNCHANGED <<trades, booked>>
  BY <1>2
<1>3. ASSUME NEW r \in Rows, StepOpens(r) PROVE Abstract!Open(r)
  <2>1. PICK o \in Orders, mode \in Modes, saved \in BOOLEAN :
          trades' = [trades EXCEPT ![r] = OpenRow(o, mode, saved)]
    BY <1>3 DEF StepOpens, Opens
  <2>2. trades'[r].status = "OPEN" /\ \A s \in Rows : s # r => trades'[s] = trades[s]
    BY <1>1, <2>1, OpenedRow
  <2> QED
    BY <1>1, <1>3, <2>2 DEF StepOpens, Opens, Abstract!Open
<1>4. ASSUME NEW r \in Rows, trades[r].status = "OPEN", trades'[r].status = "CLOSED",
             \A s \in Rows : s # r => trades'[s] = trades[s],
             NEW S \in {{}, {r}}, Abstract!Count(S)
      PROVE  Abstract!Close(r)
  <2>1. Abstract!Uncounted(S)
    BY <1>1, <1>4 DEF BookInv, Abstract!Uncounted
  <2>2. status' = [status EXCEPT ![r] = "CLOSED"]
    BY <1>1, <1>4
  <2> QED
    BY <1>1, <1>4, <2>1, <2>2 DEF Abstract!Close
<1>5. UNCHANGED booked => Abstract!Count({})
  BY <1>1 DEF Abstract!Count
<1>6. ASSUME NEW r \in Rows, StepMonitorCloses(r) PROVE Abstract!Close(r)
  <2>1. PICK who \in {Engine, NotFound}, known \in BOOLEAN :
          /\ trades' = [trades EXCEPT ![r] = Closed(trades[r], who, known)]
          /\ UNCHANGED booked \/ (known /\ AddPnl({r}))
    BY <1>6 DEF StepMonitorCloses
  <2>2. trades'[r].status = "CLOSED" /\ \A s \in Rows : s # r => trades'[s] = trades[s]
    BY <1>1, <2>1, ClosedSteps DEF Closers
  <2>3. AddPnl({r}) => \E S \in {{}, {r}} : Abstract!Count(S)
    <3>1. {s \in Rows : s \in {r} /\ Counts(s)} \in {{}, {r}}
      OBVIOUS
    <3> QED
      BY <1>1, <3>1, AbstractCounts
  <2> QED
    BY <1>4, <1>5, <1>6, <2>1, <2>2, <2>3 DEF StepMonitorCloses
<1>7. ASSUME NEW k \in Reconcilers, NEW r \in Rows, StepReconCloses(k, r)
      PROVE  Abstract!Close(r)
  <2>1. PICK known \in BOOLEAN : trades' = [trades EXCEPT ![r] = Closed(trades[r], k, known)]
    BY <1>7 DEF StepReconCloses
  <2>2. trades'[r].status = "CLOSED" /\ \A s \in Rows : s # r => trades'[s] = trades[s]
    BY <1>1, <2>1, ClosedSteps DEF Closers
  <2> QED
    BY <1>4, <1>5, <1>7, <2>2 DEF StepReconCloses
<1>8. ASSUME NEW k \in Reconcilers, StepBooks(k) PROVE Abstract!Next
  <2> DEFINE S == {r \in Rows : r \in recon[k].ghosts /\ Counts(r)}
  <2>1. Abstract!Count(S)
    BY <1>1, <1>8, AbstractCounts DEF StepBooks
  <2>2. \A r \in S : trades[r].status = "CLOSED" /\ booked[r] = 0
    BY DEF BookInv
  <2>3. Abstract!CountLater(S)
    BY <1>8, <2>1, <2>2 DEF StepBooks, Abstract!CountLater, Abstract!Uncounted
  <2>4. S \in SUBSET Rows
    OBVIOUS
  <2> QED
    BY <2>3, <2>4 DEF Abstract!Next
<1>9. \A r \in Rows : Abstract!Open(r) \/ Abstract!Close(r) => Abstract!Next
  BY DEF Abstract!Next
<1> QED
  BY <1>2, <1>3, <1>6, <1>7, <1>8, <1>9 DEF StepKinds

LEMMA AbstractInit == Init => Abstract!Init
  BY DEF Init, FreeRow, Abstract!Init

\* The table and the counters, written by the monitor, the reconcilers and
\* execute_order, implement TradeBook: opened once, closed once, counted at most
\* once and only after the close.
THEOREM Refinement == Spec => ImplementsTradeBook
<1>1. GoneInv /\ BookInv /\ [Next]_vars
        => [Abstract!Next]_<<[r \in Rows |-> trades[r].status], booked>>
  BY EveryKind, AbstractStep
<1> QED
  BY <1>1, AbstractInit, BookInvariance, PTL DEF Spec, Abstract!Spec, ImplementsTradeBook

================================================================================
