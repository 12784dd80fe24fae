------------------------------ MODULE TradeLedger ------------------------------
(***************************************************************************)
(* The book of trades: the rows of the Supabase table "trades" beside the   *)
(* positions the brokers really hold.                                       *)
(*                                                                          *)
(* Five asyncio activities of one engine process share the two:             *)
(*   - the signal loop, which runs ExecutionEngine.execute_order (check the *)
(*     signal, place the order, save the row);                              *)
(*   - ExecutionEngine.position_monitor, every 60 s;                        *)
(*   - the callers of PositionReconciler.reconcile: the watchdog (through   *)
(*     StateManager.reconcile_positions), main._periodic_reconciliation,    *)
(*     the pre-scan call of the signal loop, POST /reconcile, and restore() *)
(*     at startup.                                                          *)
(* A step ends where an activity has read what it later acts upon, so the   *)
(* activities interleave where the event loop may switch between them.      *)
(***************************************************************************)
EXTENDS Naturals, FiniteSets

CONSTANTS
  Orders,              \* orders approved by the risk engine; also the broker's trade ids
  Rows,                \* primary keys of the table "trades"
  Reconcilers,         \* callers of PositionReconciler.reconcile
  BookingReconcilers,  \* those that pass the ghosts to _book_reconciled_pnl
  LoopReconcilers,     \* those that run in the signal loop's own task (pre-scan)
  SignalOf,            \* the signal an order was made from
  ModeOf,              \* "LIVE", "PAPER" or "PAPER_SHADOW"
  AccountOf,           \* "MAIN" or "CRYPTO" (the two OANDA accounts), or "CAPITAL"
  NoOrder,
  Engine,              \* the position monitor, as the closer of a row
  NotFound,            \* the same, closing a row because an error reads as a 404
  Looks404,            \* orders whose broker id contains "404"
  MaxFaults            \* bound: failed calls, partial snapshots, closed markets, crashes

Modes == {"LIVE", "PAPER", "PAPER_SHADOW"}
Accounts == {"MAIN", "CRYPTO", "CAPITAL"}

ASSUME ConstantsAssumption ==
  /\ IsFiniteSet(Orders) /\ IsFiniteSet(Rows)
  /\ BookingReconcilers \subseteq Reconcilers
  /\ LoopReconcilers \subseteq Reconcilers
  /\ ModeOf \in [Orders -> Modes]
  /\ AccountOf \in [Orders -> Accounts]
  /\ NoOrder \notin Orders
  /\ {Engine, NotFound} \cap Reconcilers = {} /\ Engine # NotFound
  /\ Looks404 \subseteq Orders
  /\ MaxFaults \in Nat

VARIABLES
  broker,   \* per order: what the broker holds under its id
  trades,   \* the table: per row id, the row
  exec,     \* where execute_order stands
  monitor,  \* where _check_closed_positions stands, and what it has read
  recon,    \* per caller: where reconcile() stands, and what it has read
  booked,   \* how often a row's P&L was added to daily_pnl / weekly_pnl
  faults    \* faults so far

vars == <<broker, trades, exec, monitor, recon, booked, faults>>

----------------------------------------------------------------------------
(* States.  "sent" is an order the broker has not answered yet.  A PAPER-   *)
(* fill stays "open": no broker holds it.                                   *)

BrokerStates == {"none", "sent", "open", "closed", "rejected"}
Closers == Reconcilers \cup {Engine, NotFound}

\* A row of "trades".  closed_by and pnl_known record who claimed the close and
\* whether the broker's realised P&L was fetched (get_trade may fail).
Row == [status : {"FREE", "OPEN", "CLOSED"},
        broker_id : Orders \cup {NoOrder},
        mode : Modes,
        saved : BOOLEAN,      \* inserted by _save_trade, hence with a signal_id
        closed_by : Closers \cup {NoOrder},
        pnl_known : BOOLEAN]

FreeRow == [status |-> "FREE", broker_id |-> NoOrder, mode |-> "PAPER",
            saved |-> FALSE, closed_by |-> NoOrder, pnl_known |-> FALSE]

OpenRow(o, mode, saved) ==
  [FreeRow EXCEPT !.status = "OPEN", !.broker_id = o, !.mode = mode, !.saved = saved]

Executor == [pc : {"idle", "checked", "placed", "filled"}, order : Orders \cup {NoOrder}]
IdleExecutor == [pc |-> "idle", order |-> NoOrder]

BrokerIds(S) == {trades[r].broker_id : r \in S}

\* What a comparison of the book with the broker has read so far: the rows it
\* has still to look at, the broker ids it saw in the book, the broker snapshot
\* and whether the snapshot is complete.
Pass == [pc : {"idle", "rows_read", "comparing"}, rows : SUBSET Rows,
         known : SUBSET Orders, snapshot : SUBSET Orders, complete : BOOLEAN,
         ghosts : SUBSET Rows]
IdlePass == [pc |-> "idle", rows |-> {}, known |-> {}, snapshot |-> {},
             complete |-> FALSE, ghosts |-> {}]
RowsRead(S) == [IdlePass EXCEPT !.pc = "rows_read", !.rows = S, !.known = BrokerIds(S)]
Snapshot(p, S, complete) ==
  [p EXCEPT !.pc = "comparing", !.snapshot = S, !.complete = complete]
PhantomDone(p, o) == [p EXCEPT !.known = @ \cup {o}]
\* (mutant of RowDone: the ghosts of the rows before are dropped)
RowDoneAlone(p, r, ghosts) == [p EXCEPT !.rows = @ \ {r}, !.ghosts = ghosts]
RowDone(p, r, ghosts) == [p EXCEPT !.rows = @ \ {r}, !.ghosts = @ \cup ghosts]

TypeOK ==
  /\ broker \in [Orders -> BrokerStates]
  /\ trades \in [Rows -> Row]
  /\ exec \in Executor
  /\ monitor \in Pass
  /\ recon \in [Reconcilers -> Pass]
  /\ booked \in [Rows -> Nat]
  /\ faults \in 0..MaxFaults

Init ==
  /\ broker = [o \in Orders |-> "none"]
  /\ trades = [r \in Rows |-> FreeRow]
  /\ exec = IdleExecutor
  /\ monitor = IdlePass
  /\ recon = [k \in Reconcilers |-> IdlePass]
  /\ booked = [r \in Rows |-> 0]
  /\ faults = 0

Fault == faults < MaxFaults /\ faults' = faults + 1

----------------------------------------------------------------------------
(* Helpers *)

Simulated(o) == ModeOf[o] # "LIVE"
OpenRows == {r \in Rows : trades[r].status = "OPEN"}

\* get_all_open_trades_checked: the main account and, unless its fetch failed
\* (complete = FALSE), the spot-crypto account.  Capital.com is not asked.  The
\* accounts are asked one after the other; an order is in one of them only.
OandaOpen(complete) ==
  {o \in Orders : /\ broker[o] = "open" /\ ~Simulated(o)
                  /\ \/ AccountOf[o] = "MAIN"
                     \/ AccountOf[o] = "CRYPTO" /\ complete}

\* (mutant of ProvedGone: a partial snapshot counts as proof)
MissingIsGone(pass, o) == o \notin pass.snapshot
\* (mutant of ProvedGone: an empty snapshot proves nothing)
MissingFromSome(pass, o) == o \notin pass.snapshot /\ pass.complete /\ pass.snapshot # {}

\* The test both comparisons apply before they close a row: the id is missing
\* from a complete snapshot.
ProvedGone(pass, o) == o \notin pass.snapshot /\ pass.complete

\* (mutant of Claims: the UPDATE does not ask for status = 'OPEN')
ClaimsAnyway(r) == r \in Rows

\* UPDATE trades SET status = 'CLOSED' ... WHERE id = r AND status = 'OPEN'
Claims(r) == trades[r].status = "OPEN"
Closed(row, who, known) ==
  [row EXCEPT !.status = "CLOSED", !.closed_by = who, !.pnl_known = known]

\* get_trade asks OANDA, which knows nothing of a Capital.com position.
Fetchable(r) == AccountOf[trades[r].broker_id] # "CAPITAL"

\* (mutant of Counts: shadow rows count too)
CountsAll(r) == r \in Rows

\* daily_pnl and weekly_pnl take the P&L of every row but a shadow row.
Counts(r) == trades[r].mode # "PAPER_SHADOW"
AddPnl(S) == booked' = [r \in Rows |-> booked[r] + IF r \in S /\ Counts(r) THEN 1 ELSE 0]

----------------------------------------------------------------------------
(* execute_order *)

\* (mutant of SignalUnused: only open rows are looked at)
SignalHasNoOpenRow(o) ==
  \A r \in OpenRows : ~ /\ trades[r].saved /\ trades[r].mode = "LIVE"
                        /\ ~Simulated(trades[r].broker_id)
                        /\ SignalOf[trades[r].broker_id] = SignalOf[o]

\* The idempotency guard: no row of the table, open or closed, that execute_order
\* saved for this signal with a LIVE mode and a real broker id.
SignalUnused(o) ==
  \A r \in Rows : ~ /\ trades[r].saved /\ trades[r].mode = "LIVE"
                    /\ ~Simulated(trades[r].broker_id)
                    /\ SignalOf[trades[r].broker_id] = SignalOf[o]

CheckSignal(o) ==
  /\ exec.pc = "idle" /\ broker[o] = "none"
  /\ \A k \in LoopReconcilers : recon[k].pc = "idle"
  /\ Simulated(o) \/ SignalUnused(o)
  /\ exec' = [pc |-> "checked", order |-> o]
  /\ UNCHANGED <<broker, trades, monitor, recon, booked, faults>>

\* OandaExecutor / CapitalExecutor send the order; PaperExecutor fills at once.
Place ==
  /\ exec.pc = "checked"
  /\ LET o == exec.order IN
       IF Simulated(o)
       THEN /\ broker' = [broker EXCEPT ![o] = "open"]
            /\ exec' = [exec EXCEPT !.pc = "filled"]
       ELSE /\ broker' = [broker EXCEPT ![o] = "sent"]
            /\ exec' = [exec EXCEPT !.pc = "placed"]
  /\ UNCHANGED <<trades, monitor, recon, booked, faults>>

\* The reply, or lookup_order_status after a timeout, reports the fill.
FillReported ==
  /\ exec.pc = "placed" /\ broker[exec.order] \in {"open", "closed"}
  /\ exec' = [exec EXCEPT !.pc = "filled"]
  /\ UNCHANGED <<broker, trades, monitor, recon, booked, faults>>

OrderRejected ==
  /\ exec.pc = "placed" /\ broker[exec.order] = "rejected"
  /\ exec' = IdleExecutor
  /\ UNCHANGED <<broker, trades, monitor, recon, booked, faults>>

\* The reply is lost and the lookup cannot confirm the fill: ExecutionError,
\* execute_order returns None, and the order may still be filled.
FillUnknown ==
  /\ exec.pc = "placed" /\ Fault
  /\ exec' = IdleExecutor
  /\ UNCHANGED <<broker, trades, monitor, recon, booked>>

SaveTrade(r) ==
  /\ exec.pc = "filled" /\ trades[r].status = "FREE"
  /\ trades' = [trades EXCEPT ![r] = OpenRow(exec.order, ModeOf[exec.order], TRUE)]
  /\ exec' = IdleExecutor
  /\ UNCHANGED <<broker, monitor, recon, booked, faults>>

\* The insert fails (twice, with the schema fallback): only an alert is sent.
SaveTradeFails ==
  /\ exec.pc = "filled" /\ Fault
  /\ exec' = IdleExecutor
  /\ UNCHANGED <<broker, trades, monitor, recon, booked>>

----------------------------------------------------------------------------
(* The brokers *)

BrokerAnswers(o) ==
  /\ broker[o] = "sent"
  /\ \E answer \in {"open", "rejected"} : broker' = [broker EXCEPT ![o] = answer]
  /\ UNCHANGED <<trades, exec, monitor, recon, booked, faults>>

\* SL, TP, an operator's POST /trade/{id}/close, or close_all_positions.
PositionCloses(o) ==
  /\ broker[o] = "open" /\ ~Simulated(o)
  /\ broker' = [broker EXCEPT ![o] = "closed"]
  /\ UNCHANGED <<trades, exec, monitor, recon, booked, faults>>

----------------------------------------------------------------------------
(* position_monitor: _check_closed_positions *)

MonitorReadRows ==
  /\ monitor.pc = "idle" /\ OpenRows # {}
  /\ monitor' = RowsRead(OpenRows)
  /\ UNCHANGED <<broker, trades, exec, recon, booked, faults>>

MonitorSnapshot ==
  /\ monitor.pc = "rows_read"
  /\ \/ monitor' = Snapshot(monitor, OandaOpen(TRUE), TRUE) /\ UNCHANGED faults
     \/ monitor' = Snapshot(monitor, OandaOpen(FALSE), FALSE) /\ Fault
     \/ monitor' = IdlePass /\ Fault               \* the main account's fetch raises
  /\ UNCHANGED <<broker, trades, exec, recon, booked>>

\* _update_closed_trade: claim the row; only the winner books.
MonitorCloses(r, who, known) ==
  IF Claims(r)
  THEN /\ trades' = [trades EXCEPT ![r] = Closed(@, who, known)]
       /\ AddPnl(IF known THEN {r} ELSE {})
  ELSE UNCHANGED <<trades, booked>>

\* ... its UPDATE raises: it was not applied, or it was and the reply is lost;
\* the row then holds its P&L, and the booking is skipped.
UpdateFails(r, who, known) ==
  /\ Fault
  /\ \/ UNCHANGED trades
     \/ Claims(r) /\ trades' = [trades EXCEPT ![r] = Closed(@, who, known)]
  /\ UNCHANGED booked

\* The row stays: its position is in the snapshot, or the snapshot is partial; a
\* simulated one has not reached SL or TP.
KeepRow(r) ==
  /\ LET o == trades[r].broker_id IN Simulated(o) \/ ~ProvedGone(monitor, o)
  /\ UNCHANGED <<broker, trades, booked, faults>>

MarkTradeClosed(r, who) ==
  /\ \/ MonitorCloses(r, who, Fetchable(r)) /\ UNCHANGED faults
     \/ MonitorCloses(r, who, FALSE) /\ Fault     \* get_trade fails: P&L 0
     \/ UpdateFails(r, who, Fetchable(r))
  /\ UNCHANGED broker

\* A live row whose position is proved gone.
CloseGoneRow(r) ==
  /\ LET o == trades[r].broker_id IN ~Simulated(o) /\ ProvedGone(monitor, o)
  /\ MarkTradeClosed(r, Engine)

\* _check_paper_trade_exit: the price has reached SL or TP.
PaperExit(r) ==
  /\ Simulated(trades[r].broker_id)
  /\ \/ MonitorCloses(r, Engine, TRUE) /\ UNCHANGED faults
     \/ UpdateFails(r, Engine, TRUE)
  /\ UNCHANGED broker

\* The max-hold branch, before the snapshot is consulted.  The row waits while
\* the market is closed, or if the close fails (a fault); else the position is
\* closed on OANDA and the row left to a later pass.  The row is marked closed if
\* the text of the error contains "404": OANDA does not know the trade, or the
\* close failed with another status and the URL in the text has the broker id.
\* get_trade has no P&L for a trade that is still open.
MaxHold(r) ==
  /\ ~Simulated(trades[r].broker_id)
  /\ LET o == trades[r].broker_id
         AtOanda == broker[o] = "open" /\ AccountOf[o] # "CAPITAL"
     IN \/ Fault /\ UNCHANGED <<broker, trades, booked>>
        \/ /\ AtOanda
           /\ broker' = [broker EXCEPT ![o] = "closed"]
           /\ UNCHANGED <<trades, booked, faults>>
        \/ ~AtOanda /\ MarkTradeClosed(r, NotFound)
        \/ /\ AtOanda /\ o \in Looks404 /\ Fault
           /\ MonitorCloses(r, NotFound, FALSE)
           /\ UNCHANGED broker

\* One row of the pass; the pass ends with its last row.
MonitorRow(r) ==
  /\ monitor.pc = "comparing" /\ r \in monitor.rows
  /\ KeepRow(r) \/ CloseGoneRow(r) \/ PaperExit(r) \/ MaxHold(r)
  /\ monitor' = IF monitor.rows = {r} THEN IdlePass
                ELSE [monitor EXCEPT !.rows = @ \ {r}]
  /\ UNCHANGED <<exec, recon>>

----------------------------------------------------------------------------
(* PositionReconciler.reconcile, for the caller k *)

ReconReadRows(k) ==
  /\ recon[k].pc = "idle"
  /\ k \in LoopReconcilers => exec.pc = "idle"
  /\ recon' = [recon EXCEPT ![k] = RowsRead(OpenRows)]
  /\ UNCHANGED <<broker, trades, exec, monitor, booked, faults>>

ReconSnapshot(k) ==
  /\ recon[k].pc = "rows_read"
  /\ \/ recon' = [recon EXCEPT ![k] = Snapshot(@, OandaOpen(TRUE), TRUE)] /\ UNCHANGED faults
     \/ recon' = [recon EXCEPT ![k] = Snapshot(@, OandaOpen(FALSE), FALSE)] /\ Fault
     \/ recon' = [recon EXCEPT ![k] = IdlePass] /\ Fault
  /\ UNCHANGED <<broker, trades, exec, monitor, booked>>

\* A row is a ghost unless it is simulated, by id or by mode, still at the
\* broker, or not provably gone (deferred).
Ghost(k, r) ==
  /\ ~Simulated(trades[r].broker_id) /\ trades[r].mode = "LIVE"
  /\ ProvedGone(recon[k], trades[r].broker_id)

\* _handle_ghost claims the row; the ghost is remembered for booking if this
\* caller won the claim and learned a P&L.
ReconCloses(k, r, known) ==
  IF Claims(r)
  THEN /\ trades' = [trades EXCEPT ![r] = Closed(@, k, known)]
       /\ recon' = [recon EXCEPT ![k] = RowDone(@, r, IF known THEN {r} ELSE {})]
  ELSE recon' = [recon EXCEPT ![k] = RowDone(@, r, {})] /\ UNCHANGED trades

ReconKeeps(k, r) ==
  /\ ~Ghost(k, r)
  /\ recon' = [recon EXCEPT ![k] = RowDone(@, r, {})]
  /\ UNCHANGED <<trades, faults>>

HandleGhost(k, r) ==
  /\ Ghost(k, r)
  /\ \/ ReconCloses(k, r, Fetchable(r)) /\ UNCHANGED faults
     \/ ReconCloses(k, r, FALSE) /\ Fault                  \* get_trade fails
     \/ /\ Fault           \* the UPDATE raises, applied (reply lost) or not
        /\ recon' = [recon EXCEPT ![k] = RowDone(@, r, {})]
        /\ \/ UNCHANGED trades
           \/ Claims(r) /\ trades' = [trades EXCEPT ![r] = Closed(@, k, Fetchable(r))]

ReconRow(k, r) ==
  /\ recon[k].pc = "comparing" /\ r \in recon[k].rows
  /\ ReconKeeps(k, r) \/ HandleGhost(k, r)
  /\ UNCHANGED <<broker, exec, monitor, booked>>

\* (mutant of Phantoms: a pass over an empty book ends at once)
PhantomsOfABook(k) == IF recon[k].pc = "comparing" /\ recon[k].rows = {} /\ recon[k].known # {}
                      THEN recon[k].snapshot \ recon[k].known ELSE {}

\* After the last row: the positions of the snapshot that no row read at the
\* start of the pass had.
Phantoms(k) == IF recon[k].pc = "comparing" /\ recon[k].rows = {}
               THEN recon[k].snapshot \ recon[k].known ELSE {}

\* _handle_phantom inserts an emergency row: the real broker id, mode PAPER.
HandlePhantom(k, o) ==
  /\ o \in Phantoms(k)
  /\ recon' = [recon EXCEPT ![k] = PhantomDone(@, o)]
  /\ \/ /\ \E r \in Rows : /\ trades[r].status = "FREE"
                           /\ trades' = [trades EXCEPT ![r] = OpenRow(o, "PAPER", FALSE)]
        /\ UNCHANGED faults
     \/ Fault /\ UNCHANGED trades
  /\ UNCHANGED <<broker, exec, monitor, booked>>

\* The pass ends.  Only StateManager's callers book the ghosts.
ReconDone(k) ==
  /\ recon[k].pc = "comparing" /\ recon[k].rows = {} /\ Phantoms(k) = {}
  /\ recon' = [recon EXCEPT ![k] = IdlePass]
  /\ AddPnl(IF k \in BookingReconcilers THEN recon[k].ghosts ELSE {})
  /\ UNCHANGED <<broker, trades, exec, monitor, faults>>

----------------------------------------------------------------------------
\* The process dies: every activity starts again, the table and the broker stay.
\* (What the counters keep across a restart is the subject of LossLimits.)
Crash ==
  /\ Fault
  /\ exec' = IdleExecutor /\ monitor' = IdlePass
  /\ recon' = [k \in Reconcilers |-> IdlePass]
  /\ UNCHANGED <<broker, trades, booked>>

Execute ==
  \/ \E o \in Orders : CheckSignal(o)
  \/ Place \/ FillReported \/ OrderRejected \/ FillUnknown
  \/ \E r \in Rows : SaveTrade(r)
  \/ SaveTradeFails

Monitor == MonitorReadRows \/ MonitorSnapshot \/ \E r \in Rows : MonitorRow(r)

Reconcile(k) ==
  \/ ReconReadRows(k) \/ ReconSnapshot(k)
  \/ \E r \in Rows : ReconRow(k, r)
  \/ \E o \in Orders : HandlePhantom(k, o)
  \/ ReconDone(k)

Broker == \E o \in Orders : BrokerAnswers(o) \/ PositionCloses(o)

Next == Execute \/ Broker \/ Monitor \/ (\E k \in Reconcilers : Reconcile(k)) \/ Crash

Spec == Init /\ [][Next]_vars

----------------------------------------------------------------------------
(* Properties *)

\* A row is closed only if its OANDA position is: neither the monitor nor a
\* reconciler closes the row of a live position, whatever the snapshots missed
\* and however stale they were when the row was claimed (engine.py:540-551,
\* reconciler.py:117-154).  One closer is excepted: the max-hold branch, for a
\* broker id whose digits its "404" test takes for a status (engine.py:516).
ClosedRowsAreGone ==
  \A r \in Rows : LET o == trades[r].broker_id IN
    (/\ trades[r].status = "CLOSED" /\ ~Simulated(o) /\ AccountOf[o] # "CAPITAL"
     /\ ~(trades[r].closed_by = NotFound /\ o \in Looks404))
      => broker[o] = "closed"

\* The max-hold branch of its own test: "404 confirms the trade is gone"
\* (engine.py:518-519).
NotFoundMeansGone ==
  \A r \in Rows : LET o == trades[r].broker_id IN
    (trades[r].closed_by = NotFound /\ AccountOf[o] # "CAPITAL") => broker[o] = "closed"

\* The same without the exception for Capital.com, as reconciler.py:153 says of
\* every row it closes ("genuinely closed at the broker").
ClosedRowsAreGoneEverywhere ==
  \A r \in Rows : LET o == trades[r].broker_id IN
    (trades[r].status = "CLOSED" /\ ~Simulated(o)) => broker[o] = "closed"

\* The P&L of a row reaches the loss-limit counters at most once, only after
\* the row was closed with a known P&L, and never for a shadow row, however the
\* monitor and the reconcilers race for it (engine.py:1060-1089).
BookedAtMostOnce ==
  \A r \in Rows : /\ booked[r] <= 1
                  /\ booked[r] = 1 => /\ trades[r].status = "CLOSED"
                                      /\ trades[r].pnl_known
                                      /\ trades[r].mode # "PAPER_SHADOW"

\* ... and so does the P&L of a broker trade (engine.py:1060-1064: "both paths
\* could book the same trade's P&L into the loss limits (double-count)").
BookedOncePerTrade ==
  \A r, s \in Rows : (/\ r # s /\ trades[r].status = "CLOSED"
                      /\ trades[r].broker_id = trades[s].broker_id)
                        => booked[r] + booked[s] <= 1

\* A P&L is in hand from its claim on: counted, or a ghost of a pass under way.
HeldBy(S, r) == \E k \in S : r \in recon[k].ghosts
InHand(r) == booked[r] = 1 \/ HeldBy(Reconcilers, r)
\* A P&L that was learned, whoever closed the row.
Owed(r) == trades[r].status = "CLOSED" /\ trades[r].pnl_known /\ Counts(r)
Lost(r) == Owed(r) /\ ~InHand(r)

\* The two steps besides a crash that let go of one: the reply of the claim itself
\* is lost, or the pass that holds it is one whose caller books nothing.
ReplyLost(r) == Claims(r) /\ trades'[r].status = "CLOSED" /\ faults' # faults
Dropped(r) == \E k \in Reconcilers \ BookingReconcilers :
                r \in recon[k].ghosts /\ ReconDone(k)

\* A P&L that anybody has learned is booked, or in the hands of a pass, from the
\* claim of its row on; it stays so whatever the other activities close, read or
\* book and whichever other calls fail.  It is lost by these steps only: a crash,
\* the lost reply of the UPDATE that claimed the row, and the end of a pass of one
\* of the callers that drop their ghosts (engine.py:1060-1145, manager.py:423-458,
\* reconciler.py:352-377, main.py:618-623, main.py:963-969).
LossesAreBooked ==
  [][\A r \in Rows : Lost(r)' => Lost(r) \/ Crash \/ ReplyLost(r) \/ Dropped(r)]_vars

\* A close by a reconciler reaches the counters: it is booked, or still in the
\* hands of a caller that will book it (manager.py:363-366).
ReconciledCloseIsBooked ==
  faults = 0 => \A r \in Rows :
    (trades[r].closed_by \in Reconcilers /\ trades[r].pnl_known /\ Counts(r))
      => booked[r] = 1 \/ HeldBy(BookingReconcilers, r)

\* The same without the exception for the lost reply: "a loss silently escaping the
\* limit is worse than a slightly conservative limit" (manager.py:402-404).
LearnedIsBooked == [][Crash \/ \A r \in Rows : Lost(r)' => Lost(r) \/ Dropped(r)]_vars

\* The step that sends an order: no saved live row has its signal.
NewOrderIsNew ==
  \A o \in Orders : (broker[o] = "none" /\ broker'[o] = "sent") =>
    \A r \in Rows : (trades[r].saved /\ ~Simulated(trades[r].broker_id))
                      => SignalOf[trades[r].broker_id] # SignalOf[o]

\* While one engine runs, a signal that has a saved live row, open or closed,
\* never gets another live order, also after a restart that feeds it again
\* (engine.py:184-231).
NoSecondLiveOrder == [][NewOrderIsNew]_vars

\* Fairness: the monitor and the reconcilers are loops that sleep and run again,
\* and end every pass they start.
Fairness ==
  /\ WF_vars(Monitor)
  /\ \A k \in Reconcilers : WF_vars(Reconcile(k))

FairSpec == Spec /\ Fairness

\* Every row whose OANDA position closed is closed in the table sooner or later.
GoneRowsAreClosed ==
  \A r \in Rows :
    (/\ trades[r].status = "OPEN" /\ ~Simulated(trades[r].broker_id)
     /\ broker[trades[r].broker_id] = "closed") ~> (trades[r].status = "CLOSED")

\* Every OANDA position gets a row or closes: a fill whose save was lost, or that
\* arrived after execute_order gave up, is found by a reconciler.
PositionsGetRows ==
  \A o \in Orders :
    (broker[o] = "open" /\ ~Simulated(o) /\ AccountOf[o] # "CAPITAL")
      ~> (broker[o] = "closed" \/ \E r \in Rows : trades[r].broker_id = o)

\* The table and the counters implement TradeBook: every row is opened once,
\* closed once, and counted at most once, after its close.
Abstract == INSTANCE TradeBook
  WITH status <- [r \in Rows |-> trades[r].status], counted <- booked
ImplementsTradeBook == Abstract!Spec
================================================================================
