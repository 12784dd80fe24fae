------------------------------ MODULE KillSwitch ------------------------------
(***************************************************************************)
(* The emergency kill switch.  The operator's request is written to the     *)
(* singleton row of "system_state"; the engine keeps a copy in memory, which *)
(* the signal loop refreshes from the row and persist_loop writes back to it *)
(* every 5 s.  When the signal loop finds the copy set it closes every       *)
(* position once, and opens none while it stays set.                         *)
(*                                                                          *)
(* Three activities: the HTTP handlers (and the dashboard's route) on the    *)
(* row, the signal loop with execute_order and close_all_positions, and      *)
(* persist_loop, whose upsert carries the copy it was started with.          *)
(***************************************************************************)
EXTENDS Naturals

CONSTANTS
  Positions,   \* trade ids of the brokers
  Pairs,       \* how many pairs one scan looks at
  Events       \* what may happen, besides the operator's requests: see AllEvents

\* A crash; a failing read of the row by the signal loop or by restore(); a failing
\* upsert; a close that fails; a failing read of the settings; the dashboard's mode
\* switch.
AllEvents == {"crash", "refresh", "restore", "save", "sweep", "settings", "toggle"}

ASSUME ConstantsAssumption ==
  Events \subseteq AllEvents /\ Pairs \in Nat

VARIABLES
  row,        \* system_state.kill_switch_active
  memory,     \* StateManager._state["kill_switch_active"]
  reading,    \* the value the signal loop's read of the row in flight will return, if any
  saving,     \* the value persist_loop's upsert in flight carries, if any
  handled,    \* main._kill_switch_handled
  loop,       \* where the signal loop stands, and how many pairs it has left
  dashboard,  \* the mode the settings row asks for
  mode,       \* config.effective_trading_mode(), with the env variable at LIVE
  positions,  \* what the broker holds
  requested,  \* the operator's last request
  faults      \* the events that have happened

vars == <<row, memory, reading, saving, handled, loop, dashboard, mode, positions, requested, faults>>

TypeOK ==
  /\ {row, memory, handled, requested} \subseteq BOOLEAN
  /\ saving \in SUBSET BOOLEAN /\ reading \in SUBSET BOOLEAN
  /\ loop \in [pc : {"restoring", "asleep", "sweeping", "scanning", "checking",
                     "rechecking", "placing"},
               pairs : 0..Pairs]
  /\ {dashboard, mode} \subseteq {"LIVE", "PAPER"}
  /\ positions \subseteq Positions
  /\ faults \subseteq Events

\* A running engine; a fresh process would have to scan once before it is LIVE.
Init ==
  /\ row = FALSE /\ memory = FALSE /\ reading = {} /\ saving = {} /\ handled = FALSE
  /\ loop = [pc |-> "asleep", pairs |-> 0]
  /\ dashboard = "LIVE" /\ mode = "LIVE"
  /\ positions \in SUBSET Positions
  /\ requested = FALSE /\ faults = {}

May(event) == event \in Events /\ faults' = faults \cup {event}
At(pc) == loop.pc = pc
Goto(pc) == loop' = [loop EXCEPT !.pc = pc]

----------------------------------------------------------------------------
(* The operator *)

Activate ==
  /\ row' = TRUE /\ requested' = TRUE
  /\ UNCHANGED <<memory, reading, saving, handled, loop, dashboard, mode, positions, faults>>

Deactivate ==
  /\ row' = FALSE /\ requested' = FALSE
  /\ UNCHANGED <<memory, reading, saving, handled, loop, dashboard, mode, positions, faults>>

ToggleMode ==
  /\ May("toggle")
  /\ dashboard' = IF dashboard = "LIVE" THEN "PAPER" ELSE "LIVE"
  /\ UNCHANGED <<row, memory, reading, saving, handled, loop, mode, positions, requested>>

----------------------------------------------------------------------------
(* persist_loop: save() takes the copy, and the upsert arrives later *)

SaveStart ==
  /\ saving = {} /\ ~At("restoring")
  /\ saving' = {memory}
  /\ UNCHANGED <<row, memory, reading, handled, loop, dashboard, mode, positions, requested, faults>>

\* restore() ends with a save of its own, before the loops start.
SaveEnd ==
  /\ saving # {}
  /\ saving' = {}
  /\ \/ row' \in saving /\ UNCHANGED faults
     \/ May("save") /\ UNCHANGED row
  /\ IF At("restoring") THEN Goto("asleep") ELSE UNCHANGED loop
  /\ UNCHANGED <<memory, reading, handled, dashboard, mode, positions, requested>>

----------------------------------------------------------------------------
(* The signal loop *)

\* refresh_kill_switch_from_db awaits the row, at the head of the loop and at the two
\* guards of execute_order: the answer is what the row was when the database looked.
ReadRow ==
  /\ reading = {} /\ loop.pc \in {"asleep", "checking", "rechecking"}
  /\ reading' = {row}
  /\ UNCHANGED <<row, memory, saving, handled, loop, dashboard, mode, positions, requested, faults>>

\* (mutant of Refresh: a failing read clears the copy)
RefreshOpen(v) == /\ reading # {} /\ reading' = {}
                  /\ \/ v \in reading /\ UNCHANGED faults
                     \/ v = FALSE /\ May("refresh")
                  /\ memory' = v
\* ... and goes on later, with v as the new copy; a failing read sets it.
Refresh(v) == /\ reading # {} /\ reading' = {}
              /\ \/ v \in reading /\ UNCHANGED faults
                 \/ v = TRUE /\ May("refresh")
              /\ memory' = v

\* (mutant of StillHandled: a tick that finds the copy clear does not reset the flag)
HandledForGood(v) == v \in BOOLEAN /\ handled
\* Whether a tick that found the copy at v counts the sweep as done.
StillHandled(v) == v /\ handled

\* The head of the loop.
Tick ==
  /\ At("asleep")
  /\ \E v \in BOOLEAN :
       /\ Refresh(v)
       /\ handled' = StillHandled(v)
       /\ IF v THEN IF handled THEN UNCHANGED loop ELSE Goto("sweeping")
          ELSE loop' = [pc |-> "scanning", pairs |-> Pairs]
  /\ UNCHANGED <<row, saving, dashboard, mode, positions, requested>>

\* (mutant of Swept: the test of the mode is inverted)
SweptInPaper == IF mode # "LIVE" THEN {} ELSE positions
\* close_all_positions does nothing unless the mode is LIVE; a position whose
\* close fails stays.
Swept == IF mode = "LIVE" THEN {} ELSE positions

\* The sweep counts as handled whatever it closed.
Sweep ==
  /\ At("sweeping")
  /\ \/ positions' = Swept /\ UNCHANGED faults
     \/ May("sweep") /\ positions' \in SUBSET positions
  /\ handled' = TRUE /\ Goto("asleep")
  /\ UNCHANGED <<row, memory, reading, saving, dashboard, mode, requested>>

PairsLeft == loop.pairs > 0

\* The next pair: no signal, or one the risk engine evaluates, which loads the
\* settings first (PAPER if they cannot be read).
ScanPair ==
  /\ At("scanning") /\ PairsLeft
  /\ \/ loop' = [loop EXCEPT !.pairs = @ - 1] /\ UNCHANGED <<mode, faults>>
     \/ /\ loop' = [pc |-> "checking", pairs |-> loop.pairs - 1]
        /\ \/ mode' = dashboard /\ UNCHANGED faults
           \/ mode' = "PAPER" /\ May("settings")
  /\ UNCHANGED <<row, memory, reading, saving, handled, dashboard, positions, requested>>

ScanDone ==
  /\ At("scanning") /\ loop.pairs = 0 /\ Goto("asleep")
  /\ UNCHANGED <<row, memory, reading, saving, handled, dashboard, mode, positions, requested, faults>>

\* execute_order: the guard at its top; a PAPER order ends here.
Check ==
  /\ At("checking")
  /\ \E v \in BOOLEAN : /\ Refresh(v)
                        /\ Goto(IF v \/ mode # "LIVE" THEN "scanning" ELSE "rechecking")
  /\ UNCHANGED <<row, saving, handled, dashboard, mode, positions, requested>>

\* (mutant of Cleared: the result of the recheck is not looked at)
AlwaysCleared(v) == v \in BOOLEAN
\* The guard just before the broker call.
Cleared(v) == ~v

Recheck ==
  /\ At("rechecking")
  /\ \E v \in BOOLEAN : Refresh(v) /\ Goto(IF Cleared(v) THEN "placing" ELSE "scanning")
  /\ UNCHANGED <<row, saving, handled, dashboard, mode, positions, requested>>

Place ==
  /\ At("placing") /\ Goto("scanning")
  /\ \/ \E p \in Positions : positions' = positions \cup {p}
     \/ UNCHANGED positions
  /\ UNCHANGED <<row, memory, reading, saving, handled, dashboard, mode, requested, faults>>

----------------------------------------------------------------------------
(* The rest of the world *)

PositionCloses ==
  /\ \E p \in positions : positions' = positions \ {p}
  /\ UNCHANGED <<row, memory, reading, saving, handled, loop, dashboard, mode, requested, faults>>

\* The process dies and another takes its place: restore() reads the row, or keeps
\* the default if the read fails, and starts the save that ends it.  The mode is
\* PAPER until the first evaluation has loaded the settings.
Restored(failed) == row /\ ~failed

Restart ==
  /\ \/ May("crash") /\ memory' = Restored(FALSE)
     \/ "crash" \in Events /\ May("restore") /\ memory' = Restored(TRUE)
  /\ saving' = {memory'} /\ reading' = {}
  /\ handled' = FALSE /\ loop' = [pc |-> "restoring", pairs |-> 0] /\ mode' = "PAPER"
  /\ UNCHANGED <<row, dashboard, positions, requested>>

Operator == Activate \/ Deactivate \/ ToggleMode
Persist == SaveStart \/ SaveEnd
SignalLoop == ReadRow \/ Tick \/ Sweep \/ ScanPair \/ ScanDone \/ Check \/ Recheck \/ Place
Next == Operator \/ Persist \/ SignalLoop \/ PositionCloses \/ Restart

Spec == Init /\ [][Next]_vars

\* persist_loop and the signal loop sleep for bounded times and never stop.
Fairness == WF_vars(Persist) /\ WF_vars(SignalLoop)
FairSpec == Spec /\ Fairness

----------------------------------------------------------------------------
(* Properties *)

\* What a sweep does not outlast: a restart, a failing close, and another mode than
\* LIVE, which a failing read of the settings brings too.
Disturbances == {"crash", "restore", "sweep", "settings", "toggle"}
Undisturbed == Disturbances \cap faults = {}

\* A kill the engine has handled left nothing open, and nothing is opened as long as it
\* counts as handled (main.py:507-531).
HandledMeansFlat == (handled /\ Undisturbed) => positions = {}

\* The same after a restart, "a restart with the flag set in DB re-triggers close-out on
\* the engine's next loop tick" (manager.py:270-271), or a change of mode.
HandledMeansFlatAlways == handled => positions = {}

\* The engine and the row agree that the switch is on, and neither an older save nor
\* an older read is under way.
Agreed == row /\ memory /\ FALSE \notin saving
Settled == Agreed /\ FALSE \notin reading

\* Only the operator ends a settled kill: no failing read, lost save, mode change or
\* restart clears it, as long as restore() can read the row (manager.py:270-275, 641-649).
SettledKillStays ==
  [][Settled /\ requested' /\ "restore" \notin faults' => Settled']_vars

\* The same while an older read may be under way: one that was answered before the
\* operator's request clears the copy after it, and the next save clears the row
\* (manager.py:650-656).
AgreedKillStays == [][Agreed /\ requested' /\ "restore" \notin faults' => Agreed']_vars

\* The same whatever restore() could read: "Hydrate kill_switch_active so a restart with
\* the flag set in DB re-triggers close-out" (manager.py:270-271).
RestartKeepsKill == [][Settled /\ requested' => Settled']_vars

\* While a kill is settled no position is opened, wherever in execute_order the
\* signal loop stood when it was noticed (engine.py:102-124, 150-178).
SettledKillBlocks == [][Settled => positions' \subseteq positions]_vars

\* A settled kill closes every position, unless the operator takes it back, whatever
\* reads and saves fail.
KillCloses == Settled ~> (positions = {} \/ ~requested \/ ~Undisturbed)

\* A request stays somewhere the engine will find it: "The engine main loop detects
\* the False->True transition on its next tick" (health_server.py:913-916).
RequestSurvives == requested => (row \/ memory)

\* A kill nobody asked for, taken for safety after a failing read, goes away: "once
\* DB is healthy ... the next successful refresh clears the in-memory flag"
\* (manager.py:646-648).
BlipClears == (memory /\ ~requested) ~> (~memory \/ requested)
================================================================================
