--------------------------- MODULE KillSwitch_proofs ---------------------------
(* Proofs about KillSwitch, for every set of positions, any number of pairs and, *)
(* unless a theorem says otherwise, every choice of events.                      *)
EXTENDS KillSwitch, TLAPS

\* The actions of the signal loop that refresh the copy leave it a Boolean.
LEMMA RefreshTyped ==
  ASSUME TypeOK, NEW v \in BOOLEAN, Refresh(v)
  PROVE  memory' = v /\ reading' = {} /\ faults' \subseteq Events
BY ConstantsAssumption DEF Refresh, May, TypeOK

LEMMA MayTyped ==
  ASSUME TypeOK, NEW event, May(event) PROVE faults' \subseteq Events
BY ConstantsAssumption DEF May, TypeOK

LEMMA TypeInit == Init => TypeOK
<1> SUFFICES ASSUME Init PROVE TypeOK
  OBVIOUS
<1>1. 0 \in 0..Pairs
  BY ConstantsAssumption
<1>2. {row, memory, handled, requested} \subseteq BOOLEAN /\ saving \in SUBSET BOOLEAN
      /\ reading \in SUBSET BOOLEAN
  BY DEF Init
<1>3. {dashboard, mode} \subseteq {"LIVE", "PAPER"} /\ positions \subseteq Positions
  BY DEF Init
<1>4. loop = [pc |-> "asleep", pairs |-> 0] /\ faults = {}
  BY DEF Init
<1> QED
  BY <1>1, <1>2, <1>3, <1>4 DEF TypeOK

LEMMA TypeNext == TypeOK /\ [Next]_vars => TypeOK'
<1> SUFFICES ASSUME TypeOK, [Next]_vars PROVE TypeOK'
  OBVIOUS
<1>0. /\ row \in BOOLEAN /\ memory \in BOOLEAN /\ handled \in BOOLEAN
      /\ requested \in BOOLEAN /\ saving \in SUBSET BOOLEAN
      /\ reading \in SUBSET BOOLEAN /\ loop.pairs \in 0..Pairs /\ positions \subseteq Positions
      /\ loop = [pc |-> loop.pc, pairs |-> loop.pairs]
  BY DEF TypeOK
<1>1. CASE Operator
  BY <1>1, MayTyped DEF Operator, Activate, Deactivate, ToggleMode, TypeOK
<1>2. CASE Persist
  BY <1>2, MayTyped DEF Persist, SaveStart, SaveEnd, Goto, At, TypeOK
<1>3. CASE Tick
  <2>1. PICK v \in BOOLEAN :
          /\ Refresh(v) /\ handled' = StillHandled(v)
          /\ IF v THEN IF handled THEN UNCHANGED loop ELSE Goto("sweeping")
             ELSE loop' = [pc |-> "scanning", pairs |-> Pairs]
    BY <1>3 DEF Tick
  <2>2. /\ memory' \in BOOLEAN /\ reading' \in SUBSET BOOLEAN
        /\ faults' \subseteq Events /\ handled' \in BOOLEAN
    BY <1>0, <2>1, RefreshTyped DEF StillHandled
  <2> QED
    BY <1>3, <2>1, <2>2, ConstantsAssumption DEF Tick, Goto, TypeOK
<1>4. CASE Sweep
  BY <1>0, <1>4, MayTyped DEF Sweep, Swept, Goto, TypeOK
<1>5. CASE ScanPair
  <2>1. loop.pairs - 1 \in 0..Pairs
    BY <1>0, <1>5, ConstantsAssumption DEF ScanPair, PairsLeft
  <2> QED
    BY <1>5, <2>1, MayTyped DEF ScanPair, TypeOK
<1>6. CASE ScanDone
  BY <1>6 DEF ScanDone, Goto, TypeOK
<1>7. CASE Check
  <2>1. PICK v \in BOOLEAN :
          Refresh(v) /\ Goto(IF v \/ mode # "LIVE" THEN "scanning" ELSE "rechecking")
    BY <1>7 DEF Check
  <2>2. memory' \in BOOLEAN /\ reading' \in SUBSET BOOLEAN /\ faults' \subseteq Events
    BY <2>1, RefreshTyped
  <2> QED
    BY <1>7, <2>1, <2>2 DEF Check, Goto, TypeOK
<1>8. CASE Recheck
  <2>1. PICK v \in BOOLEAN : Refresh(v) /\ Goto(IF Cleared(v) THEN "placing" ELSE "scanning")
    BY <1>8 DEF Recheck
  <2>2. memory' \in BOOLEAN /\ reading' \in SUBSET BOOLEAN /\ faults' \subseteq Events
    BY <2>1, RefreshTyped
  <2> QED
    BY <1>8, <2>1, <2>2 DEF Recheck, Goto, TypeOK
<1>9. CASE Place
  BY <1>9 DEF Place, Goto, TypeOK
<1>10. CASE PositionCloses
  BY <1>10 DEF PositionCloses, TypeOK
<1>11. CASE Restart
  <2>1. memory' \in BOOLEAN /\ faults' \subseteq Events
    BY <1>0, <1>11, MayTyped DEF Restart, Restored
  <2>2. 0 \in 0..Pairs /\ saving' \in SUBSET BOOLEAN /\ reading' \in SUBSET BOOLEAN
    BY <1>11, <2>1, ConstantsAssumption DEF Restart
  <2>3. handled' = FALSE /\ mode' = "PAPER" /\ loop' = [pc |-> "restoring", pairs |-> 0]
    BY <1>11 DEF Restart
  <2>4. UNCHANGED <<row, dashboard, positions, requested>>
    BY <1>11 DEF Restart
  <2> QED
    BY <2>1, <2>2, <2>3, <2>4 DEF TypeOK
<1>12. CASE UNCHANGED vars
  BY <1>12 DEF vars, TypeOK
<1>13. CASE ReadRow
  BY <1>0, <1>13 DEF ReadRow, TypeOK
<1> QED
  BY <1>1, <1>2, <1>3, <1>4, <1>5, <1>6, <1>7, <1>8, <1>9, <1>10, <1>11, <1>12, <1>13
  DEF Next, SignalLoop

\* The variables keep their types.
THEOREM Typing == Spec => []TypeOK
BY TypeInit, TypeNext, PTL DEF Spec

----------------------------------------------------------------------------
(* No order passes a settled kill: the signal loop reaches the broker call only with a *)
(* copy it has just read as clear, and nobody else writes the copy.                   *)

PlacingInv == TypeOK /\ (At("placing") => ~memory)

LEMMA GotoSets ==
  ASSUME TypeOK, NEW pc, Goto(pc) PROVE loop'.pc = pc
BY DEF Goto, TypeOK

LEMMA PlacingNext == PlacingInv /\ [Next]_vars => PlacingInv'
<1> SUFFICES ASSUME PlacingInv, [Next]_vars PROVE PlacingInv'
  OBVIOUS
<1>0. TypeOK /\ TypeOK' /\ (At("placing") => ~memory)
  BY TypeNext DEF PlacingInv
<1>1. CASE UNCHANGED <<memory, loop>>
  BY <1>0, <1>1 DEF PlacingInv, At
<1>2. CASE loop'.pc # "placing"
  BY <1>0, <1>2 DEF PlacingInv, At
<1>3. CASE Recheck
  <2>1. PICK v \in BOOLEAN : Refresh(v) /\ Goto(IF Cleared(v) THEN "placing" ELSE "scanning")
    BY <1>3 DEF Recheck
  <2>2. memory' = v /\ loop'.pc = IF Cleared(v) THEN "placing" ELSE "scanning"
    BY <1>0, <2>1, GotoSets DEF Refresh
  <2>3. CASE v = TRUE
    BY <1>0, <2>2, <2>3 DEF Cleared, PlacingInv, At
  <2>4. CASE v = FALSE
    BY <1>0, <2>2, <2>4 DEF PlacingInv
  <2> QED
    BY <2>3, <2>4
<1>4. Tick => UNCHANGED <<memory, loop>> \/ loop'.pc # "placing"
  <2> SUFFICES ASSUME Tick PROVE loop'.pc # "placing"
    OBVIOUS
  <2>1. CASE UNCHANGED loop
    BY <2>1 DEF Tick, At
  <2>2. CASE Goto("sweeping")
    BY <1>0, <2>2, GotoSets
  <2>3. CASE loop' = [pc |-> "scanning", pairs |-> Pairs]
    BY <2>3
  <2> QED
    BY <2>1, <2>2, <2>3 DEF Tick
<1>5. Check \/ Sweep \/ ScanDone \/ Place => loop'.pc # "placing"
  BY <1>0, GotoSets DEF Check, Sweep, ScanDone, Place
<1>6. ScanPair \/ Restart => loop'.pc # "placing"
  <2>1. CASE Restart
    BY <2>1 DEF Restart
  <2>2. CASE ScanPair /\ loop' = [loop EXCEPT !.pairs = loop.pairs - 1]
    BY <1>0, <2>2 DEF ScanPair, At, TypeOK
  <2>3. CASE ScanPair /\ loop' = [pc |-> "checking", pairs |-> loop.pairs - 1]
    BY <2>3
  <2> QED
    BY <2>1, <2>2, <2>3 DEF ScanPair
<1>7. Persist => UNCHANGED <<memory, loop>> \/ loop'.pc # "placing"
  BY <1>0, GotoSets DEF Persist, SaveStart, SaveEnd
<1>8. Operator \/ PositionCloses \/ ReadRow => UNCHANGED <<memory, loop>>
  BY DEF Operator, Activate, Deactivate, ToggleMode, PositionCloses, ReadRow
<1>9. UNCHANGED vars => UNCHANGED <<memory, loop>>
  BY DEF vars
<1> QED
  BY <1>1, <1>2, <1>3, <1>4, <1>5, <1>6, <1>7, <1>8, <1>9 DEF Next, SignalLoop

\* While a kill is settled no position is opened, whatever fails and wherever the
\* signal loop stood in execute_order (engine.py:102-124, 150-178).
THEOREM KillBlocksOrders == Spec => SettledKillBlocks
<1>1. Init => PlacingInv
  BY TypeInit DEF Init, PlacingInv, At
<1>2. PlacingInv /\ [Next]_vars => [Settled => positions' \subseteq positions]_vars
  <2> SUFFICES ASSUME PlacingInv, Next, Settled PROVE positions' \subseteq positions
    BY DEF vars
  <2>1. ~Place
    BY DEF Place, PlacingInv, Settled, Agreed
  <2>2. Sweep \/ PositionCloses => positions' \subseteq positions
    BY DEF Sweep, Swept, PositionCloses
  <2>3. Operator \/ Persist \/ ReadRow \/ Tick \/ ScanPair \/ ScanDone \/ Check \/ Recheck \/ Restart
          => UNCHANGED positions
    BY DEF Operator, Activate, Deactivate, ToggleMode, Persist, SaveStart, SaveEnd,
           ReadRow, Tick, ScanPair, ScanDone, Check, Recheck, Restart
  <2> QED
    BY <2>1, <2>2, <2>3 DEF Next, SignalLoop
<1> QED
  BY <1>1, <1>2, PlacingNext, PTL DEF Spec, SettledKillBlocks

----------------------------------------------------------------------------
\* Only the operator ends a settled kill, provided restore() can read the row after a
\* restart: no failing read, lost save or restart does, nor a refresh that was answered
\* after the request (manager.py:270-275, 641-656).
THEOREM KillStays == Spec => SettledKillStays
<1>1. TypeOK /\ [Next]_vars =>
        [Settled /\ requested' /\ "restore" \notin faults' => Settled']_vars
  <2> SUFFICES ASSUME TypeOK, TypeOK', Next, Settled, requested', "restore" \notin faults'
               PROVE Settled'
    BY TypeNext DEF vars
  <2>1. /\ row = TRUE /\ memory = TRUE /\ requested' = TRUE
        /\ FALSE \notin saving /\ FALSE \notin reading
    BY DEF Settled, Agreed, TypeOK
  <2>2. SUFFICES row' = TRUE /\ memory' = TRUE /\ FALSE \notin saving' /\ FALSE \notin reading'
    BY DEF Settled, Agreed
  <2>3. CASE Operator
    BY <2>1, <2>3 DEF Operator, Activate, Deactivate, ToggleMode
  <2>4. CASE SaveStart
    BY <2>1, <2>4 DEF SaveStart
  <2>5. CASE SaveEnd
    <3>1. saving \subseteq {TRUE}
      BY <2>1 DEF TypeOK
    <3> QED
      BY <2>1, <2>5, <3>1 DEF SaveEnd
  <2>6. CASE Tick \/ Check \/ Recheck
    <3>1. PICK v \in BOOLEAN : Refresh(v)
      BY <2>6 DEF Tick, Check, Recheck
    <3>2. memory' = TRUE /\ reading' = {}
      BY <2>1, <3>1 DEF Refresh
    <3>3. UNCHANGED <<row, saving>>
      BY <2>6 DEF Tick, Check, Recheck
    <3> QED
      BY <2>1, <3>2, <3>3
  <2>7. CASE Sweep \/ ScanPair \/ ScanDone \/ Place \/ PositionCloses
    BY <2>1, <2>7 DEF Sweep, ScanPair, ScanDone, Place, PositionCloses
  <2>8. CASE Restart
    <3>1. /\ memory' = Restored(FALSE) /\ saving' = {memory'}
          /\ reading' = {} /\ UNCHANGED row
      BY <2>8 DEF Restart, May
    <3> QED
      BY <2>1, <3>1 DEF Restored
  <2>9. CASE ReadRow
    BY <2>1, <2>9 DEF ReadRow
  <2> QED
    BY <2>3, <2>4, <2>5, <2>6, <2>7, <2>8, <2>9 DEF Next, SignalLoop, Persist
<1> QED
  BY <1>1, Typing, PTL DEF Spec, SettledKillStays

----------------------------------------------------------------------------
(* The sweep.  As long as a kill counts as handled the signal loop is asleep.      *)

FlatInv ==
  /\ TypeOK
  /\ Undisturbed => /\ mode = "LIVE" /\ dashboard = "LIVE"
                    /\ handled => At("asleep") /\ positions = {}

\* Nothing that has happened is undone, so that an undisturbed engine always was.
LEMMA FaultsGrow == [Next]_vars => faults \subseteq faults'
<1>1. Operator \/ Persist => faults \subseteq faults'
  BY DEF Operator, Activate, Deactivate, ToggleMode, Persist, SaveStart, SaveEnd, May
<1>2. SignalLoop => faults \subseteq faults'
  BY DEF SignalLoop, ReadRow, Tick, Sweep, ScanPair, ScanDone, Check, Recheck, Place, Refresh, May
<1>3. PositionCloses \/ Restart => faults \subseteq faults'
  BY DEF PositionCloses, Restart, May
<1> QED
  BY <1>1, <1>2, <1>3 DEF Next, vars

LEMMA FlatNext == FlatInv /\ [Next]_vars => FlatInv'
<1> SUFFICES ASSUME FlatInv, [Next]_vars, Undisturbed'
             PROVE  /\ mode' = "LIVE" /\ dashboard' = "LIVE"
                    /\ handled' => At("asleep")' /\ positions' = {}
  BY TypeNext DEF FlatInv
<1>0. TypeOK /\ TypeOK'
  BY TypeNext DEF FlatInv
<1>a. Undisturbed /\ \A e \in Disturbances : ~May(e)
  <2>1. \A e \in Disturbances : ~May(e)
    BY DEF Undisturbed, May
  <2> QED
    BY <2>1, FaultsGrow DEF Undisturbed
<1>b. /\ mode = "LIVE" /\ dashboard = "LIVE"
      /\ handled => At("asleep") /\ positions = {}
  BY <1>a DEF FlatInv
<1> USE <1>0, <1>b
<1>1. CASE Operator
  BY <1>1, <1>a DEF Operator, Activate, Deactivate, ToggleMode, Disturbances, At
<1>2. CASE Persist
  BY <1>2 DEF Persist, SaveStart, SaveEnd, Goto, At
<1>3. CASE Tick
  BY <1>3 DEF Tick, StillHandled, Goto, At
<1>4. CASE Sweep
  <2>1. positions' = {} /\ UNCHANGED <<mode, dashboard>>
    BY <1>4, <1>a DEF Sweep, Swept, Disturbances
  <2>2. loop'.pc = "asleep"
    BY <1>4, GotoSets DEF Sweep
  <2> QED
    BY <2>1, <2>2 DEF At
<1>5. CASE ScanPair
  BY <1>5, <1>a DEF ScanPair, Disturbances, At
<1>6. CASE ScanDone \/ Check \/ Recheck \/ Place
  BY <1>6 DEF ScanDone, Check, Recheck, Place, At
<1>7. CASE PositionCloses \/ ReadRow
  BY <1>7 DEF PositionCloses, ReadRow, At
<1>8. ~Restart
  BY <1>a DEF Restart, Disturbances
<1>9. CASE UNCHANGED vars
  BY <1>9 DEF vars, At
<1> QED
  BY <1>1, <1>2, <1>3, <1>4, <1>5, <1>6, <1>7, <1>8, <1>9 DEF Next, SignalLoop

\* A kill that counts as handled left nothing open, and nothing is opened as long as it
\* does (main.py:507-531), for every interleaving of the operator, the saves and the
\* failing reads, as long as nothing disturbs the sweep.
THEOREM HandledIsFlat == Spec => []HandledMeansFlat
<1>1. Init => FlatInv
  BY TypeInit DEF Init, FlatInv
<1>2. FlatInv => HandledMeansFlat
  BY DEF FlatInv, HandledMeansFlat
<1> QED
  BY <1>1, <1>2, FlatNext, PTL DEF Spec
================================================================================
