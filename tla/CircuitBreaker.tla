---------------------------- MODULE CircuitBreaker ----------------------------
(***************************************************************************)
(* The circuit breaker of the execution engine, with the two places that     *)
(* look at it: the risk engine, which rejects every proposal while the       *)
(* breaker is OPEN, and execute_order, which asks it once more, and through  *)
(* which alone the breaker leaves OPEN.  Orders and the engine's other       *)
(* broker calls (max-hold closes, trailing stops, close-all) report their    *)
(* outcome to it.                                                            *)
(*                                                                           *)
(* Time passes in units of 10 s, and times are kept as ages.                 *)
(***************************************************************************)
EXTENDS Naturals, FiniteSets

CONSTANTS
  Threshold,   \* FAILURE_THRESHOLD
  Window,      \* FAILURE_WINDOW_SEC
  ResetAfter,  \* RESET_TIMEOUT_SEC
  Calls        \* failing calls, as many as there may be within one window (a bound)

ASSUME ConstantsAssumption ==
  /\ Threshold \in Nat \ {0} /\ Window \in Nat \ {0}
  /\ ResetAfter \in Nat
  /\ IsFiniteSet(Calls)

VARIABLES
  state,     \* "CLOSED", "OPEN" or "HALF_OPEN"
  failures,  \* per call the age of its failure, at most Window; Gone if it is not on record
  openFor,   \* the age of _opened_at; at most ResetAfter
  order      \* the signal loop's order: none, past the risk engine, or with the
             \* broker ("live") or the paper executor ("paper": PAPER mode, shadow pairs)

vars == <<state, failures, openFor, order>>

Gone == Window + 1

TypeOK ==
  /\ state \in {"CLOSED", "OPEN", "HALF_OPEN"}
  /\ failures \in [Calls -> 0..Gone]
  /\ openFor \in 0..ResetAfter
  /\ order \in {"none", "approved", "live", "paper"}

None == [c \in Calls |-> Gone]

Init == state = "CLOSED" /\ failures = None /\ openFor = 0 /\ order = "none"

OnRecord == {c \in Calls : failures[c] # Gone}
Recent == {c \in Calls : failures[c] < Window}

----------------------------------------------------------------------------
(* record_success, record_failure, check_and_transition *)

\* (mutant of Forgiven: the failures stay on record)
AllRemembered == failures
\* What a success in HALF_OPEN leaves on record.
Forgiven == None

RecordSuccess ==
  IF state = "HALF_OPEN" THEN state' = "CLOSED" /\ failures' = Forgiven /\ openFor' = 0
  ELSE UNCHANGED <<state, failures, openFor>>

\* (mutant of Counted: old failures count too)
CountedForEver(c) == [failures EXCEPT ![c] = 0]
\* The record with the new failure of c; of the others it keeps those of the last window.
Counted(c) ==
  [k \in Calls |-> IF k = c THEN 0 ELSE IF k \in Recent THEN failures[k] ELSE Gone]

RecordFailure ==
  /\ \E c \in Calls \ Recent : failures' = Counted(c)
  /\ IF Cardinality(OnRecord') >= Threshold /\ state # "OPEN"
     THEN state' = "OPEN" /\ openFor' = 0
     ELSE UNCHANGED <<state, openFor>>

StateToTry == IF state = "OPEN" /\ openFor >= ResetAfter THEN "HALF_OPEN" ELSE state

----------------------------------------------------------------------------
\* (mutant of Admits: the risk engine does not look at the breaker)
AdmitsAlways == state \in {"CLOSED", "OPEN", "HALF_OPEN"}
\* The risk state is CIRCUIT_OPEN while the breaker is OPEN, and nothing else moves it.
Admits == state # "OPEN"

\* RiskEngine.evaluate approves a proposal (if its other checks do).
Approve ==
  /\ order = "none" /\ Admits
  /\ order' = "approved"
  /\ UNCHANGED <<state, failures, openFor>>

\* execute_order rejects the order, or goes on; the kill switch or the idempotency
\* guard may still end it.
CheckBreaker ==
  /\ order = "approved"
  /\ state' = StateToTry
  /\ order' \in IF state' = "OPEN" THEN {"none"} ELSE {"none", "live", "paper"}
  /\ UNCHANGED <<failures, openFor>>

Filled == order \in {"live", "paper"} /\ order' = "none" /\ RecordSuccess
Failed == order = "live" /\ order' = "none" /\ RecordFailure

\* Another broker call of the engine reports.
OtherCall == (RecordSuccess \/ RecordFailure) /\ UNCHANGED order

\* The process starts anew; the breaker lives in its memory.
Restart == state' = "CLOSED" /\ failures' = None /\ openFor' = 0 /\ order' = "none"

Tick ==
  /\ failures' = [c \in Calls |-> IF failures[c] < Window THEN failures[c] + 1 ELSE failures[c]]
  /\ openFor' = IF state # "CLOSED" /\ openFor < ResetAfter THEN openFor + 1 ELSE openFor
  /\ UNCHANGED <<state, order>>

SignalLoop == Approve \/ CheckBreaker \/ Filled \/ Failed
Next == SignalLoop \/ OtherCall \/ Restart \/ Tick

Spec == Init /\ [][Next]_vars

\* The signal loop goes on, and time does.
Fairness == WF_vars(SignalLoop) /\ WF_vars(Tick)
FairSpec == Spec /\ Fairness

----------------------------------------------------------------------------
(* Properties *)

\* While the breaker is closed, fewer than Threshold failures are on record within the
\* window: no burst goes unnoticed, also after a recovery.
ClosedIsQuiet == state = "CLOSED" => Cardinality(Recent) < Threshold

\* It trips on a burst only: Threshold failures, none of them older than the window.
TripsOnBurst ==
  [][(state # "OPEN" /\ state' = "OPEN") => Cardinality(Recent') >= Threshold]_vars

\* An open breaker is tried again: "CLOSED -> OPEN (3 failures/60s) -> HALF_OPEN (30s)
\* -> CLOSED (success)" (circuit_breaker.py:5).
OpenEnds == state = "OPEN" ~> state # "OPEN"

\* It is not, as a rule: gate and breaker wait for each other.  Once it is open and no
\* approved order is on its way to it, whatever reports, retries or waits, nothing but a
\* restart brings it out of OPEN (risk_engine/engine.py:384, 918; engine.py:137).
Stranded == state = "OPEN" /\ order # "approved"
StrandedStays == [][Stranded => (Stranded' \/ Restart)]_vars

\* "Tracks OANDA API failures" (circuit_breaker.py:4): what closes it is an answer of
\* the broker.
ClosedByBroker ==
  [][(state = "HALF_OPEN" /\ Filled /\ state' = "CLOSED") => order = "live"]_vars

\* "A failure in HALF_OPEN reopens the circuit to OPEN" (test_broker_failures.py:95).
FailureReopens == [][(state = "HALF_OPEN" /\ RecordFailure) => state' = "OPEN"]_vars
================================================================================
