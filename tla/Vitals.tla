-------------------------------- MODULE Vitals --------------------------------
(***************************************************************************)
(* How the engine's silence is noticed: by its own watchdog, which looks at  *)
(* the time of the last save and reconciles positions in between, and by     *)
(* /health of another process, which looks at the row of system_state.       *)
(*                                                                           *)
(* The unit of time is WATCHDOG_INTERVAL_SECONDS, 30 s.  persist_loop saves  *)
(* every 5 s, so a running one saves in every unit; it may hang in a call.   *)
(***************************************************************************)
EXTENDS Integers

CONSTANTS
  Stale, Beat,           \* STATE_STALE_ and HEARTBEAT_STALE_THRESHOLD_SECONDS
  HealthStale,           \* STATE_STALENESS_THRESHOLD_SECONDS of /health
  Renewal,               \* RENEW_INTERVAL of the lock
  ReconcileEvery,        \* RECONCILE_INTERVAL_SECONDS
  MaxReconcile, MaxLost  \* bounds: a reconciliation's length, alerts lost

ASSUME VitalsAssumption ==
  /\ {Stale, Beat, HealthStale, MaxReconcile, MaxLost} \subseteq Nat
  /\ {Renewal, ReconcileEvery} \subseteq Nat \ {0}

VARIABLES
  engine,      \* up or dead
  saver,       \* persist_loop: running, hung
  stream,      \* stream_task: running, ended
  saved,       \* since last_persisted_at, in memory
  uptime,      \* since started_at
  touched,     \* since updated_at of the row
  renewal,     \* until the lock's next renewal
  check,       \* until the watchdog's next check
  reconciled,  \* since its last reconciliation
  stales,      \* _consecutive_stale_count, modulo 5
  alerted,     \* _alerted_stale
  told,        \* history: an alert of this silence arrived
  lost,        \* history: how many did not
  dead,        \* history: since the engine died
  poked,       \* history: since the operator wrote to the row
  report       \* the state that /health has just reported, if any

vitals == <<engine, saver, stream, saved, uptime, touched, renewal, check, reconciled, stales,
            alerted, told, lost, dead, poked, report>>
watchdog == <<check, reconciled, stales, alerted>>

\* Where a time no longer makes a difference.
LongestSilence == Beat + Stale + (1 + MaxLost) * (1 + MaxReconcile) + 1
LongestAge == HealthStale + Renewal + 1
Later(t, longest) == IF t < longest THEN t + 1 ELSE t

VitalsTypeOK ==
  /\ engine \in {"up", "dead"} /\ saver \in {"running", "hung"} /\ stream \in {"running", "ended"}
  /\ saved \in 0..LongestSilence /\ uptime \in 0..Beat
  /\ touched \in 0..LongestAge /\ dead \in 0..LongestAge /\ poked \in 0..LongestAge
  /\ renewal \in 0..Renewal /\ check \in 0..1 + MaxReconcile
  /\ reconciled \in 0..ReconcileEvery /\ stales \in 0..4
  /\ alerted \in BOOLEAN /\ told \in BOOLEAN
  /\ lost \in 0..MaxLost /\ report \in {"none", "ok", "stale"}

VitalsInit ==
  /\ engine = "up" /\ saver = "running" /\ stream = "running"
  /\ saved = 0 /\ uptime = 0 /\ touched = 0
  /\ renewal = Renewal /\ check = 1 /\ reconciled = ReconcileEvery
  /\ stales = 0 /\ alerted = FALSE /\ told = FALSE /\ lost = 0
  /\ dead = 0 /\ poked = LongestAge
  /\ report = "none"

\* save: the time in memory is set first; the row's only if the upsert succeeds.
Save ==
  /\ engine = "up" /\ saver = "running"
  /\ saved' = 0 /\ told' = FALSE
  /\ touched' \in {0, touched}
  /\ report' = "none"
  /\ UNCHANGED <<engine, saver, stream, uptime, renewal, watchdog, lost, dead, poked>>

Hang ==
  /\ engine = "up" /\ saver' = IF saver = "running" THEN "hung" ELSE "running"
  /\ report' = "none"
  /\ UNCHANGED <<engine, stream, saved, uptime, touched, renewal, watchdog, told, lost, dead, poked>>

\* stream_task raises: nobody waits for the task.
StreamEnds ==
  /\ engine = "up" /\ stream = "running" /\ stream' = "ended"
  /\ report' = "none"
  /\ UNCHANGED <<engine, saver, saved, uptime, touched, renewal, watchdog, told, lost, dead, poked>>

\* The lock's renewal writes updated_at of the same row.
RenewLock ==
  /\ engine = "up" /\ renewal = 0
  /\ renewal' = Renewal /\ touched' = 0
  /\ report' = "none"
  /\ UNCHANGED <<engine, saver, stream, saved, uptime, watchdog, told, lost, dead, poked>>

\* An SMS: the service swallows its failure.
Alert ==
  \/ told' = TRUE /\ UNCHANGED lost
  \/ lost < MaxLost /\ lost' = lost + 1 /\ UNCHANGED told
Silent(t) == saved > t
SendsStale == Silent(Stale) /\ (~alerted \/ (stales + 1) % 5 = 0)
\* (mutant of SendsHeartbeat: once per silence)
SendsHeartbeatOnce == uptime >= Beat /\ Silent(Beat) /\ ~alerted
SendsHeartbeat == uptime >= Beat /\ Silent(Beat)

\* _run_checks: the two alerts, then, every ReconcileEvery, the reconciliation.
WatchdogChecks ==
  /\ engine = "up" /\ check = 0
  /\ stales' = IF Silent(Stale) THEN (stales + 1) % 5 ELSE 0
  /\ alerted' = (Silent(Stale) /\ (alerted \/ SendsStale))
  /\ IF SendsStale \/ SendsHeartbeat THEN Alert ELSE UNCHANGED <<told, lost>>
  /\ IF reconciled < ReconcileEvery
     THEN check' = 1 /\ UNCHANGED reconciled
     ELSE check' \in 1..1 + MaxReconcile /\ reconciled' = 0
  /\ report' = "none"
  /\ UNCHANGED <<engine, saver, stream, saved, uptime, touched, renewal, dead, poked>>

Die ==
  /\ engine = "up" /\ engine' = "dead" /\ dead' = 0
  /\ report' = "none"
  /\ UNCHANGED <<saver, stream, saved, uptime, touched, renewal, watchdog, told, lost, poked>>

\* A start acquires the lock and restores, which ends with a save.
Start ==
  /\ engine = "dead" /\ engine' = "up"
  /\ saver' = "running" /\ stream' = "running"
  /\ saved' = 0 /\ uptime' = 0 /\ touched' = 0 /\ renewal' = Renewal
  /\ check' = 1 /\ reconciled' = ReconcileEvery /\ stales' = 0 /\ alerted' = FALSE
  /\ told' = FALSE /\ dead' = 0
  /\ report' = "none"
  /\ UNCHANGED <<lost, poked>>

\* The operator's kill switch writes updated_at too, whether or not an engine runs.
OperatorWrites ==
  /\ touched' = 0 /\ poked' = 0
  /\ report' = "none"
  /\ UNCHANGED <<engine, saver, stream, saved, uptime, renewal, watchdog, told, lost, dead>>

\* (mutant of StateStatus: the threshold of the lock's lease is added)
StateStatusLenient == IF touched <= HealthStale + Renewal THEN "ok" ELSE "stale"
\* _check_components: the row's age speaks for the state, the broker and the prices.
StateStatus == IF touched <= HealthStale THEN "ok" ELSE "stale"

Health ==
  /\ report' = StateStatus
  /\ UNCHANGED <<engine, saver, stream, saved, uptime, touched, renewal, watchdog, told, lost,
                 dead, poked>>

\* A unit of time passes; what is due has happened.
VitalsTick ==
  /\ engine = "up" => /\ renewal > 0 /\ check > 0
                      /\ saver = "running" => saved = 0
  /\ saved' = Later(saved, LongestSilence) /\ uptime' = Later(uptime, Beat)
  /\ touched' = Later(touched, LongestAge) /\ poked' = Later(poked, LongestAge)
  /\ IF engine = "up"
     THEN /\ renewal' = renewal - 1 /\ check' = check - 1
          /\ reconciled' = IF reconciled < ReconcileEvery THEN reconciled + 1 ELSE reconciled
          /\ UNCHANGED dead
     ELSE dead' = Later(dead, LongestAge) /\ UNCHANGED <<renewal, check, reconciled>>
  /\ report' = "none"
  /\ UNCHANGED <<engine, saver, stream, stales, alerted, told, lost>>

VitalsNext ==
  \/ Save \/ Hang \/ StreamEnds \/ RenewLock \/ WatchdogChecks
  \/ Die \/ Start \/ OperatorWrites \/ Health \/ VitalsTick

VitalsSpec == VitalsInit /\ [][VitalsNext]_vitals

(***************************************************************************)
(* Properties.                                                              *)
(***************************************************************************)

\* A persist loop that hangs is told of: within the heartbeat's threshold, a watchdog's
\* round (prolonged by its own reconciliation), and another round for every alert lost.
StallIsTold ==
  engine = "up"
  => saved <= Beat + (1 + lost) * (1 + MaxReconcile) \/ told

\* A dead engine is not reported as ok for longer than the threshold, unless the operator
\* wrote to its row meanwhile.
DeadIsReported == report = "ok" /\ engine = "dead" => dead <= HealthStale \/ poked <= HealthStale

\* Refuted: without that exception (health_server.py:395-398: a health check that does not see
\* the state is not healthy; the kill switch refreshes the row of a dead engine).
DeadIsReportedAtOnce == report = "ok" /\ engine = "dead" => dead <= HealthStale

\* Refuted: a reported state was saved lately (health_server.py:518: "use updated_at as proxy
\* (state persists every 30s)"); the lock's renewals keep the row young.
ReportedIsSaved == report = "ok" /\ engine = "up" => saved <= HealthStale

\* Refuted: what is reported of the prices is true of the stream.
FeedIsReported == report = "ok" /\ engine = "up" => stream = "running"
================================================================================
