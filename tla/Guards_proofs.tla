----------------------------- MODULE Guards_proofs ----------------------------
(***************************************************************************)
(* Proofs about the guards that trading relies on, for every threshold,     *)
(* window, lifetime and delay: the circuit breaker trips on every burst of  *)
(* failures and on bursts only; the news check respects every event of the  *)
(* feed; a moved price is refused for a bounded while; an engine that hangs *)
(* or dies is told of.  The four modules share no variable, and each       *)
(* theorem is about the specification of one of them.                       *)
(***************************************************************************)
EXTENDS CircuitBreaker, Calendar, PriceFeed, Vitals, FiniteSetTheorems, SequenceTheorems, TLAPS

----------------------------------------------------------------------------
(* The circuit breaker *)

\* The constants as the arithmetic needs them.
LEMMA BreakerConstants ==
  /\ Threshold \in Nat \ {0} /\ Window \in Nat \ {0} /\ ResetAfter \in Nat /\ IsFiniteSet(Calls)
  /\ Gone \in Nat /\ Gone = Window + 1
BY ConstantsAssumption DEF ConstantsAssumption, Gone

\* The failures of the window are on record, and finite in number.
LEMMA RecentCounts ==
  ASSUME TypeOK
  PROVE  /\ Recent \subseteq OnRecord /\ OnRecord \subseteq Calls
         /\ IsFiniteSet(OnRecord) /\ IsFiniteSet(Recent)
         /\ Cardinality(Recent) \in Nat /\ Cardinality(OnRecord) \in Nat
         /\ Cardinality(Recent) <= Cardinality(OnRecord)
<1>1. Recent \subseteq OnRecord /\ OnRecord \subseteq Calls
  BY BreakerConstants DEF Recent, OnRecord, TypeOK
<1>2. IsFiniteSet(OnRecord)
  BY <1>1, BreakerConstants, FS_Subset
<1>3. IsFiniteSet(Recent) /\ Cardinality(Recent) <= Cardinality(OnRecord)
  BY <1>1, <1>2, FS_Subset
<1> QED
  BY <1>1, <1>2, <1>3, FS_CardinalityType

\* A cleared record counts nothing.
LEMMA NoneIsQuiet == failures = None => Recent = {}
BY BreakerConstants DEF None, Recent

\* A new failure drops what the window has left behind: the record is of the window.
LEMMA CountedIsRecent ==
  ASSUME TypeOK, NEW c \in Calls, failures' = Counted(c)
  PROVE  failures' \in [Calls -> 0..Gone] /\ OnRecord' = Recent'
<1>1. ASSUME NEW k \in Calls
      PROVE  failures'[k] \in 0..Gone /\ (failures'[k] # Gone <=> failures'[k] < Window)
  <2>1. failures'[k] = IF k = c THEN 0 ELSE IF k \in Recent THEN failures[k] ELSE Gone
    BY DEF Counted
  <2>2. failures[k] \in 0..Gone /\ (k \in Recent <=> failures[k] < Window)
    BY DEF TypeOK, Recent
  <2> QED
    BY <2>1, <2>2, BreakerConstants
<1>2. failures' = [k \in Calls |-> failures'[k]]
  BY DEF Counted
<1>3. OnRecord' = Recent'
  BY <1>1 DEF OnRecord, Recent
<1> QED
  BY <1>1, <1>2, <1>3

\* As time passes, failures leave the window and none enters it.
LEMMA TickForgets ==
  ASSUME TypeOK, Tick
  PROVE  failures' \in [Calls -> 0..Gone] /\ Recent' \subseteq Recent
<1>1. ASSUME NEW c \in Calls
      PROVE  /\ failures'[c] = IF failures[c] < Window THEN failures[c] + 1 ELSE failures[c]
             /\ failures[c] \in 0..Gone
  BY DEF TypeOK, Tick
<1>2. failures' \in [Calls -> 0..Gone]
  <2>1. failures' = [c \in Calls |-> IF failures[c] < Window THEN failures[c] + 1 ELSE failures[c]]
    BY DEF Tick
  <2>2. \A c \in Calls :
          (IF failures[c] < Window THEN failures[c] + 1 ELSE failures[c]) \in 0..Gone
    BY <1>1, BreakerConstants
  <2> QED
    BY <2>1, <2>2
<1>3. Recent' \subseteq Recent
  BY <1>1, BreakerConstants DEF Recent
<1> QED
  BY <1>2, <1>3

BreakerInv == TypeOK /\ ClosedIsQuiet

LEMMA BreakerInit == Init => BreakerInv
<1> SUFFICES ASSUME Init PROVE BreakerInv
  OBVIOUS
<1>1. TypeOK
  BY BreakerConstants DEF Init, None, TypeOK
<1>2. Recent = {}
  BY NoneIsQuiet DEF Init
<1>3. ClosedIsQuiet
  BY <1>2, FS_EmptySet, BreakerConstants DEF ClosedIsQuiet
<1> QED
  BY <1>1, <1>3 DEF BreakerInv

LEMMA SuccessInv ==
  ASSUME BreakerInv, RecordSuccess,
         order' \in {"none", "approved", "live", "paper"}
  PROVE  BreakerInv'
<1> USE DEF BreakerInv
<1>1. CASE state = "HALF_OPEN"
  <2>1. state' = "CLOSED" /\ failures' = None /\ openFor' = 0
    BY <1>1 DEF RecordSuccess, Forgiven
  <2>2. TypeOK'
    BY <2>1, BreakerConstants DEF None, TypeOK
  <2>3. Recent' = {}
    BY <2>1, BreakerConstants DEF None, Recent
  <2>4. ClosedIsQuiet'
    BY <2>3, FS_EmptySet, BreakerConstants DEF ClosedIsQuiet
  <2> QED
    BY <2>2, <2>4
<1>2. CASE state # "HALF_OPEN"
  BY <1>2 DEF RecordSuccess, TypeOK, ClosedIsQuiet, Recent
<1> QED
  BY <1>1, <1>2

LEMMA FailureInv ==
  ASSUME BreakerInv, RecordFailure,
         order' \in {"none", "approved", "live", "paper"}
  PROVE  /\ BreakerInv'
         /\ state # "OPEN" /\ state' = "OPEN" => Cardinality(Recent') >= Threshold
<1> USE DEF BreakerInv
<1>1. PICK c \in Calls \ Recent : failures' = Counted(c)
  BY DEF RecordFailure
<1>2. failures' \in [Calls -> 0..Gone] /\ OnRecord' = Recent'
  BY <1>1, CountedIsRecent
<1>3. \/ /\ Cardinality(Recent') >= Threshold /\ state # "OPEN"
         /\ state' = "OPEN" /\ openFor' = 0
      \/ /\ ~(Cardinality(Recent') >= Threshold /\ state # "OPEN")
         /\ state' = state /\ openFor' = openFor
  BY <1>2 DEF RecordFailure
<1>4. TypeOK'
  BY <1>2, <1>3, BreakerConstants DEF TypeOK
<1>5. Cardinality(Recent') \in Nat
  <2>1. Recent' \subseteq Calls
    BY DEF Recent
  <2> QED
    BY <2>1, BreakerConstants, FS_Subset, FS_CardinalityType
<1>6. ClosedIsQuiet'
  BY <1>3, <1>5, BreakerConstants DEF ClosedIsQuiet
<1> QED
  BY <1>3, <1>4, <1>6

\* The invariant is inductive, and what trips the breaker is a burst.
LEMMA BreakerNext ==
  BreakerInv /\ [Next]_vars =>
    /\ BreakerInv'
    /\ state # "OPEN" /\ state' = "OPEN" => Cardinality(Recent') >= Threshold
<1> SUFFICES ASSUME BreakerInv, [Next]_vars
             PROVE  /\ BreakerInv'
                    /\ state # "OPEN" /\ state' = "OPEN" => Cardinality(Recent') >= Threshold
  OBVIOUS
<1> USE DEF BreakerInv
<1>1. CASE Approve
  BY <1>1 DEF Approve, TypeOK, ClosedIsQuiet, Recent
<1>2. CASE CheckBreaker
  <2>1. /\ state' = StateToTry /\ UNCHANGED <<failures, openFor>>
        /\ order' \in {"none", "live", "paper"}
    BY <1>2 DEF CheckBreaker
  <2>2. \/ state' = state
        \/ state = "OPEN" /\ state' = "HALF_OPEN"
    <3>1. CASE state = "OPEN" /\ openFor >= ResetAfter
      BY <2>1, <3>1 DEF StateToTry
    <3>2. CASE ~(state = "OPEN" /\ openFor >= ResetAfter)
      <4>1. StateToTry = state
        BY <3>2 DEF StateToTry
      <4> QED
        BY <2>1, <4>1
    <3> QED
      BY <3>1, <3>2
  <2> QED
    BY <2>1, <2>2 DEF TypeOK, ClosedIsQuiet, Recent
<1>3. CASE Filled
  <2>1. order' \in {"none", "approved", "live", "paper"} /\ RecordSuccess
    BY <1>3 DEF Filled
  <2>2. ~(state # "OPEN" /\ state' = "OPEN")
    BY <2>1 DEF RecordSuccess
  <2> QED
    BY <2>1, <2>2, SuccessInv
<1>4. CASE Failed
  <2>1. order' \in {"none", "approved", "live", "paper"} /\ RecordFailure
    BY <1>4 DEF Failed
  <2> QED
    BY <2>1, FailureInv
<1>5. CASE OtherCall
  <2>1. order' \in {"none", "approved", "live", "paper"} /\ (RecordSuccess \/ RecordFailure)
    BY <1>5 DEF OtherCall, TypeOK
  <2>2. CASE RecordSuccess
    <3>1. ~(state # "OPEN" /\ state' = "OPEN")
      BY <2>2 DEF RecordSuccess
    <3> QED
      BY <2>1, <2>2, <3>1, SuccessInv
  <2>3. CASE RecordFailure
    BY <2>1, <2>3, FailureInv
  <2> QED
    BY <2>1, <2>2, <2>3
<1>6. CASE Restart
  <2>1. state' = "CLOSED" /\ failures' = None /\ openFor' = 0 /\ order' = "none"
    BY <1>6 DEF Restart
  <2>2. TypeOK'
    BY <2>1, BreakerConstants DEF None, TypeOK
  <2>3. Recent' = {}
    BY <2>1, BreakerConstants DEF None, Recent
  <2>4. ClosedIsQuiet'
    BY <2>3, FS_EmptySet, BreakerConstants DEF ClosedIsQuiet
  <2> QED
    BY <2>1, <2>2, <2>4
<1>7. CASE Tick
  <2>1. failures' \in [Calls -> 0..Gone] /\ Recent' \subseteq Recent
    BY <1>7, TickForgets
  <2>2. /\ state' = state /\ order' = order
        /\ openFor' = IF state # "CLOSED" /\ openFor < ResetAfter THEN openFor + 1 ELSE openFor
    BY <1>7 DEF Tick
  <2>3. TypeOK'
    <3>1. openFor' \in 0..ResetAfter
      BY <2>2, BreakerConstants DEF TypeOK
    <3> QED
      BY <2>1, <2>2, <3>1 DEF TypeOK
  <2>4. Cardinality(Recent') <= Cardinality(Recent) /\ Cardinality(Recent') \in Nat
        /\ Cardinality(Recent) \in Nat
    <3>1. IsFiniteSet(Recent) /\ Cardinality(Recent) \in Nat
      BY RecentCounts
    <3> QED
      BY <2>1, <3>1, FS_Subset, FS_CardinalityType
  <2>5. ClosedIsQuiet'
    BY <2>2, <2>4, BreakerConstants DEF ClosedIsQuiet
  <2> QED
    BY <2>2, <2>3, <2>5
<1>8. CASE UNCHANGED vars
  BY <1>8 DEF vars, TypeOK, ClosedIsQuiet, Recent
<1> QED
  BY <1>1, <1>2, <1>3, <1>4, <1>5, <1>6, <1>7, <1>8 DEF Next, SignalLoop

LEMMA BreakerInvariance == Spec => []BreakerInv
BY BreakerInit, BreakerNext, PTL DEF Spec

\* Type correctness.
THEOREM BreakerTyping == Spec => []TypeOK
BY BreakerInvariance, PTL DEF BreakerInv

\* While the breaker is closed fewer failures than the threshold are within the window
\* (circuit_breaker.py:44-58).
THEOREM NoBurstUnnoticed == Spec => []ClosedIsQuiet
BY BreakerInvariance, PTL DEF BreakerInv

\* What trips the breaker is a burst: failures that have left the window do not count.
THEOREM BurstsTrip == Spec => TripsOnBurst
<1>1. BreakerInv /\ [Next]_vars =>
        (state # "OPEN" /\ state' = "OPEN" => Cardinality(Recent') >= Threshold)
  BY BreakerNext
<1> QED
  BY <1>1, BreakerInvariance, PTL DEF Spec, TripsOnBurst

\* A report of a call does not move an open breaker.
LEMMA ReportsDoNotClose ==
  ASSUME state = "OPEN", RecordSuccess \/ RecordFailure
  PROVE  state' = "OPEN"
BY DEF RecordSuccess, RecordFailure

\* One step per actor that could set the breaker free.
LEMMA StrandedStep == Stranded /\ [Next]_vars => Stranded' \/ Restart
<1> SUFFICES ASSUME Stranded, [Next]_vars, ~Restart PROVE Stranded'
  OBVIOUS
<1> USE DEF Stranded
<1>1. ~Approve /\ ~CheckBreaker
  BY DEF Approve, Admits, CheckBreaker
<1>2. CASE Filled \/ Failed
  BY <1>2, ReportsDoNotClose DEF Filled, Failed
<1>3. CASE OtherCall
  BY <1>3, ReportsDoNotClose DEF OtherCall
<1>4. CASE Tick
  BY <1>4 DEF Tick
<1>5. CASE UNCHANGED vars
  BY <1>5 DEF vars
<1> QED
  BY <1>1, <1>2, <1>3, <1>4, <1>5 DEF Next, SignalLoop

\* Once open, with no approved order on its way, the breaker stays open until a restart: the
\* gate waits for the breaker (risk_engine/engine.py:918) and the breaker for an order
\* that passed the gate (engine.py:143).
THEOREM StrandedForGood == Spec => StrandedStays
<1>1. [Next]_vars => [Stranded => Stranded' \/ Restart]_vars
  BY StrandedStep
<1> QED
  BY <1>1, PTL DEF Spec, StrandedStays

----------------------------------------------------------------------------
(* The calendar *)

\* What a cache that is still valid lacks is too far away: its reach shrinks with its age.
CacheReaches ==
  cache.known /\ cache.left > 0 =>
    \A e \in Listed :
      -Halves(Kept) <= due[e] /\ due[e] <= Halves(Ahead) - Halves(Ttl) + cache.left
      => e \in cache.events

\* What the scan's snapshot lacks is, too: by at least a TTL when it was taken.
NewsReach ==
  where["scan"] = "holding" /\ news.known =>
    \A e \in Listed :
      -Halves(Kept) <= due[e] /\ due[e] <= Halves(Ahead) - Halves(Ttl) - news.age
      => e \in news.events

CalendarInv == CalendarTypeOK /\ CacheReaches /\ NewsReach

\* The constants as the arithmetic needs them.
LEMMA Windows ==
  /\ Ttl \in Nat /\ Ahead \in Nat /\ Kept \in Nat /\ Before \in Nat /\ After \in Nat
  /\ Soon \in Nat /\ MaxFetch \in Nat /\ MaxDelay \in Nat
  /\ High \subseteq Listed /\ Dates \subseteq [Listed -> Int]
  /\ Soon <= Before /\ After <= Kept /\ Before + MaxDelay + Ttl <= Ahead
BY CalendarAssumption DEF CalendarAssumption

\* Truncated to minutes, what is within a window of whole minutes stays within it.
LEMMA MinutesStayWithin ==
  ASSUME NEW d \in Int, NEW low \in Int, NEW high \in Nat, low <= 0,
         Halves(low) <= d, d <= Halves(high)
  PROVE  low <= Minutes(d) /\ Minutes(d) <= high
<1>1. CASE d >= 0
  <2>1. Minutes(d) = d \div 2
    BY <1>1 DEF Minutes
  <2> QED
    BY <1>1, <2>1 DEF Halves
<1>2. CASE d < 0
  <2>1. Minutes(d) = -((-d) \div 2)
    BY <1>2 DEF Minutes
  <2> QED
    BY <1>2, <2>1 DEF Halves
<1> QED
  BY <1>1, <1>2

\* What a fetch leaves of the TTL.
LEMMA RemainingType ==
  ASSUME CalendarTypeOK, NEW c \in Callers
  PROVE  Remaining(c) \in 0..Halves(Ttl)
<1>1. since[c] \in 0..Halves(MaxFetch)
  BY DEF CalendarTypeOK
<1> QED
  BY <1>1, Windows DEF Remaining, Halves

LEMMA NewsInit == CalendarInit => CalendarInv
<1> SUFFICES ASSUME CalendarInit PROVE CalendarInv
  OBVIOUS
<1>1. CalendarTypeOK
  BY Windows DEF CalendarInit, CalendarTypeOK, NoNews, Halves, Callers
<1>2. CacheReaches /\ NewsReach
  BY DEF CalendarInit, CacheReaches, NewsReach, NoNews
<1> QED
  BY <1>1, <1>2 DEF CalendarInv

\* A caller that receives events whose reach is known has them.
LEMMA ReceivesReach ==
  ASSUME CalendarTypeOK, NewsReach, NEW c \in Callers, NEW known \in BOOLEAN,
         NEW events \in SUBSET Listed, UNCHANGED due, Receives(c, known, events),
         known => \A e \in Listed :
           -Halves(Kept) <= due[e] /\ due[e] <= Halves(Ahead) - Halves(Ttl) => e \in events
  PROVE  /\ NewsReach'
         /\ where' \in [Callers -> {"idle", "fetching", "holding"}]
         /\ news' \in [known : BOOLEAN, events : SUBSET Listed, age : 0..Halves(MaxDelay)]
<1>1. where' \in [Callers -> {"idle", "fetching", "holding"}]
  BY DEF Receives, CalendarTypeOK
<1>2. CASE c = "scan"
  <2>1. news' = [known |-> known, events |-> IF known THEN Upcoming(events) ELSE {}, age |-> 0]
    BY <1>2 DEF Receives
  <2>2. Upcoming(events) \in SUBSET Listed
    BY DEF Upcoming
  <2>3. news' \in [known : BOOLEAN, events : SUBSET Listed, age : 0..Halves(MaxDelay)]
    <3>1. 0 \in 0..Halves(MaxDelay)
      BY Windows DEF Halves
    <3> QED
      BY <2>1, <2>2, <3>1
  <2>4. ASSUME news'.known, NEW e \in Listed, -Halves(Kept) <= due'[e],
               due'[e] <= Halves(Ahead) - Halves(Ttl) - news'.age
        PROVE  e \in news'.events
    <3>1. known /\ news'.events = Upcoming(events) /\ news'.age = 0
      BY <2>1, <2>4
    <3>2. due[e] \in Int /\ due'[e] = due[e]
      BY DEF CalendarTypeOK
    <3>3. due[e] <= Halves(Ahead) - Halves(Ttl) /\ due[e] <= Halves(Ahead)
      BY <2>4, <3>1, <3>2, Windows DEF Halves
    <3>4. e \in events
      BY <2>4, <3>1, <3>2, <3>3
    <3> QED
      BY <3>1, <3>3, <3>4 DEF Upcoming
  <2> QED
    BY <1>1, <2>3, <2>4 DEF NewsReach
<1>3. CASE c # "scan"
  <2>1. news' = news /\ where'["scan"] = where["scan"]
    BY <1>3 DEF Receives, CalendarTypeOK, Callers
  <2> QED
    BY <1>1, <2>1 DEF NewsReach, CalendarTypeOK
<1> QED
  BY <1>2, <1>3

\* The invariant is inductive.
LEMMA NewsNext == CalendarInv /\ [CalendarNext]_calendar => CalendarInv'
<1> SUFFICES ASSUME CalendarInv, [CalendarNext]_calendar PROVE CalendarInv'
  OBVIOUS
<1> USE DEF CalendarInv
<1>1. ASSUME NEW c \in Callers, Cached(c) PROVE CalendarInv'
  <2>1. \A e \in Listed :
          -Halves(Kept) <= due[e] /\ due[e] <= Halves(Ahead) - Halves(Ttl) /\ cache.known
          => e \in cache.events
    <3> TAKE e \in Listed
    <3>1. due[e] \in Int /\ cache.left \in Nat
      BY Windows DEF CalendarTypeOK, Halves
    <3> QED
      BY <1>1, <3>1, Windows DEF CacheReaches, Cached, Halves
  <2>2. cache.known \in BOOLEAN /\ cache.events \in SUBSET Listed
    BY DEF CalendarTypeOK
  <2>3. UNCHANGED <<due, cache, since, heard>> /\ verdict' = "none" /\ Receives(c, cache.known, cache.events)
    BY <1>1 DEF Cached
  <2>4. /\ NewsReach'
        /\ where' \in [Callers -> {"idle", "fetching", "holding"}]
        /\ news' \in [known : BOOLEAN, events : SUBSET Listed, age : 0..Halves(MaxDelay)]
    BY <2>1, <2>2, <2>3, ReceivesReach
  <2> QED
    BY <2>3, <2>4 DEF CalendarTypeOK, CacheReaches
<1>2. ASSUME NEW c \in Callers, Fetch(c) PROVE CalendarInv'
  <2>1. CalendarTypeOK'
    <3>1. 0 \in 0..Halves(MaxFetch)
      BY Windows DEF Halves
    <3> QED
      BY <1>2, <3>1 DEF Fetch, CalendarTypeOK
  <2>2. where'["scan"] = "holding" => where["scan"] = "holding"
    BY <1>2 DEF Fetch, CalendarTypeOK, Callers
  <2> QED
    BY <1>2, <2>1, <2>2 DEF Fetch, CacheReaches, NewsReach
<1>3. ASSUME NEW c \in Callers, FetchOk(c) PROVE CalendarInv'
  <2>1. UNCHANGED <<due, since>> /\ verdict' = "none" /\ Receives(c, TRUE, Fetched)
        /\ heard' = heard \cup Fetched
        /\ cache' = [known |-> TRUE, events |-> Fetched, left |-> Remaining(c)]
    BY <1>3 DEF FetchOk
  <2>2. Fetched \in SUBSET Listed
    BY DEF Fetched
  <2>3. Remaining(c) \in 0..Halves(Ttl)
    BY RemainingType
  <2>4. \A e \in Listed :
          -Halves(Kept) <= due[e] /\ due[e] <= Halves(Ahead) => e \in Fetched
    BY DEF Fetched
  <2>5. ASSUME NEW e \in Listed, NEW reach \in Int, reach <= Halves(Ahead),
               -Halves(Kept) <= due[e], due[e] <= reach
        PROVE  e \in Fetched
    <3>1. due[e] \in Int
      BY DEF CalendarTypeOK
    <3>2. due[e] <= Halves(Ahead)
      BY <2>5, <3>1, Windows DEF Halves
    <3> QED
      BY <2>4, <2>5, <3>2
  <2>6. /\ NewsReach'
        /\ where' \in [Callers -> {"idle", "fetching", "holding"}]
        /\ news' \in [known : BOOLEAN, events : SUBSET Listed, age : 0..Halves(MaxDelay)]
    <3>1. Halves(Ahead) - Halves(Ttl) \in Int /\ Halves(Ahead) - Halves(Ttl) <= Halves(Ahead)
      BY Windows DEF Halves
    <3>2. \A e \in Listed :
            -Halves(Kept) <= due[e] /\ due[e] <= Halves(Ahead) - Halves(Ttl) => e \in Fetched
      BY <2>5, <3>1
    <3> QED
      BY <2>1, <2>2, <3>2, ReceivesReach
  <2>7. CacheReaches'
    <3>1. Halves(Ahead) - Halves(Ttl) + Remaining(c) \in Int
          /\ Halves(Ahead) - Halves(Ttl) + Remaining(c) <= Halves(Ahead)
      BY <2>3, Windows DEF Halves
    <3>2. \A e \in Listed :
            -Halves(Kept) <= due[e] /\ due[e] <= Halves(Ahead) - Halves(Ttl) + Remaining(c)
            => e \in Fetched
      BY <2>5, <3>1
    <3> QED
      BY <2>1, <3>2 DEF CacheReaches
  <2>8. CalendarTypeOK'
    BY <2>1, <2>2, <2>3, <2>6 DEF CalendarTypeOK
  <2> QED
    BY <2>6, <2>7, <2>8
<1>4. ASSUME NEW c \in Callers, FetchFails(c) PROVE CalendarInv'
  <2>1. UNCHANGED <<due, since, heard>> /\ verdict' = "none" /\ Receives(c, FALSE, {})
        /\ cache' = [known |-> FALSE, events |-> {}, left |-> Remaining(c)]
    BY <1>4 DEF FetchFails
  <2>2. /\ NewsReach'
        /\ where' \in [Callers -> {"idle", "fetching", "holding"}]
        /\ news' \in [known : BOOLEAN, events : SUBSET Listed, age : 0..Halves(MaxDelay)]
    BY <2>1, ReceivesReach
  <2>3. Remaining(c) \in 0..Halves(Ttl)
    BY RemainingType
  <2> QED
    BY <2>1, <2>2, <2>3 DEF CalendarTypeOK, CacheReaches
<1>5. ASSUME CheckNews \/ NoProposal PROVE CalendarInv'
  <2>1. /\ where' = [where EXCEPT !["scan"] = "idle"] /\ news' = NoNews
        /\ UNCHANGED <<due, cache, since, heard>>
        /\ verdict' \in {"blocked", "clear", "none"}
    BY <1>5 DEF CheckNews, NoProposal
  <2>2. NoNews \in [known : BOOLEAN, events : SUBSET Listed, age : 0..Halves(MaxDelay)]
    BY Windows DEF NoNews, Halves
  <2>3. where'["scan"] = "idle"
    BY <2>1 DEF CalendarTypeOK, Callers
  <2> QED
    BY <2>1, <2>2, <2>3 DEF CalendarTypeOK, CacheReaches, NewsReach
<1>6. ASSUME Review PROVE CalendarInv'
  <2>1. /\ where' = [where EXCEPT !["monitor"] = "idle"]
        /\ UNCHANGED <<due, cache, since, news, heard>>
        /\ verdict' \in {"alerted", "kept"}
    BY <1>6 DEF Review
  <2>2. where'["scan"] = where["scan"]
    BY <2>1 DEF CalendarTypeOK, Callers
  <2> QED
    BY <2>1, <2>2 DEF CalendarTypeOK, CacheReaches, NewsReach
<1>7. ASSUME CalendarTick PROVE CalendarInv'
  <2>1. ASSUME NEW e \in Listed
        PROVE  /\ due[e] \in Int /\ due'[e] \in Int
               /\ -Halves(Kept) <= due'[e] => due[e] = due'[e] + 1
    <3>1. due[e] \in Int
      BY DEF CalendarTypeOK
    <3>2. due'[e] = IF due[e] < Over THEN due[e] ELSE due[e] - 1
      BY <1>7 DEF CalendarTick
    <3> QED
      BY <3>1, <3>2, Windows DEF Over, Halves
  <2>2. /\ cache' = [cache EXCEPT !.left = IF cache.left > 0 THEN cache.left - 1 ELSE 0]
        /\ UNCHANGED <<where, heard>> /\ verdict' = "none"
        /\ since' = [c \in Callers |-> IF where[c] = "fetching" THEN since[c] + 1 ELSE 0]
        /\ news' = IF where["scan"] = "holding" THEN [news EXCEPT !.age = news.age + 1] ELSE news
    BY <1>7 DEF CalendarTick
  <2>3. due' \in [Listed -> Int]
    <3>1. due' = [e \in Listed |-> IF due[e] < Over THEN due[e] ELSE due[e] - 1]
      BY <1>7 DEF CalendarTick
    <3> QED
      BY <2>1, <3>1
  <2>4. cache.left \in 0..Halves(Ttl) /\ cache'.left \in 0..Halves(Ttl)
        /\ cache'.left <= cache.left
        /\ cache'.known = cache.known /\ cache'.events = cache.events
        /\ (cache.left > 0 => cache'.left = cache.left - 1)
        /\ (cache.left = 0 => cache'.left = 0)
    <3>1. cache.left \in 0..Halves(Ttl)
      BY DEF CalendarTypeOK
    <3>2. /\ cache'.known = cache.known /\ cache'.events = cache.events
          /\ cache'.left = IF cache.left > 0 THEN cache.left - 1 ELSE 0
      BY <2>2 DEF CalendarTypeOK
    <3> QED
      BY <3>1, <3>2, Windows DEF Halves
  <2>5. cache' \in [known : BOOLEAN, events : SUBSET Listed, left : 0..Halves(Ttl)]
    BY <2>2, <2>4 DEF CalendarTypeOK
  <2>6. CacheReaches'
    <3> SUFFICES ASSUME cache'.known, cache'.left > 0, NEW e \in Listed,
                        -Halves(Kept) <= due'[e],
                        due'[e] <= Halves(Ahead) - Halves(Ttl) + cache'.left
                 PROVE  e \in cache'.events
      BY DEF CacheReaches
    <3>1. cache.left > 0 /\ cache'.left = cache.left - 1
      BY <2>4, Windows DEF Halves
    <3>2. -Halves(Kept) <= due[e] /\ due[e] <= Halves(Ahead) - Halves(Ttl) + cache.left
      BY <2>1, <2>4, <3>1, Windows DEF Halves
    <3> QED
      BY <2>4, <3>1, <3>2 DEF CacheReaches
  <2>7. news' \in [known : BOOLEAN, events : SUBSET Listed, age : 0..Halves(MaxDelay)] /\ NewsReach'
    <3>1. CASE where["scan"] = "holding"
      <4>1. news.age \in 0..Halves(MaxDelay) /\ news.age < Halves(MaxDelay)
        BY <1>7, <3>1 DEF CalendarTick, CalendarTypeOK
      <4>2. /\ news'.known = news.known /\ news'.events = news.events
            /\ news'.age = news.age + 1
            /\ news' = [news EXCEPT !.age = news.age + 1]
        BY <2>2, <3>1 DEF CalendarTypeOK
      <4>3. news' \in [known : BOOLEAN, events : SUBSET Listed, age : 0..Halves(MaxDelay)]
        <5>1. news.age + 1 \in 0..Halves(MaxDelay)
          BY <4>1, Windows DEF Halves
        <5> QED
          BY <4>2, <5>1 DEF CalendarTypeOK
      <4>4. ASSUME news'.known, NEW e \in Listed, -Halves(Kept) <= due'[e],
                   due'[e] <= Halves(Ahead) - Halves(Ttl) - news'.age
            PROVE  e \in news'.events
        <5>1. -Halves(Kept) <= due[e] /\ due[e] <= Halves(Ahead) - Halves(Ttl) - news.age
          BY <2>1, <4>1, <4>2, <4>4, Windows DEF Halves
        <5> QED
          BY <3>1, <4>2, <4>4, <5>1 DEF NewsReach
      <4> QED
        BY <4>3, <4>4 DEF NewsReach
    <3>2. CASE where["scan"] # "holding"
      BY <2>2, <3>2 DEF NewsReach, CalendarTypeOK
    <3> QED
      BY <3>1, <3>2
  <2>8. since' \in [Callers -> 0..Halves(MaxFetch)]
    <3>1. ASSUME NEW c \in Callers
          PROVE  (IF where[c] = "fetching" THEN since[c] + 1 ELSE 0) \in 0..Halves(MaxFetch)
      <4>1. since[c] \in 0..Halves(MaxFetch)
        BY DEF CalendarTypeOK
      <4>2. where[c] = "fetching" => since[c] < Halves(MaxFetch)
        BY <1>7 DEF CalendarTick
      <4> QED
        BY <4>1, <4>2, Windows DEF Halves
    <3> QED
      BY <2>2, <3>1
  <2>9. CalendarTypeOK'
    BY <2>2, <2>3, <2>5, <2>7, <2>8 DEF CalendarTypeOK
  <2> QED
    BY <2>6, <2>7, <2>9
<1>8. ASSUME UNCHANGED calendar PROVE CalendarInv'
  BY <1>8 DEF calendar, CalendarTypeOK, CacheReaches, NewsReach
<1> QED
  BY <1>1, <1>2, <1>3, <1>4, <1>5, <1>6, <1>7, <1>8 DEF CalendarNext

\* Within its blackout an event is in reach of the scan's snapshot, and blocks.
LEMMA BlackoutBlocks ==
  ASSUME CalendarInv, where["scan"] = "holding", news.known, NEW e \in Listed, InBlackout(e)
  PROVE  e \in news.events /\ Blocks(e)
<1>1. due[e] \in Int /\ news.age \in 0..Halves(MaxDelay)
  BY DEF CalendarInv, CalendarTypeOK
<1>2. CASE e \in High
  <2>1. -Halves(After) <= due[e] /\ due[e] <= Halves(Before)
    BY <1>2 DEF InBlackout
  <2>2. -Halves(Kept) <= due[e] /\ due[e] <= Halves(Ahead) - Halves(Ttl) - news.age
    BY <1>1, <2>1, Windows DEF Halves
  <2>3. e \in news.events
    BY <2>2 DEF CalendarInv, NewsReach
  <2>4. -After \in Int /\ -After <= 0 /\ Halves(-After) <= due[e]
    BY <1>1, <2>1, Windows DEF Halves
  <2>5. -After <= Minutes(due[e]) /\ Minutes(due[e]) <= Before
    BY <1>1, <2>1, <2>4, Windows, MinutesStayWithin
  <2> QED
    BY <1>2, <2>3, <2>5 DEF Blocks
<1>3. CASE e \notin High
  <2>1. 0 <= due[e] /\ due[e] <= Halves(Soon)
    BY <1>3 DEF InBlackout
  <2>2. -Halves(Kept) <= due[e] /\ due[e] <= Halves(Ahead) - Halves(Ttl) - news.age
    BY <1>1, <2>1, Windows DEF Halves
  <2>3. e \in news.events
    BY <2>2 DEF CalendarInv, NewsReach
  <2>4. Halves(0) <= due[e]
    BY <2>1 DEF Halves
  <2>5. 0 <= Minutes(due[e]) /\ Minutes(due[e]) <= Soon
    BY <1>1, <2>1, <2>4, Windows, MinutesStayWithin
  <2> QED
    BY <1>3, <2>3, <2>5 DEF Blocks
<1> QED
  BY <1>2, <1>3

\* Type correctness, and the reach of cache and snapshot.
THEOREM Reaching == CalendarSpec => []CalendarInv
BY NewsInit, NewsNext, PTL DEF CalendarSpec

\* Type correctness of cache, callers and snapshot.
THEOREM CalendarTyping == CalendarSpec => []CalendarTypeOK
BY Reaching, PTL DEF CalendarInv

\* No proposal made with the calendar at hand passes the news check within the blackout of
\* any event of the feed (calendar.py:62-91, calendar_guard.py:66-108).
THEOREM NewsIsRespected == CalendarSpec => NewsRespected
<1>1. CalendarInv =>
        (CheckNews /\ news.known /\ (\E e \in Listed : InBlackout(e)) => verdict' = "blocked")
  <2> SUFFICES ASSUME CalendarInv, CheckNews, news.known, NEW e \in Listed, InBlackout(e)
               PROVE  verdict' = "blocked"
    OBVIOUS
  <2>1. e \in news.events /\ Blocks(e)
    BY BlackoutBlocks DEF CheckNews
  <2>2. \A window \in BOOLEAN : IsBlackout(window)
    BY <2>1 DEF IsBlackout
  <2> QED
    BY <2>2 DEF CheckNews
<1> QED
  BY <1>1, Reaching, PTL DEF NewsRespected

----------------------------------------------------------------------------
(* The price feed *)

\* Spikes are counted: a refusal belongs to a run of them, an acceptance ends it; and the
\* stream is given up with its last failure.
PriceFeedInv ==
  /\ PriceFeedTypeOK
  /\ fallback \/ streamFailures < MaxStreamFailures
  /\ spiking <=> spikes > 0

\* The constants as the arithmetic needs them.
LEMMA FeedConstants ==
  /\ MaxLen \in Nat \ {0} /\ ResetThreshold \in Nat \ {0} /\ MaxStreamFailures \in Nat \ {0}
  /\ MaxMoves \in Nat
BY PriceFeedAssumption DEF PriceFeedAssumption

\* The memory grows to MaxLen at most.
LEMMA MemoryIsBounded ==
  ASSUME PriceFeedTypeOK, NEW p \in Prices
  PROVE  Remembered(p) \in Seq(Prices) /\ Len(Remembered(p)) <= MaxLen
<1> DEFINE longer == Append(memory, p)
<1>1. memory \in Seq(Prices) /\ Len(memory) <= MaxLen /\ Len(memory) \in Nat
  BY DEF PriceFeedTypeOK
<1>2. longer \in Seq(Prices) /\ longer # <<>> /\ Len(longer) = Len(memory) + 1
  BY <1>1, AppendProperties
<1>3. Tail(longer) \in Seq(Prices) /\ Len(Tail(longer)) = Len(longer) - 1
  BY <1>2, HeadTailProperties
<1>4. Remembered(p) = IF Len(longer) > MaxLen THEN Tail(longer) ELSE longer
  BY DEF Remembered
<1> HIDE DEF longer
<1>5. CASE Len(longer) > MaxLen
  BY <1>1, <1>2, <1>3, <1>4, <1>5, FeedConstants
<1>6. CASE ~(Len(longer) > MaxLen)
  BY <1>1, <1>2, <1>4, <1>6, FeedConstants
<1> QED
  BY <1>5, <1>6

\* A tick is refused and counted, or ends the run of refusals.
LEMMA ValidationCounts ==
  ASSUME PriceFeedInv, NEW p \in Prices, Validate(p)
  PROVE  /\ memory' \in Seq(Prices) /\ Len(memory') <= MaxLen
         /\ spikes' \in 0..ResetThreshold - 1 /\ spiking' \in BOOLEAN
         /\ IF spiking' THEN spikes' = spikes + 1 ELSE spikes' = 0
<1> USE DEF PriceFeedInv
<1>1. /\ memory \in Seq(Prices) /\ Len(memory) <= MaxLen /\ spikes \in 0..ResetThreshold - 1
  BY DEF PriceFeedTypeOK
<1>2. CASE IsSpike(p)
  <2>1. Outlier
    BY <1>2 DEF Validate
  <2>2. CASE spikes + 1 < ResetThreshold
    <3>1. spikes' = spikes + 1 /\ memory' = memory /\ spiking' = TRUE
      BY <2>1, <2>2 DEF Outlier
    <3> QED
      BY <1>1, <2>2, <3>1, FeedConstants
  <2>3. CASE ~(spikes + 1 < ResetThreshold)
    <3>1. spikes' = 0 /\ memory' = <<>> /\ spiking' = FALSE
      BY <2>1, <2>3 DEF Outlier
    <3>2. memory' \in Seq(Prices) /\ Len(memory') = 0
      BY <3>1
    <3>3. 0 <= MaxLen /\ 0 \in 0..ResetThreshold - 1
      BY FeedConstants
    <3> QED
      BY <3>1, <3>2, <3>3
  <2> QED
    BY <2>2, <2>3
<1>3. CASE ~IsSpike(p)
  <2>1. memory' = Remembered(p) /\ spikes' = 0 /\ spiking' = FALSE
    BY <1>3 DEF Validate
  <2>2. memory' \in Seq(Prices) /\ Len(memory') <= MaxLen
    BY <2>1, MemoryIsBounded
  <2>3. 0 \in 0..ResetThreshold - 1
    BY FeedConstants
  <2> QED
    BY <2>1, <2>2, <2>3
<1> QED
  BY <1>2, <1>3

LEMMA FeedInit == PriceFeedInit => PriceFeedInv
<1> SUFFICES ASSUME PriceFeedInit PROVE PriceFeedInv
  OBVIOUS
<1>1. memory \in Seq(Prices) /\ Len(memory) = 0
  BY DEF PriceFeedInit
<1>2. spikes = 0 /\ spiking = FALSE /\ fallback = FALSE /\ streamFailures = 0
  BY DEF PriceFeedInit
<1>3. /\ Len(memory) <= MaxLen /\ 0 \in 0..ResetThreshold - 1
      /\ 0 \in 0..MaxStreamFailures /\ 0 \in 0..MaxMoves
  BY <1>1, FeedConstants
<1>4. PriceFeedTypeOK
  BY <1>1, <1>2, <1>3 DEF PriceFeedInit, PriceFeedTypeOK
<1> QED
  BY <1>2, <1>4, FeedConstants DEF PriceFeedInv

LEMMA ArrivalInv ==
  ASSUME PriceFeedInv, Arrives, UNCHANGED streamFailures \/ streamFailures' = 0
  PROVE  PriceFeedInv'
<1> USE DEF PriceFeedInv, PriceFeedTypeOK
<1>1. /\ memory' \in Seq(Prices) /\ Len(memory') <= MaxLen
      /\ spikes' \in 0..ResetThreshold - 1 /\ spiking' \in BOOLEAN
      /\ IF spiking' THEN spikes' = spikes + 1 ELSE spikes' = 0
  BY ValidationCounts DEF Arrives
<1>2. latest' \in PriceTick
  BY DEF Arrives, PriceTick
<1> QED
  BY <1>1, <1>2, FeedConstants DEF Arrives

LEMMA FeedNext == PriceFeedInv /\ [PriceFeedNext]_prices => PriceFeedInv'
<1> SUFFICES ASSUME PriceFeedInv, [PriceFeedNext]_prices PROVE PriceFeedInv'
  OBVIOUS
<1> USE DEF PriceFeedInv
<1>1. CASE StreamTick \/ RestTick
  BY <1>1, ArrivalInv DEF StreamTick, RestTick
<1>2. CASE StreamBreaks
  <2>1. streamFailures \in Nat /\ streamFailures < MaxStreamFailures
    BY <1>2, FeedConstants DEF StreamBreaks, PriceFeedTypeOK
  <2>2. streamFailures' = streamFailures + 1
    BY <1>2 DEF StreamBreaks
  <2>3. streamFailures' \in 0..MaxStreamFailures
    BY <2>1, <2>2, FeedConstants
  <2>4. fallback' \in BOOLEAN /\ (fallback' \/ streamFailures' < MaxStreamFailures)
    <3>1. fallback' <=> streamFailures' >= MaxStreamFailures
      BY <1>2 DEF StreamBreaks
    <3>2. fallback' \in BOOLEAN
      BY <1>2 DEF StreamBreaks
    <3> QED
      BY <2>3, <3>1, <3>2, FeedConstants
  <2>5. UNCHANGED <<level, moves, latest, memory, spikes, spiking, snapshot>>
    BY <1>2 DEF StreamBreaks
  <2> QED
    BY <2>3, <2>4, <2>5 DEF PriceFeedTypeOK
<1>3. CASE Ages
  BY <1>3 DEF Ages, PriceFeedTypeOK, PriceTick
<1>4. CASE Move
  BY <1>4, FeedConstants DEF Move, PriceFeedTypeOK
<1>5. CASE Snapshot
  <2>1. Quote \in Prices
    BY DEF Quote, UsesLast, PriceFeedTypeOK, PriceTick
  <2>2. /\ memory' \in Seq(Prices) /\ Len(memory') <= MaxLen
        /\ spikes' \in 0..ResetThreshold - 1 /\ spiking' \in BOOLEAN
        /\ IF spiking' THEN spikes' = spikes + 1 ELSE spikes' = 0
    BY <1>5, <2>1, ValidationCounts DEF Snapshot
  <2>3. snapshot' \in {"none", "tradeable", "refused"}
    BY <1>5 DEF Snapshot, Assembled, CandlesMissing
  <2> QED
    BY <1>5, <2>2, <2>3, FeedConstants DEF Snapshot, PriceFeedTypeOK
<1>6. CASE NoSnapshot
  BY <1>6 DEF NoSnapshot, PriceFeedTypeOK
<1>7. CASE UNCHANGED prices
  BY <1>7 DEF prices, PriceFeedTypeOK
<1> QED
  BY <1>1, <1>2, <1>3, <1>4, <1>5, <1>6, <1>7 DEF PriceFeedNext

LEMMA FeedInvariance == PriceFeedSpec => []PriceFeedInv
BY FeedInit, FeedNext, PTL DEF PriceFeedSpec

\* Type correctness: the memory never outgrows its deque, whatever is remembered and emptied.
THEOREM PriceFeedTyping == PriceFeedSpec => []PriceFeedTypeOK
BY FeedInvariance, PTL DEF PriceFeedInv

\* The steps that judge a price: a tick of the stream or of REST, a snapshot.
Judges == StreamTick \/ RestTick \/ Snapshot

\* A refusal is counted, below the threshold; an acceptance ends the count.
Counts == IF spiking' THEN spikes' = spikes + 1 /\ spikes' < ResetThreshold ELSE spikes' = 0

\* Of ResetThreshold prices judged in a row, by the stream and the snapshots between them,
\* one is accepted: each refusal is counted, and the count stays below the threshold
\* (validator.py:58-77).  It is the safety half of SpikesEnd.
THEOREM RefusalsAreCounted == PriceFeedSpec => [][Judges => Counts]_prices
<1>1. PriceFeedInv => (Judges => Counts)
  <2> SUFFICES ASSUME PriceFeedInv, Judges PROVE Counts
    OBVIOUS
  <2>1. level \in Prices /\ Quote \in Prices
    BY DEF PriceFeedInv, Quote, UsesLast, PriceFeedTypeOK, PriceTick
  <2>2. Validate(level) \/ Validate(Quote)
    BY DEF Judges, StreamTick, RestTick, Arrives, Snapshot
  <2>3. /\ spikes' \in 0..ResetThreshold - 1 /\ spiking' \in BOOLEAN
        /\ IF spiking' THEN spikes' = spikes + 1 ELSE spikes' = 0
    BY <2>1, <2>2, ValidationCounts
  <2>4. spikes' < ResetThreshold
    BY <2>3, FeedConstants
  <2> QED
    BY <2>3, <2>4 DEF Counts
<1> QED
  BY <1>1, FeedInvariance, PTL

----------------------------------------------------------------------------
(* The vital signs *)

\* How long the watchdog may be silent about a hanging persist loop: n rounds, each with a
\* reconciliation.
Rounds(n) == n * (1 + MaxReconcile)

\* The next check comes in time, and the engine has been up for as long as it was silent,
\* as far as that makes a difference.
StallInv ==
  engine = "up" =>
    /\ saved <= uptime \/ uptime = Beat
    /\ told \/ saved + check <= Beat + Rounds(1 + lost)

\* Since an engine died, the row was touched by nobody but the operator; a report is of now.
DeadInv ==
  /\ engine = "dead" => dead <= touched \/ poked <= touched
  /\ report = "ok" => touched <= HealthStale

VitalsInv == VitalsTypeOK /\ StallInv /\ DeadInv

\* The constants as the arithmetic needs them.
LEMMA VitalsConstants ==
  /\ Stale \in Nat /\ Beat \in Nat /\ HealthStale \in Nat /\ MaxReconcile \in Nat /\ MaxLost \in Nat
  /\ Renewal \in Nat \ {0} /\ ReconcileEvery \in Nat \ {0}
BY VitalsAssumption DEF VitalsAssumption

\* A lost alert costs one round more.
LEMMA RoundsGrow ==
  ASSUME NEW n \in Nat
  PROVE  /\ Rounds(n) \in Nat /\ Rounds(n + 1) = Rounds(n) + 1 + MaxReconcile
         /\ 1 + MaxReconcile <= Rounds(1 + n)
<1>1. Rounds(n) \in Nat
  BY VitalsConstants DEF Rounds
<1>2. Rounds(n + 1) = Rounds(n) + 1 + MaxReconcile
  BY VitalsConstants DEF Rounds
<1> QED
  BY <1>1, <1>2, VitalsConstants

LEMMA LongestAreTimes == LongestSilence \in Nat /\ LongestAge \in Nat
<1>1. LongestSilence = Beat + Stale + Rounds(1 + MaxLost) + 1
  BY DEF LongestSilence, Rounds
<1>2. Rounds(1 + MaxLost) \in Nat
  BY RoundsGrow, VitalsConstants
<1> QED
  BY <1>1, <1>2, VitalsConstants DEF LongestAge

\* Time is counted up to where it makes no difference.
LEMMA LaterIs ==
  ASSUME NEW longest \in Nat, NEW t \in 0..longest
  PROVE  /\ Later(t, longest) \in 0..longest /\ Later(t, longest) <= t + 1
         /\ Later(t, longest) >= t /\ (Later(t, longest) = longest \/ Later(t, longest) = t + 1)
BY DEF Later

LEMMA VitalsStart == VitalsInit => VitalsInv
<1> SUFFICES ASSUME VitalsInit PROVE VitalsInv
  OBVIOUS
<1>1. Rounds(1 + 0) \in Nat /\ 1 + MaxReconcile <= Rounds(1 + 0)
  BY RoundsGrow
<1>2. VitalsTypeOK
  <2>1. alerted \in BOOLEAN /\ told \in BOOLEAN
    BY DEF VitalsInit
  <2> QED
    BY <2>1, LongestAreTimes, VitalsConstants DEF VitalsInit, VitalsTypeOK
<1>3. StallInv
  BY <1>1, VitalsConstants DEF VitalsInit, StallInv
<1> QED
  BY <1>2, <1>3 DEF VitalsInit, VitalsInv, DeadInv

\* The watchdog's round: whatever it sends arrives or is lost.
LEMMA ChecksInv == VitalsInv /\ WatchdogChecks => VitalsInv'
<1> SUFFICES ASSUME VitalsInv, WatchdogChecks PROVE VitalsInv'
  OBVIOUS
<1> USE VitalsConstants
<1>1. VitalsTypeOK /\ lost \in Nat /\ saved \in Nat /\ uptime \in 0..Beat
  BY LongestAreTimes DEF VitalsInv, VitalsTypeOK
<1>2. check' \in 1..1 + MaxReconcile /\ reconciled' \in 0..ReconcileEvery /\ stales' \in 0..4
  BY <1>1 DEF WatchdogChecks, VitalsTypeOK
<1>3. /\ lost' \in 0..MaxLost /\ told' \in BOOLEAN
      /\ \/ told' = told /\ lost' = lost
         \/ told'
         \/ lost' = lost + 1
  <2>1. \/ told' = told /\ lost' = lost
        \/ told' = TRUE /\ lost' = lost
        \/ lost < MaxLost /\ lost' = lost + 1 /\ told' = told
    BY DEF WatchdogChecks, Alert
  <2>2. lost' \in 0..MaxLost
    BY <1>1, <2>1 DEF VitalsTypeOK
  <2>3. told' \in BOOLEAN
    BY <1>1, <2>1 DEF VitalsTypeOK
  <2> QED
    BY <2>1, <2>2, <2>3
<1>4. alerted' \in BOOLEAN
  BY <1>1 DEF WatchdogChecks, VitalsTypeOK
<1>5. VitalsTypeOK'
  BY <1>1, <1>2, <1>3, <1>4 DEF WatchdogChecks, VitalsTypeOK
<1>6. /\ Rounds(1 + lost) \in Nat /\ 1 + MaxReconcile <= Rounds(1 + lost)
      /\ Rounds((1 + lost) + 1) = Rounds(1 + lost) + 1 + MaxReconcile
      /\ engine = "up" /\ saved' = saved /\ uptime' = uptime
  <2>1. 1 + lost \in Nat
    BY <1>1
  <2> QED
    BY <1>1, <2>1, RoundsGrow DEF WatchdogChecks
<1>7. told' \/ saved' + check' <= Beat + Rounds(1 + lost')
  <2>1. CASE told'
    BY <2>1
  <2>2. CASE ~told' /\ saved <= Beat
    <3>1. Rounds(1 + lost') >= 1 + MaxReconcile
      BY <1>3, RoundsGrow
    <3>2. Rounds(1 + lost') \in Nat
      BY <1>3, RoundsGrow
    <3> QED
      BY <1>1, <1>2, <1>6, <2>2, <3>1, <3>2
  <2>3. CASE ~told' /\ saved > Beat
    <3>1. uptime = Beat
      BY <1>1, <1>6, <2>3 DEF VitalsInv, StallInv
    <3>2. SendsHeartbeat
      BY <2>3, <3>1, <1>1 DEF SendsHeartbeat, Silent
    <3>3. lost' = lost + 1 /\ ~told
      BY <2>3, <3>2 DEF WatchdogChecks, Alert
    <3>4. told \/ saved + 0 <= Beat + Rounds(1 + lost)
      BY <1>6 DEF VitalsInv, StallInv, WatchdogChecks
    <3>5. 1 + lost' = (1 + lost) + 1
      BY <1>1, <3>3
    <3>6. Rounds(1 + lost') = Rounds(1 + lost) + 1 + MaxReconcile
      BY <1>6, <3>5
    <3>7. saved <= Beat + Rounds(1 + lost)
      BY <1>1, <1>6, <3>3, <3>4
    <3> QED
      BY <1>1, <1>2, <1>6, <3>6, <3>7
  <2> QED
    BY <1>1, <2>1, <2>2, <2>3
<1>8. StallInv'
  BY <1>6, <1>7 DEF VitalsInv, StallInv, WatchdogChecks
<1> QED
  BY <1>5, <1>6, <1>8 DEF WatchdogChecks, VitalsInv, DeadInv

LEMMA TimeInv == VitalsInv /\ VitalsTick => VitalsInv'
<1> SUFFICES ASSUME VitalsInv, VitalsTick PROVE VitalsInv'
  OBVIOUS
<1> USE VitalsConstants
<1>1. VitalsTypeOK /\ LongestSilence \in Nat /\ LongestAge \in Nat
  BY LongestAreTimes DEF VitalsInv
<1>2. /\ saved' \in 0..LongestSilence /\ saved' <= saved + 1 /\ saved \in Nat
      /\ uptime' \in 0..Beat /\ (uptime' = Beat \/ uptime' = uptime + 1) /\ uptime \in 0..Beat
  BY <1>1, LaterIs DEF VitalsTick, VitalsTypeOK
<1>3. /\ touched \in 0..LongestAge /\ poked \in 0..LongestAge /\ dead \in 0..LongestAge
      /\ touched' = Later(touched, LongestAge) /\ poked' = Later(poked, LongestAge)
      /\ engine = "dead" => dead' = Later(dead, LongestAge)
  BY <1>1 DEF VitalsTick, VitalsTypeOK
<1>4. /\ touched' \in 0..LongestAge /\ poked' \in 0..LongestAge
      /\ Later(dead, LongestAge) \in 0..LongestAge
  BY <1>1, <1>3, LaterIs
<1>5. VitalsTypeOK'
  <2>1. /\ renewal' \in 0..Renewal /\ check' \in 0..1 + MaxReconcile
        /\ reconciled' \in 0..ReconcileEvery /\ dead' \in 0..LongestAge
    BY <1>1, <1>3, <1>4 DEF VitalsTick, VitalsTypeOK
  <2> QED
    BY <1>1, <1>2, <1>4, <2>1 DEF VitalsTick, VitalsTypeOK
<1>6. StallInv'
  <2>1. SUFFICES ASSUME engine = "up"
                 PROVE  /\ saved' <= uptime' \/ uptime' = Beat
                        /\ told \/ saved' + check' <= Beat + Rounds(1 + lost)
    BY DEF StallInv, VitalsTick
  <2>2. /\ saved <= uptime \/ uptime = Beat
        /\ told \/ saved + check <= Beat + Rounds(1 + lost)
    BY <2>1 DEF VitalsInv, StallInv
  <2>3. check' = check - 1 /\ check \in Nat
    BY <1>1, <2>1 DEF VitalsTick, VitalsTypeOK
  <2>4. Rounds(1 + lost) \in Nat
    BY <1>1, RoundsGrow DEF VitalsTypeOK
  <2> QED
    BY <1>2, <2>2, <2>3, <2>4
<1>7. DeadInv'
  BY <1>3 DEF VitalsInv, DeadInv, VitalsTick, Later
<1> QED
  BY <1>5, <1>6, <1>7 DEF VitalsInv

LEMMA VitalsStep == VitalsInv /\ [VitalsNext]_vitals => VitalsInv'
<1> SUFFICES ASSUME VitalsInv, [VitalsNext]_vitals PROVE VitalsInv'
  OBVIOUS
<1> USE VitalsConstants
<1>0. VitalsTypeOK /\ lost \in Nat /\ 1 + lost \in Nat
  BY DEF VitalsInv, VitalsTypeOK
<1>1. /\ VitalsTypeOK /\ LongestSilence \in Nat /\ LongestAge \in Nat
      /\ Rounds(1 + lost) \in Nat /\ 1 + MaxReconcile <= Rounds(1 + lost)
  BY <1>0, LongestAreTimes, RoundsGrow
<1>2. CASE Save
  <2>1. VitalsTypeOK'
    <3>1. alerted' \in BOOLEAN /\ told' \in BOOLEAN
      BY <1>1, <1>2 DEF Save, VitalsTypeOK, watchdog
    <3> QED
      BY <1>1, <1>2, <3>1 DEF Save, VitalsTypeOK, watchdog
  <2>2. StallInv'
    BY <1>1, <1>2 DEF Save, VitalsInv, VitalsTypeOK, StallInv, watchdog
  <2> QED
    BY <1>2, <2>1, <2>2 DEF Save, VitalsInv, DeadInv
<1>3. CASE Hang
  BY <1>1, <1>3 DEF Hang, VitalsInv, VitalsTypeOK, StallInv, DeadInv, watchdog
<1>4. CASE StreamEnds
  BY <1>1, <1>4 DEF StreamEnds, VitalsInv, VitalsTypeOK, StallInv, DeadInv, watchdog
<1>5. CASE RenewLock
  BY <1>1, <1>5 DEF RenewLock, VitalsInv, VitalsTypeOK, StallInv, DeadInv, watchdog
<1>6. CASE WatchdogChecks
  BY <1>6, ChecksInv
<1>7. CASE Die
  BY <1>1, <1>7 DEF Die, VitalsInv, VitalsTypeOK, StallInv, DeadInv, watchdog
<1>8. CASE Start
  <2>1. VitalsTypeOK'
    <3>1. alerted' \in BOOLEAN /\ told' \in BOOLEAN
      BY <1>8 DEF Start
    <3> QED
      BY <1>1, <1>8, <3>1 DEF Start, VitalsTypeOK
  <2> QED
    BY <1>1, <1>8, <2>1 DEF Start, VitalsInv, StallInv, DeadInv
<1>9. CASE OperatorWrites
  BY <1>1, <1>9 DEF OperatorWrites, VitalsInv, VitalsTypeOK, StallInv, DeadInv, watchdog
<1>10. CASE Health
  BY <1>1, <1>10 DEF Health, StateStatus, VitalsInv, VitalsTypeOK, StallInv, DeadInv, watchdog
<1>11. CASE VitalsTick
  BY <1>11, TimeInv
<1>12. CASE UNCHANGED vitals
  BY <1>12 DEF vitals, watchdog, VitalsInv, VitalsTypeOK, StallInv, DeadInv
<1> QED
  BY <1>2, <1>3, <1>4, <1>5, <1>6, <1>7, <1>8, <1>9, <1>10, <1>11, <1>12 DEF VitalsNext

LEMMA VitalsInvariance == VitalsSpec => []VitalsInv
BY VitalsStart, VitalsStep, PTL DEF VitalsSpec

\* Type correctness, for any thresholds, intervals and bounds.
THEOREM VitalsTyping == VitalsSpec => []VitalsTypeOK
BY VitalsInvariance, PTL DEF VitalsInv

\* A persist loop that hangs is told of, for any thresholds, lengths of the watchdog's
\* reconciliation, and numbers of lost alerts.
THEOREM StallsAreTold == VitalsSpec => []StallIsTold
<1>1. VitalsInv => StallIsTold
  <2> SUFFICES ASSUME VitalsInv, engine = "up", ~told
               PROVE  saved <= Beat + (1 + lost) * (1 + MaxReconcile)
    BY DEF StallIsTold
  <2>1. saved + check <= Beat + Rounds(1 + lost) /\ saved \in Nat /\ check \in Nat
    BY LongestAreTimes, VitalsConstants DEF VitalsInv, StallInv, VitalsTypeOK
  <2>2. Rounds(1 + lost) \in Nat
    BY RoundsGrow, VitalsConstants DEF VitalsInv, VitalsTypeOK
  <2> QED
    BY <2>1, <2>2, VitalsConstants DEF Rounds
<1> QED
  BY <1>1, VitalsInvariance, PTL

\* A dead engine is reported, whenever it died and whatever the lock's renewals wrote before.
THEOREM DeadEnginesAreReported == VitalsSpec => []DeadIsReported
<1>1. VitalsInv => DeadIsReported
  BY LongestAreTimes, VitalsConstants DEF VitalsInv, VitalsTypeOK, DeadInv, DeadIsReported
<1> QED
  BY <1>1, VitalsInvariance, PTL
================================================================================
