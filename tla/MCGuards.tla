-------------------------------- MODULE MCGuards ------------------------------
(***************************************************************************)
(* Instances of CircuitBreaker, Calendar, PriceFeed and Vitals for TLC.  The *)
(* four share no variable, so a property of one depends on its own steps     *)
(* alone: a behaviour exercises one part and leaves the others where they    *)
(* start.                                                                    *)
(***************************************************************************)
EXTENDS CircuitBreaker, Calendar, PriceFeed, Vitals

\* One event of each impact, in every order and distance: the later one is as far off as can
\* be, the other anywhere before it.
Farthest == 10
Times == {d \in [Listed -> -1..Farthest] : \E e \in Listed : d[e] = Farthest}

VARIABLE part
guards == <<vars, calendar, prices, vitals, part>>

GuardsInit ==
  /\ part \in {"breaker", "calendar", "prices", "vitals"}
  /\ Init /\ CalendarInit /\ PriceFeedInit /\ VitalsInit
  /\ part # "calendar" => \A e \in Listed : due[e] = Farthest
  /\ part # "prices" => level = 0

GuardsNext ==
  /\ UNCHANGED part
  /\ \/ part = "breaker" /\ Next /\ UNCHANGED <<calendar, prices, vitals>>
     \/ part = "calendar" /\ CalendarNext /\ UNCHANGED <<vars, prices, vitals>>
     \/ part = "prices" /\ PriceFeedNext /\ UNCHANGED <<vars, calendar, vitals>>
     \/ part = "vitals" /\ VitalsNext /\ UNCHANGED <<vars, calendar, prices>>

GuardsSpec ==
  /\ GuardsInit /\ [][GuardsNext]_guards
  /\ part = "breaker" => Fairness
  /\ part = "prices" => PriceFeedFairness

GuardsTypeOK == TypeOK /\ CalendarTypeOK /\ PriceFeedTypeOK /\ VitalsTypeOK

================================================================================
