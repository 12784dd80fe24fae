------------------------------- MODULE Calendar -------------------------------
(***************************************************************************)
(* The economic calendar, from the feed through the cache and the snapshot   *)
(* of a scan to the news check of the risk engine.                           *)
(*                                                                           *)
(* Time goes in half minutes: whole and broken minutes differ where the      *)
(* guard truncates.  Two activities take snapshots and share the cache, the  *)
(* signal loop and the risk monitor.  Events are those of the currencies of  *)
(* one pair: an event of any other is filtered out twice and blocks nothing. *)
(***************************************************************************)
EXTENDS Integers, FiniteSets

CONSTANTS
  Listed, High,         \* the feed's events of high and medium impact; those of high impact
  Dates,                \* when they may be due at the start
  Ttl, Ahead, Kept,     \* CACHE_TTL_SECONDS, the 4 hours ahead, the 15 minutes past, in minutes
  Before, After, Soon,  \* HIGH blocks Before minutes ahead to After past, MEDIUM Soon ahead
  MaxFetch, MaxDelay    \* minutes: REQUEST_TIMEOUT_SECONDS; from a snapshot to the risk engine

Halves(minutes) == 2 * minutes

ASSUME CalendarAssumption ==
  /\ {Ttl, Ahead, Kept, Before, After, Soon, MaxFetch, MaxDelay} \subseteq Nat
  /\ High \subseteq Listed /\ Dates \subseteq [Listed -> Int]
  /\ Soon <= Before /\ After <= Kept
  /\ Before + MaxDelay + Ttl <= Ahead

Callers == {"scan", "monitor"}

VARIABLES
  due,      \* half minutes until each event, negative when past
  cache,    \* _cache and _cache_expiry: what is kept (known is FALSE for None), for how long
  where,    \* per caller: idle, fetching the feed, holding a snapshot
  since,    \* per caller: how long its fetch has taken
  news,     \* what the scan's snapshot says, and its age
  verdict,  \* what the risk engine's news check or the risk monitor has just decided
  heard     \* history: the events some fetch has brought

calendar == <<due, cache, where, since, news, verdict, heard>>

CalendarTypeOK ==
  /\ due \in [Listed -> Int]
  /\ cache \in [known : BOOLEAN, events : SUBSET Listed, left : 0..Halves(Ttl)]
  /\ where \in [Callers -> {"idle", "fetching", "holding"}]
  /\ since \in [Callers -> 0..Halves(MaxFetch)]
  /\ news \in [known : BOOLEAN, events : SUBSET Listed, age : 0..Halves(MaxDelay)]
  /\ verdict \in {"none", "blocked", "clear", "alerted", "kept"}
  /\ heard \subseteq Listed

NoNews == [known |-> FALSE, events |-> {}, age |-> 0]

CalendarInit ==
  /\ due \in Dates
  /\ cache = [known |-> FALSE, events |-> {}, left |-> 0]
  /\ where = [c \in Callers |-> "idle"]
  /\ since = [c \in Callers |-> 0]
  /\ news = NoNews
  /\ verdict = "none"
  /\ heard = {}

\* (mutant of Fetched: what has begun is over)
FetchedFuture == {e \in Listed : 0 <= due[e] /\ due[e] <= Halves(Ahead)}
\* What a fetch keeps of the feed.
Fetched == {e \in Listed : -Halves(Kept) <= due[e] /\ due[e] <= Halves(Ahead)}

\* The events of the next 4 hours, and those that have begun.
Upcoming(events) == {e \in events : due[e] <= Halves(Ahead)}

\* Caller c has what it asked for; only the scan passes it on.
Receives(c, known, events) ==
  /\ where' = [where EXCEPT ![c] = "holding"]
  /\ news' = IF c = "scan"
             THEN [known |-> known, events |-> IF known THEN Upcoming(events) ELSE {}, age |-> 0]
             ELSE news

\* get_upcoming_events finds the cache valid, be it of a failed fetch.
Cached(c) ==
  /\ where[c] = "idle" /\ cache.left > 0
  /\ Receives(c, cache.known, cache.events)
  /\ verdict' = "none" /\ UNCHANGED <<due, cache, since, heard>>

\* It does not, and asks the feed; several may.
Fetch(c) ==
  /\ where[c] = "idle" /\ cache.left = 0
  /\ where' = [where EXCEPT ![c] = "fetching"]
  /\ since' = [since EXCEPT ![c] = 0]
  /\ verdict' = "none" /\ UNCHANGED <<due, cache, news, heard>>

\* The TTL counts from before the fetch.
Remaining(c) == IF since[c] <= Halves(Ttl) THEN Halves(Ttl) - since[c] ELSE 0

FetchOk(c) ==
  /\ where[c] = "fetching"
  /\ cache' = [known |-> TRUE, events |-> Fetched, left |-> Remaining(c)]
  /\ Receives(c, TRUE, Fetched)
  /\ heard' = heard \cup Fetched
  /\ verdict' = "none" /\ UNCHANGED <<due, since>>

\* A failing fetch forgets what an earlier one has brought.
FetchFails(c) ==
  /\ where[c] = "fetching"
  /\ cache' = [known |-> FALSE, events |-> {}, left |-> Remaining(c)]
  /\ Receives(c, FALSE, {})
  /\ verdict' = "none" /\ UNCHANGED <<due, since, heard>>

\* int(delta): towards zero.
Minutes(halves) == IF halves >= 0 THEN halves \div 2 ELSE -((-halves) \div 2)

\* CalendarGuard.is_blackout
Blocks(e) ==
  LET minutes == Minutes(due[e])
  IN  IF e \in High THEN -After <= minutes /\ minutes <= Before
                    ELSE 0 <= minutes /\ minutes <= Soon
IsBlackout(window) ==
  IF news.known THEN \E e \in news.events : Blocks(e) ELSE window

\* _check_news, on the snapshot's news at the time of the evaluation; without news the
\* hours of US releases block, on weekdays.
CheckNews ==
  /\ where["scan"] = "holding"
  /\ \E window \in BOOLEAN : verdict' = IF IsBlackout(window) THEN "blocked" ELSE "clear"
  /\ where' = [where EXCEPT !["scan"] = "idle"]
  /\ news' = NoNews
  /\ UNCHANGED <<due, cache, since, heard>>

\* The scan ends without a proposal.
NoProposal ==
  /\ where["scan"] = "holding"
  /\ where' = [where EXCEPT !["scan"] = "idle"]
  /\ news' = NoNews
  /\ verdict' = "none" /\ UNCHANGED <<due, cache, since, heard>>

\* What the model says of a trade's thesis; no answer, and a vague one, count as valid.
Answers == {"valid", "invalid", "vague", "none"}
Invalid(answer) == answer = "invalid"

\* The risk monitor asks about every open trade: it alerts of an invalid one, the worst
\* answer decides, and closes nothing.
Review ==
  /\ where["monitor"] = "holding"
  /\ where' = [where EXCEPT !["monitor"] = "idle"]
  /\ \E worst \in Answers : verdict' = IF Invalid(worst) THEN "alerted" ELSE "kept"
  /\ UNCHANGED <<due, cache, since, news, heard>>

\* Half a minute passes.  An event past all windows stays where it is.
Over == -Halves(Kept) - 2
CalendarTick ==
  /\ \A c \in Callers : where[c] = "fetching" => since[c] < Halves(MaxFetch)
  /\ where["scan"] = "holding" => news.age < Halves(MaxDelay)
  /\ due' = [e \in Listed |-> IF due[e] < Over THEN due[e] ELSE due[e] - 1]
  /\ cache' = [cache EXCEPT !.left = IF @ > 0 THEN @ - 1 ELSE 0]
  /\ since' = [c \in Callers |-> IF where[c] = "fetching" THEN since[c] + 1 ELSE 0]
  /\ news' = IF where["scan"] = "holding" THEN [news EXCEPT !.age = @ + 1] ELSE news
  /\ verdict' = "none"
  /\ UNCHANGED <<where, heard>>

CalendarNext ==
  \/ \E c \in Callers : Cached(c) \/ Fetch(c) \/ FetchOk(c) \/ FetchFails(c)
  \/ CheckNews \/ NoProposal \/ Review \/ CalendarTick

CalendarSpec == CalendarInit /\ [][CalendarNext]_calendar

(***************************************************************************)
(* Properties.                                                              *)
(***************************************************************************)

\* The exact blackout of an event (calendar_guard.py:6-8).
InBlackout(e) ==
  IF e \in High THEN -Halves(After) <= due[e] /\ due[e] <= Halves(Before)
                ELSE 0 <= due[e] /\ due[e] <= Halves(Soon)

\* A proposal made with the calendar at hand does not pass the news check within the
\* blackout of any event of the feed: what a cache up to a TTL old and a snapshot up to
\* MaxDelay old cannot know is still too far away to block.
NewsRespected ==
  [][CheckNews /\ news.known /\ (\E e \in Listed : InBlackout(e)) => verdict' = "blocked"]_calendar

\* Refuted: news that was heard of blocks, whether or not the feed answers now
\* (calendar.py:84: "Keep stale cache entry for TTL so we don't hammer a down API").
HeardNewsRespected ==
  [][CheckNews /\ (\E e \in heard : InBlackout(e)) => verdict' = "blocked"]_calendar
================================================================================
