---------------------------- MODULE DistributedLock ----------------------------
(***************************************************************************)
(* The lease that makes one engine process PRIMARY: the columns instance_id, *)
(* is_primary_instance and lock_expires_at of the singleton row of           *)
(* "system_state".  A process polls until it has the lease, starts up, and   *)
(* from then on renews it every RENEW_INTERVAL; after two failed renewals in *)
(* a row it halts.                                                           *)
(*                                                                           *)
(* Every process has a lease id of its own (a uuid), so a process stands for *)
(* its id and runs once; a restart is another process.  Time passes in units *)
(* of at least the 15 s between two polls; all times are kept relative to    *)
(* the present.                                                              *)
(***************************************************************************)
EXTENDS Integers

CONSTANTS
  Processes,
  NoOne,
  TTL,         \* LOCK_TTL_SECONDS
  Renewal,     \* RENEW_INTERVAL
  MaxDelay,    \* bound: units a database call may take
  MaxStartup,  \* bound: units between the acquisition and the renew loop
  Events,      \* what may happen: see AllEvents
  MaxFaults    \* bound: how often

\* A process dies; a renewal fails; a call of acquire fails before it wrote, or
\* after; the claim of a vacant row is still on its way when a rival has read its own back;
\* SIGTERM.
AllEvents == {"crash", "renew", "acquire", "lost", "late", "terminate"}

\* What the exclusion does not outlast: a claim whose reply is lost, one that lands when there
\* is a primary, and a lease that runs out on the primary that has it.
Slips == {"lost", "late", "overrun"}

ASSUME ConstantsAssumption ==
  /\ NoOne \notin Processes
  /\ TTL \in Nat \ {0} /\ Renewal \in Nat \ {0}
  /\ MaxDelay \in 0..TTL /\ MaxStartup \in Nat
  /\ Events \subseteq AllEvents /\ MaxFaults \in Nat

VARIABLES
  row,   \* the holder, and how long until lock_expires_at (negative: passed)
  proc,  \* per process, where it stands
  faults,
  slips  \* those of Slips that have happened

events == <<faults, slips>>
vars == <<row, proc, faults, slips>>

Calls == {"reading", "claiming", "claimed", "updating", "renewing"}
Standby == {"waiting", "reading", "claiming", "claimed", "updating"}
Primary == {"starting", "sleeping", "renewing"}
States == Standby \cup Primary \cup {"off", "dead"}

\* The lowest value that "left" takes: past it, every read finds the lease expired.
Lowest == -(MaxDelay + 1)
Longest == IF MaxDelay > MaxStartup THEN MaxDelay ELSE MaxStartup

Row == [holder : Processes \cup {NoOne}, left : Lowest..TTL]
Proc == [pc : States,
         age : 0..Longest,     \* since "now" was taken, or since the acquisition
         timer : 0..Renewal,   \* until the poll or the renewal that is due
         fails : {0, 1},       \* consecutive_failures
         expects : Processes \cup {NoOne},  \* expected_holder
         stop : BOOLEAN]       \* main's _shutdown event

TypeOK == row \in Row /\ proc \in [Processes -> Proc] /\ faults \in 0..MaxFaults
          /\ slips \subseteq Slips

Vacant == [holder |-> NoOne, left |-> 0]

Init ==
  /\ row = Vacant
  /\ proc = [p \in Processes |-> [pc |-> "off", age |-> 0, timer |-> 0, fails |-> 0,
                                  expects |-> NoOne, stop |-> FALSE]]
  /\ faults = 0 /\ slips = {}

May(event) == /\ event \in Events /\ faults < MaxFaults /\ faults' = faults + 1
              /\ slips' = IF event = "lost" THEN slips \cup {"lost"} ELSE slips
At(p, pc) == proc[p].pc = pc
IsPrimary(p) == proc[p].pc \in Primary

\* p goes to a state in which it waits for a timer, or for nothing.
Goto(p, pc, timer) == proc' = [proc EXCEPT ![p].pc = pc, ![p].age = 0, ![p].timer = timer]
\* p starts a database call, or goes on to the next one with the same "now".
Call(p, pc) == proc' = [proc EXCEPT ![p].pc = pc, ![p].timer = 0]
CallCas(p, holder) ==
  proc' = [proc EXCEPT ![p].pc = "updating", ![p].timer = 0, ![p].expects = holder]

\* acquire returned FALSE: the next poll is due within a unit, unless the process
\* was asked to stop.
NotPrimary(p) == IF proc[p].stop THEN Goto(p, "dead", 0) ELSE Goto(p, "waiting", 1)

\* The lease p writes: it counts from the "now" p took before its first call.
Lease(p) == [holder |-> p, left |-> TTL - proc[p].age]

----------------------------------------------------------------------------
(* acquire, called by _acquire_primary_with_retry *)

Start(p) ==
  /\ At(p, "off")
  /\ Goto(p, "waiting", 1)
  /\ UNCHANGED <<row, events>>

Poll(p) ==
  /\ At(p, "waiting") /\ ~proc[p].stop
  /\ Call(p, "reading")
  /\ UNCHANGED <<row, events>>

\* (mutant of Expired: an expired lease is not taken over)
NeverExpired(p) == proc[p].age < 0
\* now > expires_at, with the "now" of the start of the call.
Expired(p) == row.left + proc[p].age < 0

Read(p) ==
  /\ At(p, "reading")
  /\ \/ row.holder = p /\ CallCas(p, p) /\ UNCHANGED events
     \/ row.holder = NoOne /\ Call(p, "claiming") /\ UNCHANGED events
     \/ /\ row.holder \notin {p, NoOne} /\ Expired(p)
        /\ CallCas(p, row.holder) /\ UNCHANGED events
     \/ /\ row.holder \notin {p, NoOne} /\ ~Expired(p)
        /\ NotPrimary(p) /\ UNCHANGED events
     \/ NotPrimary(p) /\ May("acquire")
  /\ UNCHANGED row

\* (mutant of Swaps: the UPDATE does not look at the holder)
SwapsAnyway(holder) == holder \in Processes
\* UPDATE ... WHERE id = 'singleton' AND instance_id = holder matches the row.
Swaps(holder) == row.holder = holder

\* _update_lock with the holder that was read.
Update(p) ==
  /\ At(p, "updating")
  /\ \/ /\ Swaps(proc[p].expects)
        /\ row' = Lease(p)
        /\ Goto(p, "starting", 0) /\ UNCHANGED events
     \/ ~Swaps(proc[p].expects) /\ NotPrimary(p) /\ UNCHANGED <<row, events>>
     \/ NotPrimary(p) /\ May("acquire") /\ UNCHANGED row
     \/ Swaps(proc[p].expects) /\ row' = Lease(p) /\ NotPrimary(p) /\ May("lost")

\* A vacant row, or none, is written unconditionally ...
Claim(p) ==
  /\ At(p, "claiming")
  /\ \/ /\ row' = Lease(p)
        /\ Call(p, "claimed")
        /\ slips' = IF \E q \in Processes : IsPrimary(q) THEN slips \cup {"late"} ELSE slips
        /\ UNCHANGED faults
     \/ row' = Lease(p) /\ NotPrimary(p) /\ May("lost")
     \/ UNCHANGED row /\ NotPrimary(p) /\ May("acquire")

\* The UPDATE of another claimant, still on its way.
RivalOnItsWay == \E q \in Processes : At(q, "claiming")

\* ... and read back twice, 0.2 s apart, after the writes of the other claimants
\* unless one of these takes longer than that.
Confirm(p) ==
  /\ At(p, "claimed")
  /\ \/ row.holder = p /\ ~RivalOnItsWay /\ Goto(p, "starting", 0) /\ UNCHANGED events
     \/ row.holder = p /\ RivalOnItsWay /\ Goto(p, "starting", 0) /\ May("late")
     \/ row.holder # p /\ NotPrimary(p) /\ UNCHANGED events
     \/ NotPrimary(p) /\ May("lost")
  /\ UNCHANGED row

----------------------------------------------------------------------------
(* The primary *)

\* startup() ends by creating the loops, the renewal's among them; then run() returns
\* if the process was asked to stop meanwhile.
StartupDone(p) ==
  /\ At(p, "starting")
  /\ IF proc[p].stop THEN Goto(p, "dead", 0) ELSE Goto(p, "sleeping", Renewal)
  /\ UNCHANGED <<row, events>>

RenewalDue(p) ==
  /\ At(p, "sleeping") /\ proc[p].timer = 0
  /\ Call(p, "renewing")
  /\ UNCHANGED <<row, events>>

\* (mutant of LastFailure: it goes on after any number of them)
NeverLast(p) == proc[p].fails > 1
\* Two in a row.
LastFailure(p) == proc[p].fails = 1

\* On the last failure _on_lock_lost halts the execution engine and ends the process.
RenewalFailed(p) ==
  IF LastFailure(p) THEN Goto(p, "dead", 0)
  ELSE proc' = [proc EXCEPT ![p].pc = "sleeping", ![p].age = 0, ![p].timer = Renewal,
                            ![p].fails = @ + 1]

Renew(p) ==
  /\ At(p, "renewing")
  /\ \/ /\ Swaps(p)
        /\ row' = Lease(p)
        /\ proc' = [proc EXCEPT ![p].pc = "sleeping", ![p].age = 0, ![p].timer = Renewal,
                                ![p].fails = 0]
        /\ UNCHANGED events
     \/ ~Swaps(p) /\ RenewalFailed(p) /\ UNCHANGED <<row, events>>
     \/ RenewalFailed(p) /\ May("renew") /\ UNCHANGED row
     \/ Swaps(p) /\ row' = Lease(p) /\ RenewalFailed(p) /\ May("renew")

----------------------------------------------------------------------------
(* SIGTERM runs shutdown() in a task of its own.  Once the loops run, run() returns *)
(* as soon as the event is set, and asyncio.run cancels that task before it gets   *)
(* to release().  Before, the release (a CAS on the own lease) takes place, and   *)
(* startup() goes on: only the polling loop looks at the event.                   *)

Release(p) == IF row.holder = p THEN Vacant ELSE row

Terminate(p) ==
  /\ ~proc[p].stop /\ May("terminate")
  /\ \/ /\ At(p, "waiting")
        /\ row' = Release(p)
        /\ proc' = [proc EXCEPT ![p].stop = TRUE, ![p].pc = "dead", ![p].timer = 0]
     \/ /\ proc[p].pc \in {"reading", "claiming", "claimed", "updating", "starting"}
        /\ row' = Release(p)
        /\ proc' = [proc EXCEPT ![p].stop = TRUE]
     \/ /\ proc[p].pc \in {"sleeping", "renewing"}
        /\ proc' = [proc EXCEPT ![p].stop = TRUE, ![p].pc = "dead", ![p].age = 0,
                                ![p].timer = 0]
        /\ UNCHANGED row

Crash(p) ==
  /\ proc[p].pc \notin {"off", "dead"} /\ May("crash")
  /\ Goto(p, "dead", 0)
  /\ UNCHANGED row

----------------------------------------------------------------------------
\* Time passes unless a timer is due or a call or a startup has taken its longest.
MayWait(p) ==
  \/ proc[p].pc \in {"off", "dead"}
  \/ proc[p].pc \in {"waiting", "sleeping"} /\ proc[p].timer > 0
  \/ proc[p].pc \in Calls /\ proc[p].age < MaxDelay
  \/ At(p, "starting") /\ proc[p].age < MaxStartup

Aged(q) ==
  [q EXCEPT !.timer = IF q.timer > 0 THEN q.timer - 1 ELSE 0,
            !.age = IF q.pc \in Calls \cup {"starting"} THEN q.age + 1 ELSE q.age]

Overrun(r) == r.holder # NoOne /\ r.left < 0 /\ IsPrimary(r.holder)

Tick ==
  /\ \A p \in Processes : MayWait(p)
  /\ row' = IF row.holder = NoOne \/ row.left = Lowest THEN row
            ELSE [row EXCEPT !.left = row.left - 1]
  /\ proc' = [p \in Processes |-> Aged(proc[p])]
  /\ slips' = IF Overrun(row') THEN slips \cup {"overrun"} ELSE slips
  /\ UNCHANGED faults

Acquire(p) == Poll(p) \/ Read(p) \/ Update(p) \/ Claim(p) \/ Confirm(p)
Hold(p) == StartupDone(p) \/ RenewalDue(p) \/ Renew(p)

Next ==
  \/ \E p \in Processes : Start(p) \/ Acquire(p) \/ Hold(p) \/ Terminate(p) \/ Crash(p)
  \/ Tick

Spec == Init /\ [][Next]_vars

----------------------------------------------------------------------------
(* Properties *)

\* "Ensures only one engine instance is PRIMARY at a time" (lock.py:5), from the
\* acquisition on: startup() reconciles and writes (main.py:221-222).
OnePrimary == \A p, q \in Processes : IsPrimary(p) /\ IsPrimary(q) => p = q

\* What the lock does ensure, whatever crashes, fails or is terminated: as long as no lease
\* has run out on the primary that has it, no reply to a claim was lost and no claim landed
\* on a primary, at most one process works that was not asked to stop.
Works(p) == IsPrimary(p) /\ ~proc[p].stop
Exclusion == slips = {} => \A p, q \in Processes : Works(p) /\ Works(q) => p = q

\* The sleep before a renewal, and the renewal.
Round == Renewal + MaxDelay

\* How long the startup, the sleep or the call of p may last still.
Pending(p) ==
  IF At(p, "starting") THEN MaxStartup - proc[p].age + Round
  ELSE IF At(p, "sleeping") THEN proc[p].timer + MaxDelay
  ELSE MaxDelay - proc[p].age

\* ... and how long until p has halted, if no renewal succeeds.
Due(p) ==
  IF At(p, "starting") \/ proc[p].fails = 0 THEN Pending(p) + Round ELSE Pending(p)

\* How long a primary may go on past its lease: not at all if the lease outlasts two
\* renewals, three calls and a startup.  The 120 s of the lease are twice the 60 s between
\* renewals, so that it is what the calls and the startup take (lock.py:31-33).
Gap == Renewal + Renewal + MaxDelay + MaxDelay + MaxDelay + MaxStartup - TTL

\* A primary that has the lease halts or renews it at most Gap after it has run out,
\* whatever fails and whoever claims.
LeaseCovers ==
  \A p \in Processes : (IsPrimary(p) /\ row.holder = p) => Due(p) <= row.left + Gap

\* A primary that has lost the lease, to a takeover, a late claim or its own release, goes
\* on to its end: no step gives it more time, and time runs (lock.py:257-268).  So two
\* engines work side by side for a startup and two rounds at most.
Usurped(p) == IsPrimary(p) /\ row.holder # p
LosersHalt ==
  [][\A p \in Processes : Usurped(p) =>
       \/ At(p, "dead")'
       \/ Usurped(p)' /\ Due(p)' <= Due(p) /\ (Tick => Due(p)' < Due(p))]_vars

\* The lock implements Primacy: the lease makes one process the primary; one that has
\* lost it never has it again, and one that has stopped never works again (lock.py:5,
\* main.py:107-140).
Role(p) == IF IsPrimary(p) THEN IF row.holder = p THEN "primary" ELSE "usurped"
           ELSE IF At(p, "dead") THEN "gone" ELSE "standby"
Abstract == INSTANCE Primacy WITH role <- [p \in Processes |-> Role(p)]
ImplementsPrimacy == Abstract!Spec

\* A graceful shutdown releases the lock (lock.py:13).
ReleasedOnShutdown ==
  \A p \in Processes : (At(p, "dead") /\ proc[p].stop) => row.holder # p

\* The loops of a process go on, and time does.
Fairness ==
  /\ WF_vars(Tick)
  /\ \A p \in Processes : WF_vars(Acquire(p) \/ Hold(p))
FairSpec == Spec /\ Fairness

\* While a process waits for the lock, some process gets it: the lease of a dead
\* primary expires, and competing claims do not block each other for ever.
Waiting == \E p \in Processes : proc[p].pc \in Standby
LockTaken == Waiting ~> (~Waiting \/ \E p \in Processes : IsPrimary(p))
================================================================================
