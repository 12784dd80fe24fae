------------------------ MODULE DistributedLock_proofs ------------------------
(* Proofs about DistributedLock, for every set of processes and every interval. *)
EXTENDS DistributedLock, TLAPS

\* A call is as old as the "now" it works with, a startup as its lease; elsewhere the age
\* is not used.
AgeOK ==
  \A p \in Processes :
    /\ proc[p].pc \in Calls => proc[p].age <= MaxDelay
    /\ proc[p].pc = "starting" => proc[p].age <= MaxStartup
    /\ proc[p].pc \notin Calls \cup {"starting"} => proc[p].age = 0

TypeInv == TypeOK /\ AgeOK

LEMMA LongestBounds ==
  Longest \in Nat /\ MaxDelay <= Longest /\ MaxStartup <= Longest /\ Lowest \in Int /\ Lowest < 0
BY ConstantsAssumption DEF Longest, Lowest

LEMMA LeaseIsRow ==
  ASSUME TypeInv, NEW p \in Processes, proc[p].pc \in Calls
  PROVE  Lease(p) \in Row /\ Lease(p).holder = p
BY LongestBounds, ConstantsAssumption DEF TypeInv, TypeOK, AgeOK, Lease, Row, Proc

LEMMA TypeInit == Init => TypeInv
BY LongestBounds, ConstantsAssumption
DEF Init, TypeInv, TypeOK, AgeOK, Row, Proc, Vacant, States, Standby, Primary, Slips

EventsOK == faults \in 0..MaxFaults /\ slips \subseteq Slips

\* A step of a process counts an event, and notes a slip, or does neither.
LEMMA EventsTyped ==
  ASSUME TypeInv,
         \/ \E event : May(event)
         \/ UNCHANGED events
         \/ UNCHANGED faults /\ slips' \in {slips, slips \cup {"late"}}
  PROVE  EventsOK'
<1>0. faults \in 0..MaxFaults /\ slips \subseteq Slips /\ MaxFaults \in Nat
  BY ConstantsAssumption DEF TypeInv, TypeOK
<1>1. CASE \E event : May(event)
  <2>1. /\ faults < MaxFaults /\ faults' = faults + 1
        /\ slips' = slips \/ slips' = slips \cup {"lost"}
    BY <1>1 DEF May
  <2>2. faults' \in 0..MaxFaults
    BY <1>0, <2>1
  <2>3. slips' \subseteq Slips
    BY <1>0, <2>1 DEF Slips
  <2> QED
    BY <2>2, <2>3 DEF EventsOK
<1>2. CASE UNCHANGED events
  BY <1>0, <1>2 DEF EventsOK, events
<1>3. CASE UNCHANGED faults /\ slips' \in {slips, slips \cup {"late"}}
  <2>1. slips' \subseteq Slips
    BY <1>0, <1>3 DEF Slips
  <2> QED
    BY <1>0, <1>3, <2>1 DEF EventsOK
<1> QED
  BY <1>1, <1>2, <1>3

\* A step of one process replaces its record; a new record that is well formed keeps
\* all of them so.
ProcOK(q) == /\ q \in Proc
             /\ q.pc \in Calls => q.age <= MaxDelay
             /\ q.pc = "starting" => q.age <= MaxStartup
             /\ q.pc \notin Calls \cup {"starting"} => q.age = 0

LEMMA OneProcess ==
  ASSUME TypeInv, NEW p \in Processes, NEW q, ProcOK(q),
         proc' = [proc EXCEPT ![p] = q], row' \in Row, EventsOK'
  PROVE  TypeInv'
BY DEF TypeInv, TypeOK, AgeOK, ProcOK, EventsOK

LEMMA FieldsTyped ==
  ASSUME TypeInv, NEW p \in Processes
  PROVE  /\ proc[p] \in Proc
         /\ proc[p].pc \in States /\ proc[p].age \in 0..Longest
         /\ proc[p].timer \in 0..Renewal /\ proc[p].fails \in {0, 1}
         /\ proc[p].expects \in Processes \cup {NoOne} /\ proc[p].stop \in BOOLEAN
<1>1. proc[p] \in Proc
  BY DEF TypeInv, TypeOK
<1> QED
  BY <1>1 DEF Proc

LEMMA GotoTyped ==
  ASSUME TypeInv, NEW p \in Processes, NEW pc \in {"waiting", "starting", "sleeping", "dead"},
         NEW timer \in 0..Renewal, Goto(p, pc, timer),
         row' \in Row, EventsOK'
  PROVE  TypeInv'
<1> DEFINE q == [proc[p] EXCEPT !.pc = pc, !.age = 0, !.timer = timer]
<1>0. proc[p] \in Proc /\ pc \in States /\ 0 \in 0..Longest
  BY LongestBounds, FieldsTyped DEF States, Standby, Primary
<1>1. ProcOK(q)
  <2>1. q \in Proc
    BY <1>0 DEF Proc
  <2>2. q.pc = pc /\ q.age = 0
    BY <1>0 DEF Proc
  <2> QED
    BY <2>1, <2>2, ConstantsAssumption DEF ProcOK, Calls
<1>2. proc' = [proc EXCEPT ![p] = q]
  BY DEF Goto
<1> HIDE DEF q
<1> QED
  BY <1>1, <1>2, OneProcess

LEMMA CallTyped ==
  ASSUME TypeInv, NEW p \in Processes, NEW pc \in Calls, Call(p, pc),
         proc[p].pc \in Calls \cup {"waiting", "sleeping"},
         row' \in Row, EventsOK'
  PROVE  TypeInv'
<1> DEFINE q == [proc[p] EXCEPT !.pc = pc, !.timer = 0]
<1>0. /\ proc[p] \in Proc /\ pc \in States /\ 0 \in 0..Renewal
      /\ proc[p].age <= MaxDelay
  BY FieldsTyped, ConstantsAssumption DEF States, Standby, Calls, Primary, TypeInv, AgeOK
<1>1. ProcOK(q)
  <2>1. q \in Proc
    BY <1>0 DEF Proc
  <2>2. q.pc = pc /\ q.age = proc[p].age
    BY <1>0 DEF Proc
  <2> QED
    BY <1>0, <2>1, <2>2 DEF ProcOK, Calls
<1>2. proc' = [proc EXCEPT ![p] = q]
  BY DEF Call
<1> HIDE DEF q
<1> QED
  BY <1>1, <1>2, OneProcess

LEMMA CallCasTyped ==
  ASSUME TypeInv, NEW p \in Processes, NEW h \in Processes, CallCas(p, h),
         At(p, "reading"), row' \in Row, EventsOK'
  PROVE  TypeInv'
<1> DEFINE q == [proc[p] EXCEPT !.pc = "updating", !.timer = 0, !.expects = h]
<1>0. /\ proc[p] \in Proc /\ "updating" \in States /\ 0 \in 0..Renewal
      /\ proc[p].age <= MaxDelay
  BY FieldsTyped, ConstantsAssumption DEF States, Standby, Calls, At, TypeInv, AgeOK
<1>1. ProcOK(q)
  <2>1. q \in Proc
    BY <1>0 DEF Proc
  <2>2. q.pc = "updating" /\ q.age = proc[p].age
    BY <1>0 DEF Proc
  <2> QED
    BY <1>0, <2>1, <2>2 DEF ProcOK, Calls
<1>2. proc' = [proc EXCEPT ![p] = q]
  BY DEF CallCas
<1> HIDE DEF q
<1> QED
  BY <1>1, <1>2, OneProcess

LEMMA NotPrimaryTyped ==
  ASSUME TypeInv, NEW p \in Processes, NotPrimary(p), row' \in Row, EventsOK'
  PROVE  TypeInv'
<1>1. 0 \in 0..Renewal /\ 1 \in 0..Renewal
  BY ConstantsAssumption
<1> QED
  BY <1>1, GotoTyped DEF NotPrimary

LEMMA AcquireTyped ==
  ASSUME TypeInv, NEW p \in Processes, Start(p) \/ Acquire(p)
  PROVE  TypeInv'
<1>1. EventsOK'
  BY EventsTyped DEF Start, Acquire, Poll, Read, Update, Claim, Confirm
<1>2. row \in Row /\ 1 \in 0..Renewal /\ 0 \in 0..Renewal
  BY ConstantsAssumption DEF TypeInv, TypeOK
<1>3. CASE Start(p)
  BY <1>1, <1>2, <1>3, GotoTyped DEF Start
<1>4. CASE Poll(p)
  BY <1>1, <1>2, <1>4, CallTyped DEF Poll, Calls, At
<1>5. CASE Read(p)
  <2>1. UNCHANGED row /\ At(p, "reading")
    BY <1>5 DEF Read
  <2>2. CASE NotPrimary(p)
    BY <1>1, <1>2, <2>1, <2>2, NotPrimaryTyped
  <2>3. CASE Call(p, "claiming")
    BY <1>1, <1>2, <2>1, <2>3, CallTyped DEF Calls, At
  <2>4. CASE row.holder \in Processes /\ CallCas(p, row.holder)
    BY <1>1, <1>2, <2>1, <2>4, CallCasTyped
  <2> QED
    BY <1>2, <1>5, <2>2, <2>3, <2>4 DEF Read, Row
<1>6. CASE Update(p)
  <2>1. row' \in Row
    BY <1>2, <1>6, LeaseIsRow DEF Update, At, Calls
  <2> QED
    BY <1>1, <1>2, <1>6, <2>1, NotPrimaryTyped, GotoTyped DEF Update
<1>7. CASE Claim(p)
  <2>1. row' \in Row /\ At(p, "claiming")
    BY <1>2, <1>7, LeaseIsRow DEF Claim, At, Calls
  <2>2. CASE Call(p, "claimed")
    BY <1>1, <2>1, <2>2, CallTyped DEF Calls, At
  <2> QED
    BY <1>1, <1>7, <2>1, <2>2, NotPrimaryTyped DEF Claim
<1>8. CASE Confirm(p)
  BY <1>1, <1>2, <1>8, NotPrimaryTyped, GotoTyped DEF Confirm
<1> QED
  BY <1>3, <1>4, <1>5, <1>6, <1>7, <1>8 DEF Acquire

LEMMA HoldTyped ==
  ASSUME TypeInv, NEW p \in Processes, Hold(p)
  PROVE  TypeInv'
<1>1. EventsOK'
  BY EventsTyped DEF Hold, StartupDone, RenewalDue, Renew
<1>2. row \in Row /\ Renewal \in 0..Renewal /\ 0 \in 0..Renewal
  BY ConstantsAssumption DEF TypeInv, TypeOK
<1>3. CASE StartupDone(p)
  BY <1>1, <1>2, <1>3, GotoTyped DEF StartupDone
<1>4. CASE RenewalDue(p)
  BY <1>1, <1>2, <1>4, CallTyped DEF RenewalDue, Calls, At
<1>5. CASE Renew(p)
  <2>1. row' \in Row
    BY <1>2, <1>5, LeaseIsRow DEF Renew, At, Calls
  <2>2. CASE Goto(p, "dead", 0)
    BY <1>1, <1>2, <2>1, <2>2, GotoTyped
  <2>3. ASSUME NEW n \in {0, 1},
               proc' = [proc EXCEPT ![p].pc = "sleeping", ![p].age = 0,
                                    ![p].timer = Renewal, ![p].fails = n]
        PROVE  TypeInv'
    <3> DEFINE q == [proc[p] EXCEPT !.pc = "sleeping", !.age = 0, !.timer = Renewal,
                                    !.fails = n]
    <3>0. proc[p] \in Proc /\ "sleeping" \in States /\ 0 \in 0..Longest
      BY LongestBounds, FieldsTyped DEF States, Primary
    <3>1. ProcOK(q)
      <4>1. q \in Proc
        BY <1>2, <3>0 DEF Proc
      <4>2. q.pc = "sleeping" /\ q.age = 0
        BY <3>0 DEF Proc
      <4> QED
        BY <4>1, <4>2 DEF ProcOK, Calls
    <3>2. proc' = [proc EXCEPT ![p] = q]
      BY <2>3
    <3> HIDE DEF q
    <3> QED
      BY <1>1, <2>1, <3>1, <3>2, OneProcess
  <2>4. proc[p].fails \in {0, 1}
    BY DEF TypeInv, TypeOK, Proc
  <2>5. CASE RenewalFailed(p)
    <3>1. CASE LastFailure(p)
      BY <2>2, <2>5, <3>1 DEF RenewalFailed
    <3>2. CASE ~LastFailure(p)
      <4>1. proc[p].fails + 1 \in {0, 1}
        BY <2>4, <3>2 DEF LastFailure
      <4>2. proc' = [proc EXCEPT ![p].pc = "sleeping", ![p].age = 0,
                                 ![p].timer = Renewal, ![p].fails = proc[p].fails + 1]
        BY <2>5, <3>2 DEF RenewalFailed
      <4> QED
        BY <2>3, <4>1, <4>2
    <3> QED
      BY <3>1, <3>2
  <2> QED
    BY <1>5, <2>3, <2>5 DEF Renew
<1> QED
  BY <1>3, <1>4, <1>5 DEF Hold

LEMMA EndTyped ==
  ASSUME TypeInv, NEW p \in Processes, Terminate(p) \/ Crash(p)
  PROVE  TypeInv'
<1>1. EventsOK'
  BY EventsTyped DEF Terminate, Crash
<1>2. row' \in Row
  BY LongestBounds, ConstantsAssumption
  DEF TypeInv, TypeOK, Row, Terminate, Crash, Release, Vacant
<1>3. CASE Crash(p)
  BY <1>1, <1>2, <1>3, GotoTyped, ConstantsAssumption DEF Crash
<1>4. CASE Terminate(p)
  <2>0. proc[p] \in Proc /\ "dead" \in States /\ 0 \in 0..Longest /\ 0 \in 0..Renewal
    BY LongestBounds, ConstantsAssumption, FieldsTyped DEF States
  <2>1. CASE At(p, "waiting")
    <3> DEFINE q == [proc[p] EXCEPT !.stop = TRUE, !.pc = "dead", !.timer = 0]
    <3>1. q \in Proc
      BY <2>0 DEF Proc
    <3>2. q.pc = "dead" /\ q.age = 0
      BY <2>0, <2>1 DEF Proc, At, TypeInv, AgeOK, Calls
    <3>3. ProcOK(q)
      BY <3>1, <3>2 DEF ProcOK, Calls
    <3>4. proc' = [proc EXCEPT ![p] = q]
      BY <1>4, <2>1 DEF Terminate, At
    <3> HIDE DEF q
    <3> QED
      BY <1>1, <1>2, <3>3, <3>4, OneProcess
  <2>2. CASE proc[p].pc \in {"reading", "claiming", "claimed", "updating", "starting"}
    <3> DEFINE q == [proc[p] EXCEPT !.stop = TRUE]
    <3>1. q \in Proc /\ q.pc = proc[p].pc /\ q.age = proc[p].age
      BY <2>0 DEF Proc
    <3>2. ProcOK(q)
      BY <3>1 DEF ProcOK, TypeInv, AgeOK
    <3>3. proc' = [proc EXCEPT ![p] = q]
      BY <1>4, <2>2 DEF Terminate, At
    <3> HIDE DEF q
    <3> QED
      BY <1>1, <1>2, <3>2, <3>3, OneProcess
  <2>3. CASE proc[p].pc \in {"sleeping", "renewing"}
    <3> DEFINE q == [proc[p] EXCEPT !.stop = TRUE, !.pc = "dead", !.age = 0, !.timer = 0]
    <3>1. q \in Proc /\ q.pc = "dead" /\ q.age = 0
      BY <2>0 DEF Proc
    <3>2. ProcOK(q)
      BY <3>1 DEF ProcOK, Calls
    <3>3. proc' = [proc EXCEPT ![p] = q]
      BY <1>4, <2>3 DEF Terminate, At
    <3> HIDE DEF q
    <3> QED
      BY <1>1, <1>2, <3>2, <3>3, OneProcess
  <2> QED
    BY <1>4, <2>1, <2>2, <2>3 DEF Terminate
<1> QED
  BY <1>3, <1>4

LEMMA TickTyped == TypeInv /\ Tick => TypeInv'
<1> SUFFICES ASSUME TypeInv, Tick PROVE TypeInv'
  OBVIOUS
<1>1. row' \in Row
  BY LongestBounds, ConstantsAssumption DEF Tick, TypeInv, TypeOK, Row
<1>2. ASSUME NEW p \in Processes PROVE ProcOK(Aged(proc[p]))
  <2> DEFINE q == Aged(proc[p])
             timer == IF proc[p].timer > 0 THEN proc[p].timer - 1 ELSE 0
             age == IF proc[p].pc \in Calls \cup {"starting"} THEN proc[p].age + 1
                    ELSE proc[p].age
  <2>1. proc[p] \in Proc /\ MayWait(p)
    BY FieldsTyped DEF Tick
  <2>2. timer \in 0..Renewal
    BY FieldsTyped, ConstantsAssumption
  <2>3. /\ age \in 0..Longest
        /\ proc[p].pc \in Calls => age <= MaxDelay
        /\ proc[p].pc = "starting" => age <= MaxStartup
        /\ proc[p].pc \notin Calls \cup {"starting"} => age = 0
    <3>1. proc[p].age \in Nat /\ MaxDelay \in Nat /\ MaxStartup \in Nat
      BY FieldsTyped, LongestBounds, ConstantsAssumption
    <3>2. proc[p].pc \in Calls => proc[p].age < MaxDelay
      BY <2>1 DEF MayWait, Calls, At
    <3>3. proc[p].pc = "starting" => proc[p].age < MaxStartup
      BY <2>1 DEF MayWait, Calls, At
    <3>4. proc[p].pc \notin Calls \cup {"starting"} => proc[p].age = 0
      BY DEF TypeInv, AgeOK
    <3> QED
      BY <3>1, <3>2, <3>3, <3>4, LongestBounds
  <2>4. q = [proc[p] EXCEPT !.timer = timer, !.age = age]
    BY DEF Aged
  <2> HIDE DEF timer, age, q
  <2>5. q \in Proc /\ q.pc = proc[p].pc /\ q.age = age
    BY <2>1, <2>2, <2>3, <2>4 DEF Proc
  <2>6. ProcOK(q)
    BY <2>3, <2>5 DEF ProcOK
  <2> QED
    BY <2>6 DEF q
<1> QED
  BY <1>1, <1>2 DEF Tick, ProcOK, TypeInv, TypeOK, AgeOK, Slips

LEMMA TypeNext == TypeInv /\ [Next]_vars => TypeInv'
<1> SUFFICES ASSUME TypeInv, [Next]_vars PROVE TypeInv'
  OBVIOUS
<1>1. CASE UNCHANGED vars
  BY <1>1 DEF vars, TypeInv, TypeOK, AgeOK
<1> QED
  BY <1>1, AcquireTyped, HoldTyped, EndTyped, TickTyped DEF Next

\* The variables keep their types, whatever the bounds (the lease a process writes
\* never counts from the future, nor past its term).
THEOREM Typing == Spec => []TypeOK
<1>1. TypeInv => TypeOK
  BY DEF TypeInv
<1> QED
  BY <1>1, TypeInit, TypeNext, PTL DEF Spec

----------------------------------------------------------------------------
(* What a step of a process does to its record and to the row. *)

\* What a step of p leaves of the records of the others.
OnlyChanges(p) == \A q \in Processes : q # p => proc'[q] = proc[q]

LEMMA GotoSets ==
  ASSUME TypeInv, NEW p \in Processes, NEW pc, NEW timer, Goto(p, pc, timer)
  PROVE  /\ OnlyChanges(p) /\ proc'[p].pc = pc /\ proc'[p].timer = timer
         /\ proc'[p].fails = proc[p].fails /\ proc'[p].expects = proc[p].expects
         /\ proc'[p].stop = proc[p].stop /\ proc'[p].age = 0
<1>1. proc[p] \in Proc /\ proc \in [Processes -> Proc]
  BY DEF TypeInv, TypeOK
<1> QED
  BY <1>1 DEF Goto, OnlyChanges, Proc

LEMMA CallSets ==
  ASSUME TypeInv, NEW p \in Processes, NEW pc, Call(p, pc)
  PROVE  /\ OnlyChanges(p) /\ proc'[p].pc = pc /\ proc'[p].timer = 0
         /\ proc'[p].fails = proc[p].fails /\ proc'[p].expects = proc[p].expects
         /\ proc'[p].stop = proc[p].stop /\ proc'[p].age = proc[p].age
<1>1. proc[p] \in Proc /\ proc \in [Processes -> Proc]
  BY DEF TypeInv, TypeOK
<1> QED
  BY <1>1 DEF Call, OnlyChanges, Proc

LEMMA CallCasSets ==
  ASSUME TypeInv, NEW p \in Processes, NEW h, CallCas(p, h)
  PROVE  OnlyChanges(p) /\ proc'[p].pc = "updating" /\ proc'[p].expects = h
<1>1. proc[p] \in Proc /\ proc \in [Processes -> Proc]
  BY DEF TypeInv, TypeOK
<1> QED
  BY <1>1 DEF CallCas, OnlyChanges, Proc

LEMMA NotPrimarySets ==
  ASSUME TypeInv, NEW p \in Processes, NotPrimary(p)
  PROVE  OnlyChanges(p) /\ proc'[p].pc \in {"waiting", "dead"}
BY GotoSets DEF NotPrimary

\* A renewal that succeeds, one that fails and is not the last, and the last.
LEMMA RenewSets ==
  ASSUME TypeInv, NEW p \in Processes, Renew(p)
  PROVE  /\ At(p, "renewing") /\ OnlyChanges(p)
         /\ row' = row \/ (row.holder = p /\ row' = Lease(p))
         /\ \/ proc'[p].pc = "dead"
            \/ /\ proc'[p].pc = "sleeping" /\ proc'[p].age = 0
               /\ proc'[p].timer = Renewal /\ proc'[p].stop = proc[p].stop
               /\ \/ row.holder = p /\ row' = Lease(p)
                  \/ proc[p].fails = 0 /\ proc'[p].fails = 1
<1>1. proc[p] \in Proc /\ proc \in [Processes -> Proc] /\ proc[p].fails \in {0, 1}
  BY FieldsTyped DEF TypeInv, TypeOK
<1>2. ASSUME NEW n, proc' = [proc EXCEPT ![p].pc = "sleeping", ![p].age = 0,
                                         ![p].timer = Renewal, ![p].fails = n]
      PROVE  /\ OnlyChanges(p) /\ proc'[p].pc = "sleeping" /\ proc'[p].age = 0
             /\ proc'[p].timer = Renewal /\ proc'[p].fails = n
             /\ proc'[p].stop = proc[p].stop
  BY <1>1, <1>2 DEF OnlyChanges, Proc
<1>3. CASE RenewalFailed(p)
  <2>1. CASE LastFailure(p)
    BY <1>3, <2>1, GotoSets DEF Renew, RenewalFailed, Swaps
  <2>2. CASE ~LastFailure(p)
    BY <1>1, <1>2, <1>3, <2>2 DEF Renew, RenewalFailed, LastFailure, Swaps
  <2> QED
    BY <2>1, <2>2
<1>4. CASE /\ Swaps(p) /\ row' = Lease(p)
           /\ proc' = [proc EXCEPT ![p].pc = "sleeping", ![p].age = 0,
                                   ![p].timer = Renewal, ![p].fails = 0]
  BY <1>2, <1>4 DEF Renew, Swaps
<1> QED
  BY <1>3, <1>4 DEF Renew

\* SIGTERM ends a process that waits or whose loops run, and only marks another.
LEMMA TerminateSets ==
  ASSUME TypeInv, NEW p \in Processes, Terminate(p)
  PROVE  /\ OnlyChanges(p) /\ proc'[p].stop /\ ~At(p, "dead")
         /\ proc'[p].fails = proc[p].fails /\ proc'[p].expects = proc[p].expects
         /\ \/ /\ proc'[p].pc = "dead" /\ ~IsPrimary(p)' /\ At(p, "waiting")
               /\ row' = Release(p)
            \/ /\ proc'[p].pc = "dead" /\ proc[p].pc \in {"sleeping", "renewing"}
               /\ row' = row
            \/ /\ proc'[p].pc = proc[p].pc /\ proc'[p].age = proc[p].age
               /\ proc'[p].timer = proc[p].timer /\ row' = Release(p)
               /\ proc[p].pc \in {"reading", "claiming", "claimed", "updating", "starting"}
<1>1. proc[p] \in Proc /\ proc \in [Processes -> Proc]
  BY DEF TypeInv, TypeOK
<1>2. CASE At(p, "waiting")
  BY <1>1, <1>2 DEF Terminate, OnlyChanges, Proc, At, IsPrimary, Primary
<1>3. CASE proc[p].pc \in {"reading", "claiming", "claimed", "updating", "starting"}
  BY <1>1, <1>3 DEF Terminate, OnlyChanges, Proc, At
<1>4. CASE proc[p].pc \in {"sleeping", "renewing"}
  BY <1>1, <1>4 DEF Terminate, OnlyChanges, Proc, At
<1> QED
  BY <1>2, <1>3, <1>4 DEF Terminate

\* The lease a call writes counts from the call's start.
LEMMA FreshLease ==
  ASSUME TypeInv, NEW p \in Processes, proc[p].pc \in Calls
  PROVE  /\ proc[p].age \in Nat /\ proc[p].age <= MaxDelay
         /\ Lease(p).holder = p /\ Lease(p).left = TTL - proc[p].age
<1>1. proc[p].age \in Nat /\ proc[p].age <= MaxDelay
  BY FieldsTyped, LongestBounds DEF TypeInv, AgeOK
<1> QED
  BY <1>1 DEF Lease

Step(p) == Start(p) \/ Acquire(p) \/ Hold(p) \/ Terminate(p) \/ Crash(p)

\* The row goes to p or from p, and from nobody else to nobody else; a primary that has
\* lost it leaves it alone, and becomes nothing but dead; a process becomes primary only as
\* the holder.
Moves(p) ==
  /\ OnlyChanges(p) /\ ~At(p, "dead")
  /\ \/ row' = row
     \/ row'.holder = p
     \/ row.holder = p /\ row' = Vacant
  /\ IsPrimary(p) => /\ IsPrimary(p)' \/ At(p, "dead")'
                     /\ row.holder # p => row' = row
  /\ IsPrimary(p)' /\ ~IsPrimary(p) => row'.holder = p

LEMMA StepMoves ==
  ASSUME TypeInv, NEW p \in Processes, Step(p)
  PROVE  Moves(p)
<1> USE DEF Moves, IsPrimary, Primary, At
<1>1. CASE Start(p) \/ Poll(p)
  BY <1>1, GotoSets, CallSets DEF Start, Poll
<1>2. CASE Read(p)
  BY <1>2, NotPrimarySets, CallSets, CallCasSets DEF Read
<1>3. CASE Update(p)
  <2>1. At(p, "updating") /\ Lease(p).holder = p
    BY <1>3, FreshLease DEF Update, Calls
  <2> QED
    BY <1>3, <2>1, NotPrimarySets, GotoSets DEF Update
<1>4. CASE Claim(p)
  <2>1. At(p, "claiming") /\ Lease(p).holder = p
    BY <1>4, FreshLease DEF Claim, Calls
  <2> QED
    BY <1>4, <2>1, NotPrimarySets, CallSets DEF Claim
<1>5. CASE Confirm(p)
  BY <1>5, NotPrimarySets, GotoSets DEF Confirm
<1>6. CASE StartupDone(p) \/ RenewalDue(p) \/ Crash(p)
  BY <1>6, GotoSets, CallSets DEF StartupDone, RenewalDue, Crash
<1>7. CASE Renew(p)
  <2>1. At(p, "renewing") /\ Lease(p).holder = p
    BY <1>7, FreshLease DEF Renew, Calls
  <2> QED
    BY <1>7, <2>1, RenewSets
<1>8. CASE Terminate(p)
  BY <1>8, TerminateSets DEF Release
<1> QED
  BY <1>1, <1>2, <1>3, <1>4, <1>5, <1>6, <1>7, <1>8 DEF Step, Acquire, Hold

\* Time moves no process from one place to another, and leaves the holder alone.
LEMMA TickMoves ==
  ASSUME TypeInv, Tick
  PROVE  /\ row'.holder = row.holder /\ row.left \in Int
         /\ row'.left = row.left \/ row'.left = row.left - 1
         /\ row.left >= 0 /\ row.holder # NoOne => row'.left = row.left - 1
         /\ \A p \in Processes :
              /\ proc'[p].pc = proc[p].pc /\ proc'[p].fails = proc[p].fails
              /\ proc'[p].expects = proc[p].expects /\ proc'[p].stop = proc[p].stop
              /\ proc'[p].timer = IF proc[p].timer > 0 THEN proc[p].timer - 1 ELSE 0
              /\ proc'[p].age = IF proc[p].pc \in Calls \cup {"starting"} THEN proc[p].age + 1
                                ELSE proc[p].age
<1>1. ASSUME NEW p \in Processes
      PROVE  /\ proc'[p].pc = proc[p].pc /\ proc'[p].fails = proc[p].fails
             /\ proc'[p].expects = proc[p].expects /\ proc'[p].stop = proc[p].stop
             /\ proc'[p].timer = IF proc[p].timer > 0 THEN proc[p].timer - 1 ELSE 0
             /\ proc'[p].age = IF proc[p].pc \in Calls \cup {"starting"} THEN proc[p].age + 1
                               ELSE proc[p].age
  <2>1. proc[p] \in Proc
    BY FieldsTyped
  <2> QED
    BY <2>1 DEF Tick, Aged, Proc
<1>2. /\ row'.holder = row.holder /\ row.left \in Int
      /\ row'.left = row.left \/ row'.left = row.left - 1
      /\ row.left >= 0 /\ row.holder # NoOne => row'.left = row.left - 1
  BY LongestBounds DEF Tick, TypeInv, TypeOK, Row
<1> QED
  BY <1>1, <1>2

----------------------------------------------------------------------------
(* How long a primary needs its lease. *)

\* A primary's startup, sleep or call never has less than no time left.
LEMMA DueTyped ==
  ASSUME TypeInv, NEW p \in Processes, IsPrimary(p)
  PROVE  Due(p) \in Nat /\ Pending(p) \in Nat
<1>1. /\ proc[p].age \in Nat /\ proc[p].timer \in Nat /\ proc[p].fails \in {0, 1}
      /\ MaxDelay \in Nat /\ MaxStartup \in Nat /\ Renewal \in Nat
  BY FieldsTyped, LongestBounds, ConstantsAssumption
<1>2. /\ At(p, "starting") => proc[p].age <= MaxStartup
      /\ At(p, "renewing") => proc[p].age <= MaxDelay
  BY DEF TypeInv, AgeOK, At, Calls
<1> QED
  BY <1>1, <1>2 DEF Due, Pending, Round, IsPrimary, Primary, At

\* A fresh lease lasts for a startup, or for a sleep, and what follows, but for the gap.
LEMMA FreshDue ==
  ASSUME TypeInv', NEW p \in Processes,
         proc'[p].pc \in {"starting", "sleeping"}, proc'[p].age = 0,
         proc'[p].pc = "sleeping" => proc'[p].timer = Renewal
  PROVE  Due(p)' \in Int /\ Due(p)' <= TTL - MaxDelay + Gap
<1>1. /\ MaxDelay \in Nat /\ MaxStartup \in Nat /\ Renewal \in Nat /\ TTL \in Nat
      /\ Round \in Nat
  BY ConstantsAssumption DEF Round
<1>2. Pending(p)' <= MaxStartup + Round
  BY <1>1 DEF Pending, At, Round
<1>3. Pending(p)' \in Int
  BY <1>1 DEF Pending, At
<1>4. Due(p)' <= MaxStartup + Round + Round
  BY <1>1, <1>2, <1>3 DEF Due, At
<1>5. MaxStartup + Round + Round = TTL - MaxDelay + Gap /\ Gap \in Int
  BY <1>1 DEF Gap, Round
<1> QED
  BY <1>1, <1>3, <1>4, <1>5 DEF Due

\* A step of a primary that does not renew the lease gives it no more time.
LEMMA PrimaryStep ==
  ASSUME TypeInv, TypeInv', NEW p \in Processes, Step(p), IsPrimary(p), IsPrimary(p)'
  PROVE  \/ row' = row /\ Due(p)' <= Due(p)
         \/ row.holder = p /\ row' = Vacant
         \/ /\ At(p, "renewing") /\ row.holder = p /\ row' = Lease(p)
            /\ proc'[p].pc = "sleeping" /\ proc'[p].age = 0 /\ proc'[p].timer = Renewal
<1>0. /\ MaxDelay \in Nat /\ MaxStartup \in Nat /\ Renewal \in Nat /\ Round = Renewal + MaxDelay
      /\ proc[p].age \in Nat /\ proc[p].timer \in Nat /\ proc[p].fails \in {0, 1}
  BY FieldsTyped, LongestBounds, ConstantsAssumption DEF Round
<1>1. CASE StartupDone(p)
  <2>1. /\ At(p, "starting") /\ row' = row /\ proc'[p].pc = "sleeping"
        /\ proc'[p].timer = Renewal /\ proc'[p].fails = proc[p].fails
    BY <1>1, GotoSets DEF StartupDone, IsPrimary, Primary
  <2>2. proc[p].age <= MaxStartup
    BY <2>1 DEF TypeInv, AgeOK, At
  <2> QED
    BY <1>0, <2>1, <2>2 DEF Due, Pending, At
<1>2. CASE RenewalDue(p)
  <2>1. /\ At(p, "sleeping") /\ proc[p].timer = 0 /\ row' = row /\ proc'[p].pc = "renewing"
        /\ proc'[p].fails = proc[p].fails /\ proc'[p].age = proc[p].age
    BY <1>2, CallSets DEF RenewalDue
  <2> QED
    BY <1>0, <2>1 DEF Due, Pending, At
<1>3. CASE Renew(p)
  <2>1. /\ At(p, "renewing") /\ proc'[p].pc = "sleeping" /\ proc'[p].age = 0
        /\ proc'[p].timer = Renewal /\ proc[p].age <= MaxDelay
    BY <1>3, RenewSets DEF IsPrimary, Primary, TypeInv, AgeOK, Calls, At
  <2>2. CASE row' = row /\ proc[p].fails = 0 /\ proc'[p].fails = 1
    BY <1>0, <2>1, <2>2 DEF Due, Pending, At
  <2> QED
    BY <1>3, <2>1, <2>2, RenewSets DEF IsPrimary, Primary
<1>4. CASE Terminate(p)
  <2>1. /\ At(p, "starting") /\ row' = Release(p) /\ proc'[p].pc = proc[p].pc
        /\ proc'[p].age = proc[p].age /\ proc'[p].timer = proc[p].timer
        /\ proc'[p].fails = proc[p].fails
    BY <1>4, TerminateSets DEF IsPrimary, Primary, At
  <2>2. Due(p)' = Due(p) /\ Due(p) \in Nat
    BY <2>1, DueTyped DEF Due, Pending, At
  <2> QED
    BY <2>1, <2>2 DEF Release
<1>5. ~Start(p) /\ ~Acquire(p) /\ ~Crash(p)
  BY GotoSets DEF Start, Acquire, Poll, Read, Update, Claim, Confirm, Crash, IsPrimary, Primary, At
<1> QED
  BY <1>1, <1>2, <1>3, <1>4, <1>5 DEF Step, Hold

\* Time passes for a primary.
LEMMA PrimaryTick ==
  ASSUME TypeInv, Tick, NEW p \in Processes, IsPrimary(p)
  PROVE  IsPrimary(p)' /\ Due(p)' = Due(p) - 1 /\ Due(p) \in Nat
<1>0. /\ Renewal \in Nat /\ MaxDelay \in Nat /\ MaxStartup \in Nat
      /\ proc[p].timer \in Nat /\ proc[p].fails \in {0, 1} /\ proc[p].age \in Nat
  BY FieldsTyped, LongestBounds, ConstantsAssumption
<1>1. /\ proc'[p].pc = proc[p].pc /\ proc'[p].fails = proc[p].fails
      /\ proc'[p].timer = IF proc[p].timer > 0 THEN proc[p].timer - 1 ELSE 0
      /\ proc'[p].age = IF proc[p].pc \in Calls \cup {"starting"} THEN proc[p].age + 1
                        ELSE proc[p].age
  BY TickMoves
<1>2. proc[p].pc = "sleeping" => proc[p].timer > 0
  BY DEF Tick, MayWait, Calls, At
<1>3. Pending(p)' = Pending(p) - 1
  BY <1>0, <1>1, <1>2 DEF Pending, Round, IsPrimary, Primary, Calls, At
<1>4. Due(p) \in Nat /\ Pending(p) \in Nat
  BY DueTyped
<1> QED
  BY <1>0, <1>1, <1>3, <1>4 DEF Due, Round, IsPrimary, At

LEMMA LoserStep == TypeInv /\ TypeInv' /\ [Next]_vars =>
  \A p \in Processes : Usurped(p) =>
    At(p, "dead")' \/ (Usurped(p)' /\ Due(p)' <= Due(p) /\ (Tick => Due(p)' < Due(p)))
<1> SUFFICES ASSUME TypeInv, TypeInv', [Next]_vars, NEW p \in Processes, Usurped(p)
             PROVE  \/ At(p, "dead")'
                    \/ Usurped(p)' /\ Due(p)' <= Due(p) /\ (Tick => Due(p)' < Due(p))
  OBVIOUS
<1>0. /\ IsPrimary(p) /\ row.holder # p /\ Due(p) \in Nat /\ p # NoOne /\ TTL \in Nat
      /\ Lease(p).holder = p
  BY DueTyped, ConstantsAssumption DEF Usurped, Lease
<1>1. CASE Tick
  BY <1>0, <1>1, PrimaryTick, TickMoves DEF Usurped
<1>2. CASE Step(p) /\ ~Tick
  <2>1. Moves(p)
    BY <1>2, StepMoves
  <2>2. row' = row /\ (IsPrimary(p)' \/ At(p, "dead")')
    BY <1>0, <2>1 DEF Moves
  <2>3. CASE IsPrimary(p)'
    <3>1. Due(p)' <= Due(p)
      BY <1>0, <1>2, <2>2, <2>3, PrimaryStep
    <3> QED
      BY <1>0, <1>2, <2>2, <2>3, <3>1 DEF Usurped
  <2> QED
    BY <2>2, <2>3
<1>3. ASSUME NEW q \in Processes, q # p, Step(q), ~Tick PROVE Usurped(p)' /\ Due(p)' <= Due(p)
  <2>1. Moves(q)
    BY <1>3, StepMoves
  <2>2. proc'[p] = proc[p] /\ row'.holder # p
    BY <1>0, <1>3, <2>1 DEF Moves, OnlyChanges, Vacant
  <2> QED
    BY <1>0, <2>2 DEF Usurped, IsPrimary, Due, Pending, At
<1>4. CASE UNCHANGED vars
  <2>1. proc' = proc /\ row' = row
    BY <1>4 DEF vars
  <2>2. CASE Tick
    BY <1>1, <2>2
  <2> QED
    BY <1>0, <2>1, <2>2 DEF Usurped, IsPrimary, Due, Pending, At
<1> QED
  BY <1>1, <1>2, <1>3, <1>4 DEF Next, Step

\* A primary that has lost the lease never has more time than before, and less with every
\* tick: it halts after a startup and two rounds at most, whatever happens (lock.py:257-268).
THEOREM LosersEnd == Spec => LosersHalt
<1>1. TypeInv /\ TypeInv' /\ [Next]_vars =>
        [\A p \in Processes : Usurped(p) =>
           \/ At(p, "dead")'
           \/ Usurped(p)' /\ Due(p)' <= Due(p) /\ (Tick => Due(p)' < Due(p))]_vars
  BY LoserStep
<1> QED
  BY <1>1, TypeInit, TypeNext, PTL DEF Spec, LosersHalt

----------------------------------------------------------------------------
(* The lease of a primary: it covers all but the gap of what the primary has left. *)

CoverInv(p) ==
  /\ IsPrimary(p) /\ row.holder = p => Due(p) <= row.left + Gap
  /\ At(p, "claimed") /\ row.holder = p => row.left = TTL - proc[p].age

Cover == TypeInv /\ \A p \in Processes : CoverInv(p)

\* What a process does to the row and its own record disturbs nobody else's lease.
LEMMA CoverOthers ==
  ASSUME Cover, NEW p \in Processes, Moves(p), NEW q \in Processes, q # p
  PROVE  CoverInv(q)'
<1>1. proc'[q] = proc[q] /\ (row' = row \/ row'.holder # q)
  BY ConstantsAssumption DEF Moves, OnlyChanges, Vacant
<1> QED
  BY <1>1 DEF Cover, CoverInv, IsPrimary, Due, Pending, At

LEMMA CoverSelf ==
  ASSUME Cover, TypeInv', NEW p \in Processes, Step(p)
  PROVE  CoverInv(p)'
<1> USE DEF Cover
<1>0. /\ TTL \in Nat /\ MaxDelay \in Nat /\ Gap \in Int /\ NoOne # p
      /\ row.left \in Int /\ row'.left \in Int
  BY ConstantsAssumption, LongestBounds DEF Gap, TypeInv, TypeOK, Row
<1>1. CASE IsPrimary(p)' /\ ~IsPrimary(p)
  <2>1. CASE Update(p)
    <3>1. At(p, "updating") /\ proc'[p].pc = "starting" /\ proc'[p].age = 0 /\ row' = Lease(p)
      BY <1>1, <2>1, GotoSets, NotPrimarySets DEF Update, IsPrimary, Primary, At
    <3>2. row'.left >= TTL - MaxDelay
      BY <1>0, <3>1, FreshLease DEF Calls, At
    <3> QED
      BY <1>0, <3>1, <3>2, FreshDue DEF CoverInv, At
  <2>2. CASE Confirm(p)
    <3>1. /\ At(p, "claimed") /\ proc'[p].pc = "starting" /\ proc'[p].age = 0
          /\ row.holder = p /\ row' = row
      BY <1>1, <2>2, GotoSets, NotPrimarySets DEF Confirm, IsPrimary, Primary, At
    <3>2. row'.left >= TTL - MaxDelay
      BY <1>0, <3>1, FreshLease DEF CoverInv, Calls, At
    <3> QED
      BY <1>0, <3>1, <3>2, FreshDue DEF CoverInv, At
  <2>3. ~Start(p) /\ ~Poll(p) /\ ~Read(p) /\ ~Claim(p)
    BY <1>1, GotoSets, CallSets, CallCasSets, NotPrimarySets
    DEF Start, Poll, Read, Claim, IsPrimary, Primary, At
  <2>4. ~Hold(p) /\ ~Terminate(p) /\ ~Crash(p)
    BY <1>1, GotoSets, TerminateSets
    DEF Hold, StartupDone, RenewalDue, Renew, Crash, IsPrimary, Primary, At
  <2> QED
    BY <2>1, <2>2, <2>3, <2>4 DEF Step, Acquire
<1>2. CASE IsPrimary(p)' /\ IsPrimary(p)
  <2>1. ~At(p, "claimed")'
    BY <1>2 DEF IsPrimary, Primary, At
  <2>2. CASE row' = row /\ Due(p)' <= Due(p)
    <3>1. Due(p) \in Nat
      BY <1>2, DueTyped
    <3>2. /\ proc'[p].age \in Int /\ proc'[p].timer \in Int
          /\ MaxDelay \in Int /\ MaxStartup \in Int /\ Renewal \in Int
      BY LongestBounds, ConstantsAssumption DEF TypeInv, TypeOK, Proc
    <3>3. Due(p)' \in Int
      BY <3>2 DEF Due, Pending, Round, At
    <3> QED
      BY <1>0, <1>2, <2>1, <2>2, <3>1, <3>3 DEF CoverInv
  <2>3. CASE row' = Vacant
    BY <1>0, <2>1, <2>3 DEF CoverInv, Vacant
  <2>4. CASE /\ At(p, "renewing") /\ row' = Lease(p)
             /\ proc'[p].pc = "sleeping" /\ proc'[p].age = 0 /\ proc'[p].timer = Renewal
    <3>1. row'.left >= TTL - MaxDelay
      BY <1>0, <2>4, FreshLease DEF Calls, At
    <3> QED
      BY <1>0, <2>1, <2>4, <3>1, FreshDue DEF CoverInv
  <2> QED
    BY <1>2, <2>2, <2>3, <2>4, PrimaryStep
<1>3. CASE ~IsPrimary(p)' /\ At(p, "claimed")'
  <2>1. CASE Claim(p)
    <3>1. At(p, "claiming") /\ row' = Lease(p) /\ proc'[p].age = proc[p].age
      BY <1>3, <2>1, CallSets, NotPrimarySets DEF Claim, At
    <3> QED
      BY <1>3, <3>1, FreshLease DEF CoverInv, Calls, At
  <2>2. CASE Terminate(p)
    BY <1>0, <1>3, <2>2, TerminateSets DEF CoverInv, Release, Vacant, At
  <2>3. ~Start(p) /\ ~Poll(p) /\ ~Read(p) /\ ~Update(p) /\ ~Confirm(p) /\ ~Crash(p)
    BY <1>3, GotoSets, CallSets, CallCasSets, NotPrimarySets
    DEF Start, Poll, Read, Update, Confirm, Crash, At
  <2>4. ~Hold(p)
    BY <1>3, GotoSets, CallSets, RenewSets DEF Hold, StartupDone, RenewalDue, At
  <2> QED
    BY <2>1, <2>2, <2>3, <2>4 DEF Step, Acquire
<1> QED
  BY <1>1, <1>2, <1>3 DEF CoverInv

LEMMA CoverTick ==
  ASSUME Cover, Tick, NEW p \in Processes
  PROVE  CoverInv(p)'
<1>0. /\ TTL \in Nat /\ MaxDelay \in 0..TTL /\ Gap \in Int /\ p # NoOne /\ TypeInv
  BY ConstantsAssumption DEF Gap, Cover
<1>1. /\ row'.holder = row.holder /\ row.left \in Int
      /\ row'.left = row.left \/ row'.left = row.left - 1
      /\ row.left >= 0 /\ row.holder # NoOne => row'.left = row.left - 1
      /\ proc'[p].pc = proc[p].pc
      /\ proc[p].pc = "claimed" => proc'[p].age = proc[p].age + 1
  BY <1>0, TickMoves DEF Calls
<1>2. CASE IsPrimary(p)' /\ row'.holder = p
  <2>1. IsPrimary(p) /\ Due(p)' = Due(p) - 1 /\ Due(p) \in Nat
    BY <1>0, <1>1, <1>2, PrimaryTick DEF IsPrimary
  <2> QED
    BY <1>0, <1>1, <1>2, <2>1 DEF Cover, CoverInv, IsPrimary, Primary, At
<1>3. CASE At(p, "claimed")' /\ row'.holder = p
  <2>1. At(p, "claimed") /\ row.left = TTL - proc[p].age
    BY <1>1, <1>3 DEF Cover, CoverInv, At
  <2>2. proc[p].age \in Nat /\ proc[p].age <= MaxDelay
    BY <1>0, <2>1, FreshLease DEF Calls, At
  <2> QED
    BY <1>0, <1>1, <1>3, <2>1, <2>2 DEF CoverInv, IsPrimary, Primary, At
<1> QED
  BY <1>2, <1>3 DEF CoverInv

LEMMA CoverInit == Init => Cover
BY TypeInit DEF Init, Cover, CoverInv, IsPrimary, Primary, At

LEMMA CoverNext == Cover /\ [Next]_vars => Cover'
<1> SUFFICES ASSUME Cover, [Next]_vars PROVE Cover'
  OBVIOUS
<1>0. TypeInv /\ TypeInv'
  BY TypeNext DEF Cover
<1>1. CASE Tick
  BY <1>0, <1>1, CoverTick DEF Cover
<1>2. ASSUME NEW p \in Processes, Step(p) PROVE Cover'
  <2>1. Moves(p)
    BY <1>0, <1>2, StepMoves
  <2> QED
    BY <1>0, <1>2, <2>1, CoverOthers, CoverSelf DEF Cover
<1>3. CASE UNCHANGED vars
  <2>1. proc' = proc /\ row' = row
    BY <1>3 DEF vars
  <2> QED
    BY <1>0, <2>1 DEF Cover, CoverInv, IsPrimary, Due, Pending, At
<1> QED
  BY <1>1, <1>2, <1>3 DEF Next, Step

\* A primary that has the lease never goes on longer past its end than Gap, whatever fails
\* and whoever else claims (lock.py:31-33, 257-268).
THEOREM LeaseHolds == Spec => []LeaseCovers
<1>1. Cover => LeaseCovers
  BY DEF Cover, CoverInv, LeaseCovers
<1> QED
  BY <1>1, CoverInit, CoverNext, PTL DEF Spec

----------------------------------------------------------------------------
(* Mutual exclusion.  As long as there is no slip, nobody but the primary writes its *)
(* lease, and a process takes over from a dead one.                                  *)

\* What slipped stays on record.
LEMMA SlipsStay == [Next]_vars => slips \subseteq slips'
<1> SUFFICES ASSUME [Next]_vars PROVE slips \subseteq slips'
  OBVIOUS
<1>1. ASSUME NEW event, May(event) PROVE slips \subseteq slips'
  BY <1>1 DEF May
<1>2. ASSUME UNCHANGED events PROVE slips \subseteq slips'
  BY <1>2 DEF events
<1>3. CASE Tick
  BY <1>3 DEF Tick
<1>4. ASSUME NEW p \in Processes, Step(p) PROVE slips \subseteq slips'
  BY <1>1, <1>2, <1>4 DEF Step, Start, Acquire, Poll, Read, Update, Claim, Confirm, Hold,
     StartupDone, RenewalDue, Renew, Terminate, Crash
<1> QED
  BY <1>3, <1>4 DEF Next, Step, vars

\* A process that works is the holder; the holder has claimed the lock, is primary with
\* a lease that lasts, or is dead; a takeover is one from the dead.
OwnerInv(p) ==
  /\ Works(p) => row.holder = p
  /\ row.holder = p => IsPrimary(p) \/ proc[p].pc \in {"claimed", "dead"}
  /\ IsPrimary(p) /\ row.holder = p => row.left >= 0
  /\ At(p, "updating") => proc[p].expects \in Processes /\ At(proc[p].expects, "dead")

LockInv == Cover /\ (slips = {} => \A p \in Processes : OwnerInv(p))

\* As long as p leaves the row alone, or gives it up, the others keep what they have.
LEMMA OwnerOthers ==
  ASSUME NEW p \in Processes, Moves(p), NEW q \in Processes, q # p, OwnerInv(q),
         row' = row \/ ~Works(q)
  PROVE  OwnerInv(q)'
<1>1. proc'[q] = proc[q] /\ NoOne # q /\ (row' = row \/ row'.holder # q)
  BY ConstantsAssumption DEF Moves, OnlyChanges, Vacant
<1>2. At(q, "updating") => At(proc[q].expects, "dead")'
  BY DEF OwnerInv, Moves, OnlyChanges, At
<1> QED
  BY <1>1, <1>2 DEF OwnerInv, Works, IsPrimary, At

\* No slip, and a write to the row: nobody else works.
LEMMA NobodyElse ==
  ASSUME Cover, \A q \in Processes : OwnerInv(q), NEW p \in Processes, Step(p),
         slips' = {}, row' # row, NEW q \in Processes, q # p
  PROVE  ~Works(q)
<1> USE DEF At, IsPrimary, Primary, Works
<1>0. TypeInv
  BY DEF Cover
<1>1. CASE row.holder = p
  BY <1>1 DEF OwnerInv
<1>2. CASE Update(p) /\ row.holder # p
  <2>1. At(p, "updating") /\ row.holder = proc[p].expects
    BY <1>2 DEF Update, Swaps
  <2> QED
    BY <2>1 DEF OwnerInv
<1>3. CASE Claim(p)
  <2>1. "lost" \notin slips'
    OBVIOUS
  <2>2. slips' = IF \E r \in Processes : IsPrimary(r) THEN slips \cup {"late"} ELSE slips
    BY <1>3, <2>1 DEF Claim, May
  <2> QED
    BY <2>2
<1>4. ~Update(p) /\ ~Claim(p) => row.holder = p
  BY <1>0, TerminateSets, RenewSets
  DEF Step, Start, Acquire, Poll, Read, Confirm, Hold, StartupDone, RenewalDue, Crash, Release
<1> QED
  BY <1>1, <1>2, <1>3, <1>4

LEMMA OwnerSelf ==
  ASSUME Cover, \A q \in Processes : OwnerInv(q), NEW p \in Processes, Step(p),
         slips' = {}, TypeInv'
  PROVE  OwnerInv(p)'
<1> USE DEF At
<1>0. /\ TypeInv /\ TTL \in Nat /\ MaxDelay \in 0..TTL /\ p # NoOne /\ row.left \in Int
      /\ OwnerInv(p) /\ CoverInv(p) /\ row.holder \in Processes \cup {NoOne}
  BY LongestBounds, ConstantsAssumption DEF Cover, TypeInv, TypeOK, Row
<1>00. \A event : May(event) => event # "lost"
  BY DEF May
<1>1. CASE row' = row /\ row.holder # p /\ ~IsPrimary(p)' /\ ~At(p, "updating")'
  BY <1>1 DEF OwnerInv, Works
<1>2. CASE Start(p) \/ Poll(p)
  <2>1. row' = row /\ proc[p].pc \in {"off", "waiting"} /\ proc'[p].pc \in {"waiting", "reading"}
    BY <1>0, <1>2, GotoSets, CallSets DEF Start, Poll
  <2> QED
    BY <1>0, <1>1, <2>1 DEF OwnerInv, IsPrimary, Primary
<1>3. CASE Read(p)
  <2>1. row' = row /\ At(p, "reading") /\ row.holder # p
    BY <1>0, <1>3 DEF Read, OwnerInv, IsPrimary, Primary
  <2>2. CASE row.holder \notin {p, NoOne} /\ Expired(p) /\ CallCas(p, row.holder)
    <3>1. /\ row.holder \in Processes /\ row.left < 0 /\ OnlyChanges(p)
          /\ proc'[p].pc = "updating" /\ proc'[p].expects = row.holder
      BY <1>0, <2>1, <2>2, CallCasSets, FreshLease DEF Expired, Calls
    <3>2. ~At(row.holder, "claimed")
      <4>1. At(row.holder, "claimed") => proc[row.holder].age \in 0..MaxDelay
        BY <1>0, <3>1, FreshLease DEF Calls
      <4> QED
        BY <1>0, <3>1, <4>1 DEF Cover, CoverInv
    <3>3. At(row.holder, "dead")
      BY <1>0, <3>1, <3>2 DEF OwnerInv
    <3>4. proc'[row.holder].pc = "dead"
      BY <2>2, <3>1, <3>3 DEF OnlyChanges
    <3> QED
      BY <2>1, <3>1, <3>4 DEF OwnerInv, Works, IsPrimary, Primary
  <2>3. CASE NotPrimary(p) \/ Call(p, "claiming")
    BY <1>0, <1>1, <2>1, <2>3, NotPrimarySets, CallSets DEF IsPrimary, Primary
  <2> QED
    BY <1>3, <2>1, <2>2, <2>3 DEF Read
<1>4. CASE Update(p)
  <2>1. At(p, "updating") /\ row.holder # p /\ Lease(p).holder = p /\ Lease(p).left >= 0
    BY <1>0, <1>4, FreshLease DEF Update, OwnerInv, IsPrimary, Primary, Calls
  <2>2. CASE row' = Lease(p) /\ Goto(p, "starting", 0)
    BY <1>0, <2>1, <2>2, GotoSets DEF OwnerInv, Works, IsPrimary, Primary
  <2>3. CASE row' = row /\ NotPrimary(p)
    BY <1>0, <1>1, <2>1, <2>3, NotPrimarySets DEF IsPrimary, Primary
  <2> QED
    BY <1>00, <1>4, <2>2, <2>3 DEF Update
<1>5. CASE Claim(p)
  <2>1. At(p, "claiming") /\ row.holder # p /\ Lease(p).holder = p
    BY <1>0, <1>5, FreshLease DEF Claim, OwnerInv, IsPrimary, Primary, Calls
  <2>2. CASE row' = Lease(p) /\ Call(p, "claimed")
    BY <1>0, <2>1, <2>2, CallSets DEF OwnerInv, Works, IsPrimary, Primary
  <2>3. CASE row' = row /\ NotPrimary(p)
    BY <1>0, <1>1, <2>1, <2>3, NotPrimarySets DEF IsPrimary, Primary
  <2> QED
    BY <1>00, <1>5, <2>2, <2>3 DEF Claim
<1>6. CASE Confirm(p)
  <2>1. At(p, "claimed") /\ row' = row
    BY <1>6 DEF Confirm
  <2>2. CASE row.holder = p /\ Goto(p, "starting", 0)
    <3>1. row.left >= 0
      BY <1>0, <2>1, <2>2, FreshLease DEF CoverInv, Calls
    <3> QED
      BY <1>0, <2>1, <2>2, <3>1, GotoSets DEF OwnerInv, Works, IsPrimary, Primary
  <2>3. CASE row.holder # p /\ NotPrimary(p)
    BY <1>0, <1>1, <2>1, <2>3, NotPrimarySets DEF IsPrimary, Primary
  <2> QED
    BY <1>00, <1>6, <2>2, <2>3 DEF Confirm
<1>7. CASE StartupDone(p) \/ RenewalDue(p) \/ Crash(p)
  BY <1>0, <1>7, GotoSets, CallSets
  DEF StartupDone, RenewalDue, Crash, OwnerInv, Works, IsPrimary, Primary
<1>8. CASE Renew(p)
  <2>1. At(p, "renewing") /\ Lease(p).holder = p /\ Lease(p).left >= 0
    BY <1>0, <1>8, FreshLease DEF Renew, Calls
  <2> QED
    BY <1>0, <1>8, <2>1, RenewSets DEF OwnerInv, Works, IsPrimary, Primary
<1>9. CASE Terminate(p)
  <2>1. proc'[p].stop /\ OnlyChanges(p) /\ proc'[p].expects = proc[p].expects
    BY <1>0, <1>9, TerminateSets
  <2>2. CASE proc'[p].pc = "dead"
    BY <2>1, <2>2 DEF OwnerInv, Works, IsPrimary, Primary
  <2>3. CASE proc'[p].pc = proc[p].pc /\ row' = Release(p) /\ ~At(p, "dead")
    <3>1. row'.holder # p
      BY <1>0, <2>3 DEF Release, Vacant
    <3>2. At(p, "updating") => proc'[proc'[p].expects].pc = "dead"
      BY <1>0, <2>1, <2>3 DEF OwnerInv, OnlyChanges
    <3> QED
      BY <1>0, <2>1, <2>3, <3>1, <3>2 DEF OwnerInv, Works
  <2> QED
    BY <1>0, <1>9, <2>2, <2>3, TerminateSets
<1> QED
  BY <1>2, <1>3, <1>4, <1>5, <1>6, <1>7, <1>8, <1>9 DEF Step, Acquire, Hold

LEMMA OwnerTick ==
  ASSUME Cover, Tick, \A q \in Processes : OwnerInv(q), slips' = {}, NEW p \in Processes
  PROVE  OwnerInv(p)'
<1>1. /\ row'.holder = row.holder
      /\ \A q \in Processes : /\ proc'[q].pc = proc[q].pc /\ proc'[q].stop = proc[q].stop
                              /\ proc'[q].expects = proc[q].expects
  BY TickMoves DEF Cover
<1>2. IsPrimary(p) /\ row.holder = p => row'.left >= 0
  <2>1. ~Overrun(row')
    BY DEF Tick
  <2>2. p # NoOne /\ row'.left \in Int
    BY TickMoves, ConstantsAssumption DEF Cover
  <2> QED
    BY <1>1, <2>1, <2>2 DEF Overrun
<1> QED
  BY <1>1, <1>2 DEF OwnerInv, Works, IsPrimary, At

LEMMA LockInit == Init => LockInv
BY CoverInit, ConstantsAssumption
DEF Init, Vacant, LockInv, OwnerInv, Works, IsPrimary, Primary, At

LEMMA LockNext == LockInv /\ [Next]_vars => LockInv'
<1> SUFFICES ASSUME LockInv, [Next]_vars PROVE LockInv'
  OBVIOUS
<1>0. Cover /\ Cover' /\ TypeInv /\ TypeInv'
  BY CoverNext DEF LockInv, Cover
<1> SUFFICES ASSUME slips' = {} PROVE \A p \in Processes : OwnerInv(p)'
  BY <1>0 DEF LockInv
<1>1. \A p \in Processes : OwnerInv(p)
  BY SlipsStay DEF LockInv
<1>2. CASE Tick
  BY <1>0, <1>1, <1>2, OwnerTick
<1>3. ASSUME NEW p \in Processes, Step(p) PROVE \A q \in Processes : OwnerInv(q)'
  <2>1. OwnerInv(p)'
    BY <1>0, <1>1, <1>3, OwnerSelf
  <2>2. ASSUME NEW q \in Processes, q # p PROVE OwnerInv(q)'
    BY <1>0, <1>1, <1>3, <2>2, StepMoves, NobodyElse, OwnerOthers
  <2> QED
    BY <2>1, <2>2
<1>4. CASE UNCHANGED vars
  <2>1. proc' = proc /\ row' = row
    BY <1>4 DEF vars
  <2> QED
    BY <1>1, <2>1 DEF OwnerInv, Works, IsPrimary, At
<1> QED
  BY <1>2, <1>3, <1>4 DEF Next, Step

\* At most one process works, whatever crashes, fails or is terminated, however long calls
\* and startups take, until a lease runs out on its primary, the reply to a claim is lost, or
\* a claim lands on a primary (lock.py:5).
THEOREM MutualExclusion == Spec => []Exclusion
<1>1. LockInv => Exclusion
  BY DEF LockInv, OwnerInv, Exclusion
<1> QED
  BY <1>1, LockInit, LockNext, PTL DEF Spec

\* A lease never runs out on its primary if it outlasts two renewals, three calls and a
\* startup.
InTime == "overrun" \notin slips

LEMMA CoveredStep ==
  ASSUME Gap <= 0, Cover, Cover', [Next]_vars, InTime
  PROVE  InTime'
<1> USE DEF InTime
<1>1. CASE Tick
  <2>0. TypeInv /\ row.left \in Int /\ (row'.left = row.left \/ row'.left = row.left - 1)
    BY <1>1, TickMoves DEF Cover
  <2>1. TypeInv /\ row'.left \in Int /\ Gap \in Int
    BY <2>0, ConstantsAssumption DEF Gap
  <2>2. ASSUME NEW p \in Processes, row'.holder = p, row'.left < 0, IsPrimary(p) PROVE FALSE
    <3>1. IsPrimary(p)' /\ Due(p)' = Due(p) - 1 /\ Due(p) \in Nat
      BY <1>1, <2>1, <2>2, PrimaryTick
    <3>2. /\ proc'[p].age \in Nat /\ proc'[p].timer \in Nat /\ proc'[p].fails \in {0, 1}
          /\ MaxDelay \in Nat /\ MaxStartup \in Nat /\ Renewal \in Nat
      BY LongestBounds, ConstantsAssumption DEF Cover, TypeInv, TypeOK, Proc
    <3>3. /\ At(p, "starting")' => proc'[p].age <= MaxStartup
          /\ At(p, "renewing")' => proc'[p].age <= MaxDelay
      BY DEF Cover, TypeInv, AgeOK, At, Calls
    <3>4. Due(p)' >= 0
      BY <3>1, <3>2, <3>3 DEF Due, Pending, Round, IsPrimary, Primary, At
    <3> QED
      BY <2>1, <2>2, <3>1, <3>4 DEF Cover, CoverInv
  <2>3. row.holder \in Processes \cup {NoOne} /\ row'.holder = row.holder
    BY <1>1, <2>1, TickMoves DEF TypeInv, TypeOK, Row
  <2> QED
    BY <1>1, <2>2, <2>3 DEF Tick, Overrun
<1>2. ASSUME NEW event, May(event) PROVE "overrun" \notin slips'
  BY <1>2 DEF May
<1>3. ASSUME UNCHANGED events PROVE "overrun" \notin slips'
  BY <1>3 DEF events
<1>4. ASSUME NEW p \in Processes, Step(p) PROVE "overrun" \notin slips'
  BY <1>2, <1>3, <1>4 DEF Step, Start, Acquire, Poll, Read, Update, Claim, Confirm, Hold,
     StartupDone, RenewalDue, Renew, Terminate, Crash
<1> QED
  BY <1>1, <1>4 DEF Next, Step, vars

\* With such a lease two engines work side by side only after a lost reply to a claim, or a
\* claim that lands on a primary.
THEOREM Margin ==
  ASSUME Gap <= 0
  PROVE  Spec => [](slips \subseteq {"lost", "late"} /\ Exclusion)
<1>1. Init => InTime
  BY DEF Init, InTime
<1>2. Cover /\ Cover' /\ [Next]_vars /\ InTime => InTime'
  BY CoveredStep
<1>3. TypeOK /\ InTime => slips \subseteq {"lost", "late"}
  BY DEF TypeOK, Slips, InTime
<1> QED
  BY <1>1, <1>2, <1>3, CoverInit, CoverNext, MutualExclusion, Typing, PTL DEF Spec

----------------------------------------------------------------------------
(* The refinement. *)

\* Two functions that differ in one place, or in two.
LEMMA OneDiffers ==
  ASSUME NEW S, NEW f, f = [x \in S |-> f[x]], NEW g, g = [x \in S |-> g[x]],
         NEW p \in S, \A x \in S : x # p => g[x] = f[x]
  PROVE  g = [f EXCEPT ![p] = g[p]]
OBVIOUS

LEMMA TwoDiffer ==
  ASSUME NEW S, NEW f, f = [x \in S |-> f[x]], NEW g, g = [x \in S |-> g[x]],
         NEW p \in S, NEW q \in S, p # q, \A x \in S : x \notin {p, q} => g[x] = f[x]
  PROVE  g = [f EXCEPT ![p] = g[p], ![q] = g[q]]
OBVIOUS

LEMMA RoleStep ==
  TypeInv /\ TypeInv' /\ [Next]_vars => [Abstract!Next]_[p \in Processes |-> Role(p)]
<1> DEFINE role == [p \in Processes |-> Role(p)]
<1> SUFFICES ASSUME TypeInv, TypeInv', [Next]_vars PROVE Abstract!Next \/ role' = role
  OBVIOUS
<1>0. role = [p \in Processes |-> role[p]] /\ role' = [p \in Processes |-> role'[p]]
  OBVIOUS
<1>1. CASE Tick
  BY <1>1, TickMoves DEF Role, IsPrimary, At
<1>2. CASE UNCHANGED vars
  <2>1. proc' = proc /\ row' = row
    BY <1>2 DEF vars
  <2> QED
    BY <2>1 DEF Role, IsPrimary, At
<1>3. ASSUME NEW p \in Processes, Step(p) PROVE Abstract!Next \/ role' = role
  <2> USE DEF Role, IsPrimary, Primary, At
  <2>1. Moves(p)
    BY <1>3, StepMoves
  <2>2. ASSUME NEW q \in Processes, q # p
        PROVE  /\ row' = row => role'[q] = role[q]
               /\ row.holder = p => role'[q] = role[q]
               /\ row'.holder = p => role'[q] = IF role[q] = "primary" THEN "usurped" ELSE role[q]
    BY <2>1, <2>2, ConstantsAssumption DEF Moves, OnlyChanges, Vacant
  <2>3. CASE row' = row \/ row.holder = p
    <3>0. \A q \in Processes : q # p => role'[q] = role[q]
      BY <2>2, <2>3
    <3>1. role' = [role EXCEPT ![p] = role'[p]]
      <4> HIDE DEF role
      <4> QED
        BY <1>0, <3>0, OneDiffers
    <3>2. \/ role'[p] = role[p]
          \/ role'[p] = "gone" /\ role[p] # "gone"
          \/ role'[p] = "usurped" /\ role[p] = "primary"
          \/ role'[p] = "primary" /\ role[p] = "standby" /\ row.holder = p
      BY <2>1, <2>3, ConstantsAssumption DEF Moves, Vacant
    <3>3. CASE role'[p] = "primary" /\ role[p] = "standby" /\ row.holder = p
      <4>1. \A q \in Processes : role[q] # "primary"
        BY <3>3
      <4>2. role' = [q \in Processes |-> IF q = p THEN "primary"
                       ELSE IF role[q] = "primary" THEN "usurped" ELSE role[q]]
        BY <3>0, <3>3, <4>1
      <4> QED
        BY <3>3, <4>2 DEF Abstract!Next, Abstract!Take
    <3> QED
      BY <3>1, <3>2, <3>3 DEF Abstract!Next, Abstract!Leave, Abstract!Lose
  <2>4. CASE row' # row /\ row.holder # p
    <3>1. row'.holder = p /\ ~IsPrimary(p) /\ role[p] = "standby"
      BY <2>1, <2>4 DEF Moves
    <3>2. \A q \in Processes : q # p =>
            role'[q] = IF role[q] = "primary" THEN "usurped" ELSE role[q]
      BY <2>2, <3>1
    <3>3. \A q, r \in Processes : role[q] = "primary" /\ role[r] = "primary" => q = r
      OBVIOUS
    <3>4. role'[p] \in {"standby", "primary", "gone"}
      BY <2>1, <3>1 DEF Moves
    <3>5. CASE role'[p] = "primary"
      <4>1. role' = [q \in Processes |-> IF q = p THEN "primary"
                       ELSE IF role[q] = "primary" THEN "usurped" ELSE role[q]]
        BY <3>2, <3>5
      <4> QED
        BY <3>1, <4>1 DEF Abstract!Next, Abstract!Take
    <3>6. CASE role'[p] # "primary" /\ \E q \in Processes : role[q] = "primary"
      <4>1. PICK q \in Processes : role[q] = "primary"
        BY <3>6
      <4>0. /\ q # p /\ role'[q] = "usurped"
            /\ \A r \in Processes : r \notin {p, q} => role'[r] = role[r]
        BY <3>1, <3>2, <3>3, <4>1
      <4>2. q # p /\ role' = [role EXCEPT ![p] = role'[p], ![q] = "usurped"]
        <5> HIDE DEF role
        <5>1. role' = [role EXCEPT ![p] = role'[p], ![q] = role'[q]]
          BY <1>0, <4>0, TwoDiffer
        <5> QED
          BY <4>0, <5>1
      <4>3. CASE role'[p] = "gone"
        BY <3>1, <4>1, <4>2, <4>3 DEF Abstract!Next, Abstract!Leave
      <4>4. CASE role'[p] = "standby"
        <5>1. role' = [role EXCEPT ![q] = "usurped"]
          BY <3>1, <4>2, <4>4
        <5> QED
          BY <4>1, <5>1 DEF Abstract!Next, Abstract!Lose
      <4> QED
        BY <3>4, <3>6, <4>3, <4>4
    <3>7. CASE role'[p] # "primary" /\ \A q \in Processes : role[q] # "primary"
      <4>0. \A q \in Processes : q # p => role'[q] = role[q]
        BY <3>2, <3>7
      <4>1. role' = [role EXCEPT ![p] = role'[p]]
        <5> HIDE DEF role
        <5> QED
          BY <1>0, <4>0, OneDiffers
      <4> QED
        BY <3>1, <3>4, <3>7, <4>1 DEF Abstract!Next, Abstract!Leave
    <3> QED
      BY <3>5, <3>6, <3>7
  <2> QED
    BY <2>3, <2>4
<1> QED
  BY <1>1, <1>2, <1>3 DEF Next, Step

\* The lock implements Primacy, whatever happens: one that has lost the lease never has it
\* again, and one that has stopped never works again (lock.py:5, main.py:107-140).
THEOREM Refinement == Spec => ImplementsPrimacy
<1>1. Init => Abstract!Init
  BY DEF Init, Abstract!Init, Role, IsPrimary, Primary, At
<1>2. TypeInv /\ TypeInv' /\ [Next]_vars => [Abstract!Next]_[p \in Processes |-> Role(p)]
  BY RoleStep
<1> QED
  BY <1>1, <1>2, TypeInit, TypeNext, PTL DEF Spec, ImplementsPrimacy, Abstract!Spec
================================================================================
