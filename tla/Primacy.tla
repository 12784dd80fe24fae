-------------------------------- MODULE Primacy --------------------------------
(***************************************************************************)
(* What the lock promises the rest of the system.  A lease names one process *)
(* the primary.  A process that works may lose that, to another one or for   *)
(* good, and go on for a while without knowing; it never has it again, and   *)
(* one that has stopped never works again.                                   *)
(***************************************************************************)
CONSTANT Processes
VARIABLE role  \* "standby", "primary", "usurped" or "gone", per process

Init == role = [p \in Processes |-> "standby"]

\* A waiting process becomes the primary; if another one was, that one is usurped.
Take(p) ==
  /\ role[p] = "standby"
  /\ role' = [q \in Processes |-> IF q = p THEN "primary"
                                  ELSE IF role[q] = "primary" THEN "usurped" ELSE role[q]]

\* The primary loses the lease to a claim that is not decided yet, or releases it.
Lose(p) == /\ role[p] = "primary"
           /\ role' = [role EXCEPT ![p] = "usurped"]

\* A process ends, as the primary, usurped, or before; its last claim may have taken the
\* lease from the primary.
Leave(p) ==
  /\ role[p] # "gone"
  /\ \/ role' = [role EXCEPT ![p] = "gone"]
     \/ \E q \in Processes \ {p} :
          role[q] = "primary" /\ role' = [role EXCEPT ![p] = "gone", ![q] = "usurped"]

Next == \E p \in Processes : Take(p) \/ Lose(p) \/ Leave(p)

Spec == Init /\ [][Next]_role
================================================================================
