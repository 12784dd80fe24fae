------------------------------- MODULE TradeBook -------------------------------
(***************************************************************************)
(* What the table "trades" and the loss-limit counters promise, whoever     *)
(* does the work: a row is opened once, closed once, and after its close    *)
(* counted at most once.  TradeLedger implements this.                      *)
(***************************************************************************)
EXTENDS Naturals

CONSTANT Rows
VARIABLES status,  \* "FREE", "OPEN" or "CLOSED", per row
          counted  \* how often the row's P&L went into the counters

Init == /\ status = [r \in Rows |-> "FREE"]
        /\ counted = [r \in Rows |-> 0]

Uncounted(S) == \A r \in S : counted[r] = 0
Count(S) == counted' = [r \in Rows |-> counted[r] + IF r \in S THEN 1 ELSE 0]

Open(r) == /\ status[r] = "FREE"
           /\ status' = [status EXCEPT ![r] = "OPEN"]
           /\ UNCHANGED counted

\* The close of a row, counted in the same step or not.
Close(r) == /\ status[r] = "OPEN"
            /\ status' = [status EXCEPT ![r] = "CLOSED"]
            /\ \E S \in {{}, {r}} : Uncounted(S) /\ Count(S)

\* Rows closed earlier are counted together.
CountLater(S) == /\ \A r \in S : status[r] = "CLOSED"
                 /\ Uncounted(S) /\ Count(S)
                 /\ UNCHANGED status

Next == \/ \E r \in Rows : Open(r) \/ Close(r)
        \/ \E S \in SUBSET Rows : CountLater(S)

Spec == Init /\ [][Next]_<<status, counted>>
================================================================================
