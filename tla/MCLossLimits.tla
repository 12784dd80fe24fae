------------------------------ MODULE MCLossLimits -----------------------------
(* Instances of LossLimits for TLC. *)
EXTENDS LossLimits

\* The main account and the crypto sub-account.
TwoAccounts == [a \in {"MAIN", "CRYPTO"} |-> IF a = "MAIN" THEN 16 ELSE 4]
OneAccount == [a \in {"MAIN"} |-> 20]
\* A loss that reaches the daily limit of both accounts, and a profit.
SmallPnls == {-1, 1}
================================================================================
