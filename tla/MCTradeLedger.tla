----------------------------- MODULE MCTradeLedger -----------------------------
(* Instances of TradeLedger for TLC. *)
EXTENDS TradeLedger, TLC

CONSTANTS o1, o2, s1, s2

\* Two orders from two signals, one per OANDA account.
TwoSignals == o1 :> s1 @@ o2 :> s2
TwoAccounts == o1 :> "MAIN" @@ o2 :> "CRYPTO"
\* A signal fed twice.
OneSignal == o1 :> s1 @@ o2 :> s1
BothMain == o1 :> "MAIN" @@ o2 :> "MAIN"
BothLive == o1 :> "LIVE" @@ o2 :> "LIVE"
ShadowAndLive == o1 :> "PAPER_SHADOW" @@ o2 :> "LIVE"
\* One order.
Single == o1 :> s1
SingleMain == o1 :> "MAIN"
SingleCrypto == o1 :> "CRYPTO"
SingleCapital == o1 :> "CAPITAL"
SingleLive == o1 :> "LIVE"

RowSymmetry == Permutations(Rows)
================================================================================
