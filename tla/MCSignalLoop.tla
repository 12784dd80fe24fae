----------------------------- MODULE MCSignalLoop -----------------------------
(* Instances of SignalLoop for TLC. *)
EXTENDS SignalLoop

JpyFirst == <<"JPY", "BTC">>
Uncorrelated == [pq \in Pairs \X Pairs |-> IF pq[1] = pq[2] THEN 100 ELSE 0]
\* A stop of one or two yen at 150, and of 1000 or 1600 dollars at 100000.
Stops == [p \in Pairs |->
  IF p = "JPY" THEN {[entry |-> 150, distance |-> d] : d \in {1, 2}}
  ELSE {[entry |-> 100000, distance |-> d] : d \in {1000, 1600}}]
\* The dashboard: one position, two of which one per pair, PAPER.
Rows == {[maxOpen |-> 1, maxPerPair |-> 1, minConf |-> 70, maxRisk |-> 30, mode |-> "LIVE"],
         [maxOpen |-> 2, maxPerPair |-> 1, minConf |-> 75, maxRisk |-> 10, mode |-> "LIVE"],
         [maxOpen |-> 2, maxPerPair |-> 2, minConf |-> 70, maxRisk |-> 30, mode |-> "PAPER"]}
Fresh == [maxOpen |-> 2, maxPerPair |-> 1, minConf |-> 70, maxRisk |-> 30, mode |-> "PAPER"]
================================================================================
