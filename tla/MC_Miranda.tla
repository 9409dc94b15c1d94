----------------------------- MODULE MC_Miranda -----------------------------
EXTENDS Miranda

\* One avoided range, [1, 2) in max_address units; the other three unset.
MCAvoidMin == [i \in 0..3 |-> IF i = 1 THEN 1 ELSE 0]
MCAvoidMax == [i \in 0..3 |-> IF i = 1 THEN 2 ELSE 0]
====
