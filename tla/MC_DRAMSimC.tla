---------------------------- MODULE MC_DRAMSimC ----------------------------
EXTENDS DRAMSimC

\* Address a is on DRAMSim channel a.
MCChannel == [a \in Addrs |-> a]
====
