----------------------------- MODULE MCCpuPools -----------------------------
\* Three cpus on two nodes; the first node has one.
EXTENDS CpuPools

Topology == [c \in 0..2 |-> IF c = 0 THEN 0 ELSE 1]
=============================================================================
