------------------------------ MODULE MC_Gateway ------------------------------
EXTENDS Gateway

MCUris == {"u1", "u2"}
MCShardOf == [u \in MCUris |-> IF u = "u1" THEN 1 ELSE 2]
=============================================================================
