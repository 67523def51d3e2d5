---------------------------- MODULE MCSyncEngine ----------------------------
\* Two devices; the commands each runs are named for what they do.
EXTENDS SyncEngine, TLC

CONSTANTS laptop, server, lpush, lpull, lpull2, lpush2, spush, spull, spull2

MCDevices == {laptop, server}
MCHome == [r \in Runs |-> IF r \in {lpush, lpush2, lpull, lpull2} THEN laptop
                          ELSE server]
=============================================================================
