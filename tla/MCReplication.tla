--------------------------- MODULE MCReplication ---------------------------
EXTENDS Replication
=============================================================================
