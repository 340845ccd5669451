----------------------------- MODULE MCQueryPool -----------------------------
EXTENDS QueryPool, TLC
=============================================================================
