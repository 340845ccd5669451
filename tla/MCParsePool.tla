------------------------------ MODULE MCParsePool -----------------------------
EXTENDS ParsePool, TLC
=============================================================================
