---------------------------- MODULE MCWatchTree -----------------------------
EXTENDS WatchTree

CONSTANTS d1, d2, s

\* s lies in d1; d1 and d2 in the project root.
MCAbove == [d \in Dir |-> IF d = s THEN {d1} ELSE {}]
=============================================================================
