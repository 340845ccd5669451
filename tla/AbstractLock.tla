---------------------------- MODULE AbstractLock ----------------------------
(***************************************************************************)
(* What callers of FileLock (src/src/utils.ts) are promised: a lock that   *)
(* at most one live process holds, that only its holder gives up, and that *)
(* a crash of the holder frees for the others.                             *)
(***************************************************************************)
CONSTANTS Proc, Nobody

VARIABLE owner

Init == owner = Nobody

Acquire(p) == owner = Nobody /\ owner' = p

\* Release, or the death of the holder.
Drop == owner # Nobody /\ owner' = Nobody

Next == Drop \/ \E p \in Proc : Acquire(p)

Spec == Init /\ [][Next]_owner
=============================================================================
