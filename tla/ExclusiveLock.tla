---------------------------- MODULE ExclusiveLock ----------------------------
(***************************************************************************)
(* What the users of the drain lock (the drain, the daemon's classify      *)
(* pass, the recovery scan, reenrich, reindex, taxonomy promote and the    *)
(* taxonomy seed) expect of it: a lock with at most one holder, granted    *)
(* only when free, given back by its holder or lost with it.               *)
(***************************************************************************)
CONSTANTS Pids,   \* the process ids the operating system can hand out
          NoPid   \* the lock is free (no pid)

VARIABLE holder   \* the process that owns the lock, or NoPid

Init == holder = NoPid

\* acquireDrainLock returned an unreleased handle to p.
Grant(p) == holder = NoPid /\ holder' = p

\* p released its handle, was aborted, or died.
GiveUp(p) == holder = p /\ holder' = NoPid

Next == \E p \in Pids : Grant(p) \/ GiveUp(p)

Spec == Init /\ [][Next]_holder
=============================================================================
