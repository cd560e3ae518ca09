------------------------------- MODULE Mutex -------------------------------
(***************************************************************************)
(* What the callers of lock() and unlock() in np_multi_proc rely on: a     *)
(* lock held by at most one process, given back by its holder or, when     *)
(* the holder dies, by the kernel.                                         *)
(***************************************************************************)
CONSTANTS Proc,   \* the processes that call lock() and unlock()
          NoOne   \* the value of holder when the lock is free

VARIABLE holder

Init == holder = NoOne

Acquire(p) == holder = NoOne /\ holder' = p

Release(p) == holder = p /\ holder' = NoOne

Next == \E p \in Proc : Acquire(p) \/ Release(p)

Spec == Init /\ [][Next]_holder
=============================================================================
