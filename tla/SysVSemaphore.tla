--------------------------- MODULE SysVSemaphore ---------------------------
(***************************************************************************)
(* The lock of np_multi_proc: include/np_multi_proc/semaphore.hpp.         *)
(*                                                                         *)
(* One System V semaphore, 0 when the lock is free.  lock() waits for zero *)
(* and adds one in a single semop(), unlock() subtracts one without        *)
(* waiting; both ask the kernel to undo their effect when the process      *)
(* dies (SEM_UNDO).  Neither looks at why semop() failed: the error is     *)
(* printed and the caller goes on.  semop() is never restarted after a     *)
(* signal handler, so a process asleep in lock() that catches SIGUSR1 or   *)
(* SIGCHLD comes back from lock() without the lock.                        *)
(***************************************************************************)
EXTENDS Integers, FiniteSets

CONSTANTS Proc,       \* the session processes
          NoOne,      \* no process
          MaxEintr    \* bound on the semop() calls a signal interrupts

ASSUME ConstantsAssumption ==
  /\ NoOne \notin Proc
  /\ MaxEintr \in Nat

VARIABLES pc,      \* where each process is
          semval,  \* the value of sem#0
          semadj,  \* the adjustment the kernel applies when a process dies
          eintr    \* interrupted calls so far

vars == <<pc, semval, semadj, eintr>>

(***************************************************************************)
(* The operations.  wait0: fail to start unless the value is 0; add: what  *)
(* is added to the value; undo: SEM_UNDO.                                  *)
(***************************************************************************)
\* Mutants: no SEM_UNDO in one of the two; no wait for zero in op_lock.
op_lock_no_undo   == [wait0 |-> TRUE,  add |-> 1,  undo |-> FALSE]
op_lock_no_wait   == [wait0 |-> FALSE, add |-> 1,  undo |-> TRUE]
op_unlock_no_undo == [wait0 |-> FALSE, add |-> -1, undo |-> FALSE]

op_lock   == [wait0 |-> TRUE,  add |-> 1,  undo |-> TRUE]
op_unlock == [wait0 |-> FALSE, add |-> -1, undo |-> TRUE]

\* semop() of the kernel: all of the operation or nothing.
Possible(op) == (op.wait0 => semval = 0) /\ semval + op.add >= 0

Apply(p, op) ==
  /\ semval' = semval + op.add
  /\ semadj' = [semadj EXCEPT ![p] = IF op.undo THEN @ - op.add ELSE @]

Init ==
  /\ pc = [p \in Proc |-> "out"]
  /\ semval = 0
  /\ semadj = [p \in Proc |-> 0]
  /\ eintr = 0

-----------------------------------------------------------------------------
Goto(p, to) == pc' = [pc EXCEPT ![p] = to]

\* lock() succeeds, at once or woken up.
Lock(p) ==
  /\ pc[p] \in {"out", "asleep"}
  /\ Possible(op_lock)
  /\ Apply(p, op_lock)
  /\ Goto(p, "in")
  /\ UNCHANGED eintr

\* lock() has to wait.
Sleep(p) ==
  /\ pc[p] = "out"
  /\ ~Possible(op_lock)
  /\ Goto(p, "asleep")
  /\ UNCHANGED <<semval, semadj, eintr>>

\* A signal handler ran: semop() fails with EINTR, lock() prints and returns.
LockInterrupted(p) ==
  /\ pc[p] = "asleep"
  /\ eintr < MaxEintr
  /\ eintr' = eintr + 1
  /\ Goto(p, "in")
  /\ UNCHANGED <<semval, semadj>>

Unlock(p) ==
  /\ pc[p] = "in"
  /\ Possible(op_unlock)
  /\ Apply(p, op_unlock)
  /\ Goto(p, "out")
  /\ UNCHANGED eintr

\* The value is already 0: IPC_NOWAIT makes semop() fail with EAGAIN.
UnlockFails(p) ==
  /\ pc[p] = "in"
  /\ ~Possible(op_unlock)
  /\ Goto(p, "out")
  /\ UNCHANGED <<semval, semadj, eintr>>

\* The process ends, by exit() or a signal, wherever it is: the kernel applies
\* its adjustment, never below 0.
Die(p) ==
  /\ pc[p] # "dead"
  /\ semval' = IF semval + semadj[p] < 0 THEN 0 ELSE semval + semadj[p]
  /\ semadj' = [semadj EXCEPT ![p] = 0]
  /\ Goto(p, "dead")
  /\ UNCHANGED eintr

\* Another client connects: a new process, with no adjustment of its own.
Fork(p) ==
  /\ pc[p] = "dead"
  /\ Goto(p, "out")
  /\ UNCHANGED <<semval, semadj, eintr>>

Next ==
  \E p \in Proc :
    \/ Lock(p) \/ Sleep(p) \/ LockInterrupted(p)
    \/ Unlock(p) \/ UnlockFails(p)
    \/ Die(p) \/ Fork(p)

(***************************************************************************)
(* The kernel serves the sleepers of a semaphore in the order they came,   *)
(* so no sleeper is passed over for ever (strong fairness of Lock); what   *)
(* is done inside the lock is finite (weak fairness of leaving it).        *)
(***************************************************************************)
Fairness ==
  \A p \in Proc :
    /\ SF_vars(Lock(p))
    /\ WF_vars(Unlock(p) \/ UnlockFails(p))

Spec == Init /\ [][Next]_vars
FairSpec == Spec /\ Fairness

-----------------------------------------------------------------------------
Inside(p) == pc[p] = "in"
Insiders == {p \in Proc : Inside(p)}

(***************************************************************************)
(* Whatever is interrupted and whoever dies, the value and the adjustments *)
(* do not drift: the operations of the two calls cancel out, in the value  *)
(* and in what the kernel still owes, up to one per interrupted call.      *)
(***************************************************************************)
TypeOK ==
  /\ pc \in [Proc -> {"out", "asleep", "in", "dead"}]
  /\ eintr \in 0..MaxEintr
  /\ semval \in 0..(1 + eintr)
  /\ semadj \in [Proc -> -(1 + eintr)..eintr]

\* No two processes are between lock() and unlock() at once: every reader
\* and writer of the shared memory counts on it.  Only as long as no call is
\* interrupted.
MutualExclusion == \A p, q \in Proc : Inside(p) /\ Inside(q) => p = q

\* Each interrupted lock() lets at most one process too many in, ever: not one
\* each time the lock changes hands, although the process it let in calls
\* unlock(), may free the lock of another, and may die before or after that.
CrowdBounded == Cardinality(Insiders) <= 1 + eintr

\* The value counts the processes inside, and is wrong by at most the number of
\* interrupted calls: failed calls of unlock() and adjustments applied at the
\* end of a process never make it worse.
CountsInside ==
  /\ semval <= Cardinality(Insiders) + eintr
  /\ Cardinality(Insiders) <= semval + eintr

\* The semaphore is at most 1 and not left set by a process that is no longer
\* inside, whether it called unlock() or died: otherwise every later lock()
\* sleeps until a signal comes.  Only as long as no call is interrupted: if p2
\* is, while p1 is inside, and p2 unlocks, p1's unlock() fails, and when p2
\* exits the kernel adds the 1 back that p2 took away: 1 and nobody inside.
NeverLeftSet == semval <= 1 /\ (semval = 1 => \E p \in Proc : Inside(p))

\* A process that sleeps in lock() gets in, or dies, also when the holder is
\* killed inside the lock.  As long as no call is interrupted, for the same
\* reason.
SleeperGetsIn == \A p \in Proc : pc[p] = "asleep" ~> pc[p] \in {"in", "dead"}

\* While no call is interrupted the semaphore is a Mutex.
Holder == IF \E p \in Proc : Inside(p)
          THEN CHOOSE p \in Proc : Inside(p)
          ELSE NoOne
M == INSTANCE Mutex WITH holder <- Holder
IsMutex == M!Spec
=============================================================================
