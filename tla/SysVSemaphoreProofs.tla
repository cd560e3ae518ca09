------------------------ MODULE SysVSemaphoreProofs ------------------------
(***************************************************************************)
(* For any set of processes, ending anywhere.  Without interrupted calls   *)
(* the semaphore of semaphore.hpp is a mutual exclusion lock that survives *)
(* the death of its holder and is never left set.  With interrupted calls  *)
(* it is wrong by at most their number: in how many processes are inside,  *)
(* and in the value that stays behind.                                     *)
(***************************************************************************)
EXTENDS SysVSemaphore, FiniteSetTheorems, TLAPS

\* The definitions every step of the proofs looks into.
USE ConstantsAssumption

(***************************************************************************)
(* The variables have the kind of value they began with.                   *)
(***************************************************************************)
TypeInv ==
  /\ pc \in [Proc -> {"out", "asleep", "in", "dead"}]
  /\ semval \in Nat
  /\ semadj \in [Proc -> Int]
  /\ eintr \in 0..MaxEintr

LEMMA TypeInvStep == TypeInv /\ [Next]_vars => TypeInv'
<1> SUFFICES ASSUME TypeInv, [Next]_vars PROVE TypeInv'
  OBVIOUS
<1> USE DEF TypeInv, Goto
<1>1. ASSUME NEW p \in Proc, Lock(p) PROVE TypeInv'
  BY <1>1 DEF Lock, Apply, Possible, op_lock
<1>2. ASSUME NEW p \in Proc, Sleep(p) PROVE TypeInv'
  BY <1>2 DEF Sleep
<1>3. ASSUME NEW p \in Proc, LockInterrupted(p) PROVE TypeInv'
  BY <1>3 DEF LockInterrupted
<1>4. ASSUME NEW p \in Proc, Unlock(p) PROVE TypeInv'
  BY <1>4 DEF Unlock, Apply, Possible, op_unlock
<1>5. ASSUME NEW p \in Proc, UnlockFails(p) PROVE TypeInv'
  BY <1>5 DEF UnlockFails
<1>6. ASSUME NEW p \in Proc, Die(p) PROVE TypeInv'
  BY <1>6 DEF Die
<1>7. ASSUME NEW p \in Proc, Fork(p) PROVE TypeInv'
  BY <1>7 DEF Fork
<1>8. CASE UNCHANGED vars
  BY <1>8 DEF vars
<1> QED
  BY <1>1, <1>2, <1>3, <1>4, <1>5, <1>6, <1>7, <1>8 DEF Next

-----------------------------------------------------------------------------
(***************************************************************************)
(* Without interrupted calls the value counts the processes inside, and    *)
(* the kernel owes each of them exactly the one it added: this is what     *)
(* makes undoing a dead holder's lock right.                               *)
(***************************************************************************)
UndoIsExact == \A p \in Proc : semadj[p] = IF Inside(p) THEN -1 ELSE 0

LockInv ==
  /\ TypeInv
  /\ eintr = 0
  /\ UndoIsExact
  /\ MutualExclusion
  /\ semval = IF \E p \in Proc : Inside(p) THEN 1 ELSE 0

LEMMA LockInvHolds ==
  ASSUME MaxEintr = 0
  PROVE  Spec => []LockInv
<1>1. Init => LockInv
  BY DEF Init, LockInv, TypeInv, UndoIsExact, MutualExclusion, Inside
<1>2. LockInv /\ [Next]_vars => LockInv'
  <2> SUFFICES ASSUME LockInv, [Next]_vars PROVE LockInv'
    OBVIOUS
  <2> USE DEF LockInv, TypeInv, UndoIsExact, MutualExclusion, Inside, Goto
  <2>1. ASSUME NEW p \in Proc, Lock(p) PROVE LockInv'
    BY <2>1 DEF Lock, Apply, Possible, op_lock
  <2>2. ASSUME NEW p \in Proc, Sleep(p) PROVE LockInv'
    BY <2>2 DEF Sleep
  <2>3. ASSUME NEW p \in Proc, LockInterrupted(p) PROVE LockInv'
    BY <2>3, MaxEintr = 0 DEF LockInterrupted
  <2>4. ASSUME NEW p \in Proc, Unlock(p) PROVE LockInv'
    BY <2>4 DEF Unlock, Apply, Possible, op_unlock
  <2>5. ASSUME NEW p \in Proc, UnlockFails(p) PROVE LockInv'
    BY <2>5 DEF UnlockFails, Possible, op_unlock
  <2>6. ASSUME NEW p \in Proc, Die(p) PROVE LockInv'
    BY <2>6 DEF Die
  <2>7. ASSUME NEW p \in Proc, Fork(p) PROVE LockInv'
    BY <2>7 DEF Fork
  <2>8. CASE UNCHANGED vars
    BY <2>8 DEF vars
  <2> QED
    BY <2>1, <2>2, <2>3, <2>4, <2>5, <2>6, <2>7, <2>8 DEF Next
<1> QED
  BY <1>1, <1>2, PTL DEF Spec

(***************************************************************************)
(* Mutual exclusion of lock() and unlock(), for any number of processes    *)
(* dying anywhere, as long as no semop() is interrupted.                   *)
(***************************************************************************)
THEOREM Exclusion ==
  ASSUME MaxEintr = 0
  PROVE  Spec => []MutualExclusion
<1>1. LockInv => MutualExclusion
  BY DEF LockInv
<1> QED
  BY <1>1, LockInvHolds, PTL

(***************************************************************************)
(* As long as no semop() is interrupted the value is at most 1, and 1 only *)
(* while somebody is inside, wherever the processes before him died.       *)
(***************************************************************************)
THEOREM NoStuckSemaphore ==
  ASSUME MaxEintr = 0
  PROVE  Spec => []NeverLeftSet
<1>1. LockInv => NeverLeftSet
  BY DEF LockInv, NeverLeftSet
<1> QED
  BY <1>1, LockInvHolds, PTL

-----------------------------------------------------------------------------
(***************************************************************************)
(* The sum of the positive values of a function on processes, counted as   *)
(* the cells under its graph.                                              *)
(***************************************************************************)
Cells(f) == {c \in Proc \X Nat : 1 <= c[2] /\ c[2] <= f[c[1]]}
Total(f) == Cardinality(Cells(f))
Positive(n) == IF n > 0 THEN n ELSE 0

\* The cells of one process.
LEMMA Row ==
  ASSUME NEW p \in Proc, NEW n \in Int
  PROVE  /\ IsFiniteSet({p} \X (1..n))
         /\ Cardinality({p} \X (1..n)) = Positive(n)
<1>1. IsFiniteSet(1..n) /\ Cardinality(1..n) = Positive(n)
  BY FS_Interval DEF Positive
<1>2. IsFiniteSet({p}) /\ Cardinality({p}) = 1
  BY FS_Singleton
<1> QED
  BY <1>1, <1>2, FS_Product DEF Positive

\* Two disjoint sets are counted one after the other.
LEMMA DisjointUnion ==
  ASSUME NEW S, IsFiniteSet(S), NEW T, IsFiniteSet(T), S \cap T = {},
         NEW U, U = S \cup T
  PROVE  /\ IsFiniteSet(U)
         /\ Cardinality(U) = Cardinality(S) + Cardinality(T)
<1>1. Cardinality(S) \in Nat /\ Cardinality(T) \in Nat
  BY FS_CardinalityType
<1>2. /\ IsFiniteSet(S \cup T)
      /\ Cardinality(S \cup T)
           = Cardinality(S) + Cardinality(T) - Cardinality(S \cap T)
  BY FS_Union
<1>3. Cardinality(S \cap T) = 0
  BY FS_EmptySet
<1> QED
  BY <1>1, <1>2, <1>3

\* g is f but for the value n at p: its sum is that of f but for the part of p.
Moves(f, p, n, g) ==
  /\ IsFiniteSet(Cells(g))
  /\ Total(f) \in Nat /\ Total(g) \in Nat
  /\ Positive(f[p]) <= Total(f)
  /\ Total(g) = Total(f) - Positive(f[p]) + Positive(n)

\* The sum moves by what changes at the one place where the function does.
LEMMA TotalMoves ==
  ASSUME NEW f \in [Proc -> Int], NEW p \in Proc, IsFiniteSet(Cells(f)),
         NEW n \in Int, NEW g, g = [f EXCEPT ![p] = n]
  PROVE  Moves(f, p, n, g)
<1> DEFINE Others == {c \in Cells(f) : c[1] # p}
           RowF == {p} \X (1..f[p])
           RowG == {p} \X (1..n)
<1>1. IsFiniteSet(Others) /\ Cardinality(Others) \in Nat
  <2>1. Others \in SUBSET Cells(f)
    OBVIOUS
  <2> QED
    BY <2>1, FS_Subset, FS_CardinalityType
<1>2. Cells(f) = Others \cup RowF /\ Others \cap RowF = {}
  BY DEF Cells
<1>3. Cells(g) = Others \cup RowG /\ Others \cap RowG = {}
  BY DEF Cells
<1>4. /\ IsFiniteSet(RowF) /\ Cardinality(RowF) = Positive(f[p])
      /\ IsFiniteSet(RowG) /\ Cardinality(RowG) = Positive(n)
  BY Row
<1>5. Total(f) = Cardinality(Others) + Positive(f[p])
  BY <1>1, <1>2, <1>4, DisjointUnion DEF Total
<1>6. IsFiniteSet(Cells(g)) /\ Total(g) = Cardinality(Others) + Positive(n)
  <2>1. /\ IsFiniteSet(Cells(g))
        /\ Cardinality(Cells(g)) = Cardinality(Others) + Cardinality(RowG)
    <3> HIDE DEF Others, RowG
    <3> QED
      BY <1>1, <1>3, <1>4, DisjointUnion
  <2> QED
    BY <2>1, <1>4 DEF Total
<1> HIDE DEF Others
<1> QED
  BY <1>1, <1>5, <1>6 DEF Positive, Moves

\* No part is more than the sum.
LEMMA PartOfTotal ==
  ASSUME NEW f \in [Proc -> Int], NEW p \in Proc, IsFiniteSet(Cells(f))
  PROVE  Positive(f[p]) <= Total(f)
<1>1. \E g : g = [f EXCEPT ![p] = 0]
  OBVIOUS
<1> QED
  BY <1>1, TotalMoves DEF Moves

\* A function that is nowhere greater has no greater sum.
LEMMA TotalMonotone ==
  ASSUME NEW f \in [Proc -> Int], NEW g \in [Proc -> Int],
         \A p \in Proc : f[p] <= g[p], IsFiniteSet(Cells(g))
  PROVE  Total(f) <= Total(g)
<1>1. Cells(f) \in SUBSET Cells(g)
  BY DEF Cells
<1> QED
  BY <1>1, FS_Subset DEF Total

(***************************************************************************)
(* The accounts of the processes.  What a process has added to the value   *)
(* and taken from it, a coming unlock() included, the kernel will undo in  *)
(* full when it ends.  Surplus is more than 0 for a process that takes off *)
(* more than it added: one that an interrupted call let in.  Deficit, its  *)
(* opposite, is more than 0 for one that added more: its unlock() failed.  *)
(* Of both there are only as many as calls were interrupted, which is what *)
(* the value is wrong by, and what it will be wrong by when they end.      *)
(***************************************************************************)
Surplus == [p \in Proc |-> semadj[p] + (IF Inside(p) THEN 1 ELSE 0)]
Deficit == [p \in Proc |-> -Surplus[p]]

Finite ==
  /\ IsFiniteSet(Insiders)
  /\ IsFiniteSet(Cells(Surplus))
  /\ IsFiniteSet(Cells(Deficit))
  /\ IsFiniteSet(Cells(semadj))

Accounts ==
  /\ Total(Surplus) <= eintr
  /\ Cardinality(Insiders) + Total(Deficit) <= semval + Total(Surplus)
  /\ semval + Total(Surplus) <= Cardinality(Insiders) + eintr
  /\ Cardinality(Insiders) <= 1 + eintr
  /\ semval + Total(semadj) <= 1 + eintr

AccountInv == TypeInv /\ Finite /\ Accounts

\* The functions the sums are taken of have values in Int.
LEMMA AccountTypes ==
  ASSUME TypeInv
  PROVE  /\ Surplus \in [Proc -> Int] /\ Deficit \in [Proc -> Int]
         /\ semadj \in [Proc -> Int] /\ semval \in Nat
         /\ eintr \in Nat /\ eintr <= MaxEintr
<1>1. Surplus \in [Proc -> Int]
  BY DEF TypeInv, Surplus
<1> QED
  BY <1>1 DEF TypeInv, Deficit

\* A step that changes the account and the adjustment of one process keeps the
\* sums finite and moves each by what it does to the part of that process.
LEMMA AccountChanges ==
  ASSUME TypeInv, Finite, NEW p \in Proc, NEW x \in Int, NEW a \in Int,
         Surplus' = [Surplus EXCEPT ![p] = x],
         semadj' = [semadj EXCEPT ![p] = a]
  PROVE  /\ IsFiniteSet(Cells(Surplus)') /\ IsFiniteSet(Cells(Deficit)')
         /\ IsFiniteSet(Cells(semadj)')
         /\ Total(Surplus) \in Nat /\ Total(Surplus)' \in Nat
         /\ Total(Deficit) \in Nat /\ Total(Deficit)' \in Nat
         /\ Total(semadj) \in Nat /\ Total(semadj)' \in Nat
         /\ Positive(Surplus[p]) <= Total(Surplus)
         /\ Total(Surplus)' = Total(Surplus) - Positive(Surplus[p]) + Positive(x)
         /\ Total(Deficit)' = Total(Deficit) - Positive(-Surplus[p]) + Positive(-x)
         /\ Total(semadj)' = Total(semadj) - Positive(semadj[p]) + Positive(a)
<1>1. /\ Surplus \in [Proc -> Int] /\ Deficit \in [Proc -> Int]
      /\ semadj \in [Proc -> Int] /\ -x \in Int
  BY AccountTypes
<1>2. Deficit' = [Deficit EXCEPT ![p] = -x] /\ Deficit[p] = -Surplus[p]
  BY <1>1 DEF Deficit
<1>3. /\ IsFiniteSet(Cells(Surplus)) /\ IsFiniteSet(Cells(Deficit))
      /\ IsFiniteSet(Cells(semadj))
  BY DEF Finite
<1>4. Moves(Surplus, p, x, Surplus')
  BY <1>1, <1>3, TotalMoves
<1>5. Moves(Deficit, p, -x, Deficit')
  BY <1>1, <1>2, <1>3, TotalMoves
<1>6. Moves(semadj, p, a, semadj')
  BY <1>1, <1>3, TotalMoves
<1> QED
  BY <1>2, <1>4, <1>5, <1>6 DEF Moves

\* What a step does to the number of processes inside.
LEMMA InsidersChange ==
  ASSUME TypeInv, Finite, NEW p \in Proc,
         NEW to \in {"out", "asleep", "in", "dead"}, Goto(p, to)
  PROVE  /\ IsFiniteSet(Insiders')
         /\ Cardinality(Insiders) \in Nat /\ Cardinality(Insiders') \in Nat
         /\ Inside(p) => Cardinality(Insiders) >= 1
         /\ Cardinality(Insiders')
              = Cardinality(Insiders) - (IF Inside(p) THEN 1 ELSE 0)
                                      + (IF to = "in" THEN 1 ELSE 0)
<1>1. CASE to = "in"
  <2>1. Insiders' = Insiders \cup {p} /\ (p \in Insiders <=> Inside(p))
    BY <1>1 DEF TypeInv, Insiders, Inside, Goto
  <2>2. Inside(p) => Insiders # {}
    BY <2>1
  <2> QED
    BY <1>1, <2>1, <2>2, FS_AddElement, FS_EmptySet, FS_CardinalityType DEF Finite
<1>2. CASE to # "in"
  <2>1. Insiders' = Insiders \ {p} /\ (p \in Insiders <=> Inside(p))
    BY <1>2 DEF TypeInv, Insiders, Inside, Goto
  <2>2. Inside(p) => Insiders # {}
    BY <2>1
  <2> QED
    BY <1>2, <2>1, <2>2, FS_RemoveElement, FS_EmptySet, FS_CardinalityType DEF Finite
<1> QED
  BY <1>1, <1>2

\* A step that leaves p at to, and with an adjustment of a: all that the sums
\* below are made from.
Step(p, to, a) ==
  /\ Total(Surplus) \in Nat /\ Total(Surplus)' \in Nat
  /\ Total(Deficit) \in Nat /\ Total(Deficit)' \in Nat
  /\ Total(semadj) \in Nat /\ Total(semadj)' \in Nat
  /\ Cardinality(Insiders) \in Nat /\ Cardinality(Insiders)' \in Nat
  /\ Total(semadj)' <= Total(Surplus)'
  /\ Positive(Surplus[p]) <= Total(Surplus)
  /\ Inside(p) => Cardinality(Insiders) >= 1
  /\ Total(Surplus)' = Total(Surplus) - Positive(Surplus[p])
                         + Positive(a + (IF to = "in" THEN 1 ELSE 0))
  /\ Total(Deficit)' = Total(Deficit) - Positive(-Surplus[p])
                         + Positive(-(a + (IF to = "in" THEN 1 ELSE 0)))
  /\ Total(semadj)' = Total(semadj) - Positive(semadj[p]) + Positive(a)
  /\ Cardinality(Insiders)' = Cardinality(Insiders)
                                - (IF Inside(p) THEN 1 ELSE 0)
                                + (IF to = "in" THEN 1 ELSE 0)

\* Every step of a process is one of this kind.
LEMMA StepHolds ==
  ASSUME TypeInv, TypeInv', Finite, NEW p \in Proc, NEW a \in Int,
         NEW to \in {"out", "asleep", "in", "dead"}, Goto(p, to),
         semadj' = [semadj EXCEPT ![p] = a]
  PROVE  Finite' /\ Step(p, to, a)
<1> DEFINE x == a + (IF to = "in" THEN 1 ELSE 0)
<1>1. x \in Int
  OBVIOUS
<1>2. Surplus' = [Surplus EXCEPT ![p] = x]
  BY DEF TypeInv, Surplus, Inside, Goto
<1> HIDE DEF x
<1>3. /\ IsFiniteSet(Cells(Surplus)') /\ IsFiniteSet(Cells(Deficit)')
      /\ IsFiniteSet(Cells(semadj)')
      /\ Total(Surplus) \in Nat /\ Total(Surplus)' \in Nat
      /\ Total(Deficit) \in Nat /\ Total(Deficit)' \in Nat
      /\ Total(semadj) \in Nat /\ Total(semadj)' \in Nat
      /\ Positive(Surplus[p]) <= Total(Surplus)
      /\ Total(Surplus)' = Total(Surplus) - Positive(Surplus[p]) + Positive(x)
      /\ Total(Deficit)' = Total(Deficit) - Positive(-Surplus[p]) + Positive(-x)
      /\ Total(semadj)' = Total(semadj) - Positive(semadj[p]) + Positive(a)
  BY <1>1, <1>2, AccountChanges
<1>4. Total(semadj)' <= Total(Surplus)'
  <2>1. Surplus' \in [Proc -> Int] /\ semadj' \in [Proc -> Int]
    BY DEF TypeInv, Surplus
  <2>2. \A q \in Proc : semadj'[q] <= Surplus'[q]
    BY DEF TypeInv, Surplus
  <2> QED
    BY <1>3, <2>1, <2>2, TotalMonotone
<1> QED
  BY <1>3, <1>4, InsidersChange DEF Finite, Step, x

\* The accounts hold at every step, an interrupted call or a death included.
LEMMA AccountInvHolds == Spec => []AccountInv
<1>1. Init => AccountInv
  <2> SUFFICES ASSUME Init PROVE AccountInv
    OBVIOUS
  <2>1. TypeInv /\ semval = 0 /\ eintr = 0
    BY DEF Init, TypeInv
  <2>2. Insiders = {}
    BY DEF Init, Insiders, Inside
  <2>3. Surplus = [p \in Proc |-> 0]
    BY DEF Init, Surplus, Inside
  <2>4. Cells(semadj) = {} /\ Cells(Surplus) = {} /\ Cells(Deficit) = {}
    BY <2>3 DEF Init, Deficit, Cells
  <2> QED
    BY <2>1, <2>2, <2>4, FS_EmptySet DEF AccountInv, Finite, Accounts, Total
<1>2. AccountInv /\ [Next]_vars => AccountInv'
  <2> SUFFICES ASSUME AccountInv, [Next]_vars PROVE AccountInv'
    OBVIOUS
  <2>1. TypeInv /\ Finite /\ Accounts
    BY DEF AccountInv
  <2>2. TypeInv'
    BY <2>1, TypeInvStep
  <2>3. \A p \in Proc : /\ Surplus[p] = semadj[p] + (IF Inside(p) THEN 1 ELSE 0)
                        /\ Surplus[p] \in Int /\ semadj[p] \in Int
    BY <2>1, AccountTypes DEF Surplus
  <2>4. semval \in Nat /\ eintr \in Nat
    BY <2>1 DEF TypeInv
  <2>5. ASSUME NEW p \in Proc, Lock(p) PROVE (Finite /\ Accounts)'
    <3>1. PICK a \in Int : a = semadj[p] - 1
      BY <2>3
    <3>2. /\ ~Inside(p) /\ Goto(p, "in")
          /\ semval = 0 /\ semval' = 1 /\ eintr' = eintr
          /\ semadj' = [semadj EXCEPT ![p] = a]
      BY <2>1, <2>4, <2>5, <3>1 DEF TypeInv, Inside, Lock, Apply, Possible, op_lock
    <3>3. Finite' /\ Step(p, "in", a)
      BY <2>1, <2>2, <3>2, StepHolds
    <3> QED
      BY <2>1, <2>3, <2>4, <3>1, <3>2, <3>3 DEF Step, Accounts, Positive
  <2>6. ASSUME NEW p \in Proc, Sleep(p) PROVE (Finite /\ Accounts)'
    <3>1. PICK a \in Int : a = semadj[p]
      BY <2>3
    <3>2. /\ ~Inside(p) /\ Goto(p, "asleep")
          /\ semval' = semval /\ eintr' = eintr
          /\ semadj' = [semadj EXCEPT ![p] = a]
      BY <2>1, <2>4, <2>6, <3>1 DEF TypeInv, Inside, Sleep
    <3>3. Finite' /\ Step(p, "asleep", a)
      BY <2>1, <2>2, <3>2, StepHolds
    <3> QED
      BY <2>1, <2>3, <2>4, <3>1, <3>2, <3>3 DEF Step, Accounts, Positive
  <2>7. ASSUME NEW p \in Proc, LockInterrupted(p) PROVE (Finite /\ Accounts)'
    <3>1. PICK a \in Int : a = semadj[p]
      BY <2>3
    <3>2. /\ ~Inside(p) /\ Goto(p, "in")
          /\ semval' = semval /\ eintr' = eintr + 1
          /\ semadj' = [semadj EXCEPT ![p] = a]
      BY <2>1, <2>4, <2>7, <3>1 DEF TypeInv, Inside, LockInterrupted
    <3>3. Finite' /\ Step(p, "in", a)
      BY <2>1, <2>2, <3>2, StepHolds
    <3> QED
      BY <2>1, <2>3, <2>4, <3>1, <3>2, <3>3 DEF Step, Accounts, Positive
  <2>8. ASSUME NEW p \in Proc, Unlock(p) PROVE (Finite /\ Accounts)'
    <3>1. PICK a \in Int : a = semadj[p] + 1
      BY <2>3
    <3>2. /\ Inside(p) /\ Goto(p, "out")
          /\ semval >= 1 /\ semval' = semval - 1 /\ eintr' = eintr
          /\ semadj' = [semadj EXCEPT ![p] = a]
      <4>1. /\ semval + -1 >= 0 /\ semval' = semval + -1
            /\ semadj' = [semadj EXCEPT ![p] = semadj[p] - -1]
        BY <2>8 DEF Unlock, Apply, Possible, op_unlock
      <4>2. semadj[p] - -1 = a
        BY <2>3, <3>1
      <4>3. semval >= 1 /\ semval' = semval - 1
        BY <2>4, <4>1
      <4>4. Inside(p) /\ Goto(p, "out") /\ eintr' = eintr
        BY <2>8 DEF Inside, Unlock
      <4> QED
        BY <4>1, <4>2, <4>3, <4>4
    <3>3. Finite' /\ Step(p, "out", a)
      BY <2>1, <2>2, <3>2, StepHolds
    <3> QED
      BY <2>1, <2>3, <2>4, <3>1, <3>2, <3>3 DEF Step, Accounts, Positive
  <2>9. ASSUME NEW p \in Proc, UnlockFails(p) PROVE (Finite /\ Accounts)'
    <3>1. PICK a \in Int : a = semadj[p]
      BY <2>3
    <3>2. /\ Inside(p) /\ Goto(p, "out")
          /\ semval = 0 /\ semval' = semval /\ eintr' = eintr
          /\ semadj' = [semadj EXCEPT ![p] = a]
      BY <2>1, <2>4, <2>9, <3>1 DEF TypeInv, Inside, UnlockFails, Possible, op_unlock
    <3>3. Finite' /\ Step(p, "out", a)
      BY <2>1, <2>2, <3>2, StepHolds
    <3> QED
      BY <2>1, <2>3, <2>4, <3>1, <3>2, <3>3 DEF Step, Accounts, Positive
  <2>10. ASSUME NEW p \in Proc, Die(p) PROVE (Finite /\ Accounts)'
    <3>1. PICK a \in Int : a = 0
      BY <2>3
    <3>2. /\ Goto(p, "dead")
          /\ semval' = Positive(semval + semadj[p]) /\ eintr' = eintr
          /\ semadj' = [semadj EXCEPT ![p] = a]
      BY <2>1, <2>4, <2>10, <3>1 DEF TypeInv, Inside, Die, Positive
    <3>3. Finite' /\ Step(p, "dead", a)
      BY <2>1, <2>2, <3>2, StepHolds
    <3> QED
      BY <2>1, <2>3, <2>4, <3>1, <3>2, <3>3 DEF Step, Accounts, Positive
  <2>11. ASSUME NEW p \in Proc, Fork(p) PROVE (Finite /\ Accounts)'
    <3>1. PICK a \in Int : a = semadj[p]
      BY <2>3
    <3>2. /\ ~Inside(p) /\ Goto(p, "out")
          /\ semval' = semval /\ eintr' = eintr
          /\ semadj' = [semadj EXCEPT ![p] = a]
      BY <2>1, <2>4, <2>11, <3>1 DEF TypeInv, Inside, Fork
    <3>3. Finite' /\ Step(p, "out", a)
      BY <2>1, <2>2, <3>2, StepHolds
    <3> QED
      BY <2>1, <2>3, <2>4, <3>1, <3>2, <3>3 DEF Step, Accounts, Positive
  <2>12. CASE UNCHANGED vars
    <3>1. UNCHANGED <<Insiders, Surplus, semadj, semval, eintr>>
      BY <2>12 DEF vars, Insiders, Surplus, Inside
    <3>2. Deficit' = Deficit
      BY <3>1 DEF Deficit
    <3> QED
      BY <2>1, <2>2, <3>1, <3>2 DEF AccountInv, Finite, Accounts
  <2> QED
    BY <2>2, <2>5, <2>6, <2>7, <2>8, <2>9, <2>10, <2>11, <2>12 DEF Next, AccountInv
<1> QED
  BY <1>1, <1>2, PTL DEF Spec

(***************************************************************************)
(* Whatever is interrupted and whoever dies: the value and the adjustments *)
(* of all processes stay within what the interrupted calls account for.    *)
(***************************************************************************)
THEOREM TypeCorrect == Spec => []TypeOK
<1>1. AccountInv => TypeOK
  <2> SUFFICES ASSUME AccountInv PROVE TypeOK
    OBVIOUS
  <2>1. TypeInv /\ Finite /\ Accounts
    BY DEF AccountInv
  <2>2. /\ Total(Surplus) \in Nat /\ Total(Deficit) \in Nat
        /\ Total(semadj) \in Nat /\ Cardinality(Insiders) \in Nat
    BY <2>1, FS_CardinalityType DEF Finite, Total
  <2>3. semval \in 0..(1 + eintr)
    BY <2>1, <2>2 DEF TypeInv, Accounts
  <2>4. ASSUME NEW p \in Proc PROVE semadj[p] \in -(1 + eintr)..eintr
    <3>1. /\ Surplus[p] = semadj[p] + (IF Inside(p) THEN 1 ELSE 0)
          /\ Surplus[p] \in Int /\ semadj[p] \in Int /\ Deficit[p] = -Surplus[p]
      BY <2>1, AccountTypes DEF Surplus, Deficit
    <3>2. Positive(Surplus[p]) <= Total(Surplus)
      BY <2>1, <3>1, AccountTypes, PartOfTotal DEF Finite
    <3>3. Positive(Deficit[p]) <= Total(Deficit)
      BY <2>1, <3>1, AccountTypes, PartOfTotal DEF Finite
    <3> QED
      BY <2>1, <2>2, <3>1, <3>2, <3>3 DEF TypeInv, Accounts, Positive
  <2> QED
    BY <2>1, <2>3, <2>4 DEF TypeInv, TypeOK
<1> QED
  BY <1>1, AccountInvHolds, PTL

(***************************************************************************)
(* Never more processes inside than one and the interrupted calls so far.  *)
(***************************************************************************)
THEOREM CrowdIsBounded == Spec => []CrowdBounded
<1>1. AccountInv => CrowdBounded
  BY DEF AccountInv, Accounts, CrowdBounded
<1> QED
  BY <1>1, AccountInvHolds, PTL

(***************************************************************************)
(* The value is off the number of processes inside by the interrupted      *)
(* calls so far, at most.                                                  *)
(***************************************************************************)
THEOREM ValueCountsInside == Spec => []CountsInside
<1>1. AccountInv => CountsInside
  <2> SUFFICES ASSUME AccountInv PROVE CountsInside
    OBVIOUS
  <2>1. /\ Total(Surplus) \in Nat /\ Total(Deficit) \in Nat
        /\ Cardinality(Insiders) \in Nat
    BY FS_CardinalityType DEF AccountInv, Finite, Total
  <2> QED
    BY <2>1 DEF AccountInv, Accounts, TypeInv, CountsInside
<1> QED
  BY <1>1, AccountInvHolds, PTL

-----------------------------------------------------------------------------
\* The process inside is the holder of the abstract lock, if there is one.
LEMMA HolderIsInside ==
  ASSUME MutualExclusion, NEW p \in Proc, Inside(p)
  PROVE  Holder = p
<1>1. \E q \in Proc : Inside(q)
  OBVIOUS
<1>2. Holder \in Proc /\ Inside(Holder)
  BY <1>1 DEF Holder
<1> QED
  BY <1>2 DEF MutualExclusion

LEMMA NobodyInside ==
  ASSUME \A p \in Proc : ~Inside(p)
  PROVE  Holder = NoOne
  BY DEF Holder

(***************************************************************************)
(* Without interrupted calls the semaphore implements the abstract lock:   *)
(* every step acquires it, releases it or leaves it alone, and the death   *)
(* of the holder is a release.                                             *)
(***************************************************************************)
THEOREM ImplementsMutex ==
  ASSUME MaxEintr = 0
  PROVE  Spec => IsMutex
<1>1. Init => M!Init
  BY NobodyInside DEF Init, M!Init, Inside
<1>2. LockInv /\ LockInv' /\ [Next]_vars => [M!Next]_Holder
  <2> SUFFICES ASSUME LockInv, LockInv', [Next]_vars
               PROVE  M!Next \/ Holder' = Holder
    OBVIOUS
  <2>1. CASE \E p \in Proc : Inside(p)
    <3> PICK p \in Proc : Inside(p)
      BY <2>1
    <3>1. Holder = p
      BY HolderIsInside DEF LockInv
    <3>2. CASE Inside(p)'
      <4>1. Holder' = p
        BY <3>2, HolderIsInside DEF LockInv, Holder, MutualExclusion, Inside
      <4> QED
        BY <3>1, <4>1
    <3>3. CASE ~Inside(p)'
      <4>1. \A q \in Proc : ~Inside(q)'
        BY <3>3 DEF LockInv, TypeInv, MutualExclusion, Inside, Next, Lock,
                    Sleep, LockInterrupted, Unlock, UnlockFails, Die, Fork,
                    Possible, op_lock, Goto, vars
      <4>2. Holder' = NoOne
        BY <4>1 DEF Holder, Inside
      <4> QED
        BY <3>1, <4>2 DEF M!Next, M!Release
    <3> QED
      BY <3>2, <3>3
  <2>2. CASE \A p \in Proc : ~Inside(p)
    <3>1. Holder = NoOne
      BY <2>2, NobodyInside
    <3>2. CASE \E p \in Proc : Inside(p)'
      <4>1. Holder' \in Proc
        BY <3>2 DEF Holder, Inside
      <4> QED
        BY <3>1, <4>1 DEF M!Next, M!Acquire
    <3>3. CASE \A p \in Proc : ~Inside(p)'
      <4>1. Holder' = NoOne
        BY <3>3 DEF Holder, Inside
      <4> QED
        BY <3>1, <4>1
    <3> QED
      BY <3>2, <3>3
  <2> QED
    BY <2>1, <2>2
<1> QED
  BY <1>1, <1>2, LockInvHolds, PTL DEF Spec, IsMutex, M!Spec
=============================================================================
