--------------------------- MODULE MutexPiProofs ---------------------------
(***************************************************************************)
(* Proofs about MutexPi for every number of children, rounds, time-outs    *)
(* and kills.                                                              *)
(***************************************************************************)
EXTENDS MutexPi, FiniteSetTheorems, TLAPS

\* A child that is still in its loops has not used up its rounds or time-outs.
LoopInv ==
    \A c \in Children : pc[c] \in Alive \cup {"unborn"} =>
        iter[c] < MaxIter /\ waits[c] < MaxWait

\* The lock's owner field and the place of the children in child() agree, and
\* the dead-owner mark is cleared before any child works under the lock.
LockInv ==
    /\ \A c \in Children : pc[c] \in Inside <=> owner = c
    /\ \A c \in Children : pc[c] = "held" => robust = "ok"
    /\ robust # "notrecoverable"

\* The inductive invariant of the lock.
Ind == TypeOK /\ LoopInv /\ LockInv /\ AbortOnlyOnTimeout

\* The states of a child, flattened.
LEMMA States ==
    /\ Inside = {"recover", "held"}
    /\ Alive = {"try", "recover", "held"}
    /\ Dead = {"exited", "aborted", "killed"}
    /\ PC = {"unborn", "unforked", "try", "recover", "held", "exited", "aborted", "killed"}
BY DEF Inside, Alive, Dead, PC

\* Ind holds initially and every step of child() and main() keeps it.
THEOREM Inductive == Spec => []Ind
<1> USE DEF Ind, TypeOK, LoopInv, LockInv, AbortOnlyOnTimeout
<1>0. Cardinality(Children) \in Nat
  BY ChildrenAssumption, FS_CardinalityType
<1>1. Init => Ind
  BY <1>0, ChildrenAssumption, BoundsAssumption, States DEF Init
<1>2. Ind /\ [Next]_vars => Ind'
  <2> SUFFICES ASSUME Ind, [Next]_vars PROVE Ind'
    OBVIOUS
  <2> USE <1>0, ChildrenAssumption, BoundsAssumption, States
      DEF childVars, mutexVars, parentVars
  <2>1. ASSUME NEW c \in Children, Fork(c) \/ ForkFails(c) PROVE Ind'
    BY <2>1 DEF Fork, ForkFails
  <2>2. CASE ForksDone
    BY <2>2 DEF ForksDone
  <2>3. CASE WaitStep
    BY <2>3 DEF WaitStep, Zombies
  <2>4. CASE Destroy
    BY <2>4 DEF Destroy
  <2>5. ASSUME NEW c \in Children, TimedLock(c) PROVE Ind'
    <3>1. CASE TimedLockResult = "0"
      BY <2>5, <3>1 DEF TimedLock, TimedLockResult
    <3>2. CASE TimedLockResult = "EOWNERDEAD"
      BY <2>5, <3>2 DEF TimedLock, TimedLockResult
    <3>3. CASE TimedLockResult = "ETIMEDOUT" /\ waits[c] + 1 < MaxWait
      BY <2>5, <3>3 DEF TimedLock, TimedLockResult
    <3>4. CASE TimedLockResult = "ETIMEDOUT" /\ ~(waits[c] + 1 < MaxWait)
      BY <2>5, <3>4 DEF TimedLock, TimedLockResult
    <3>5. TimedLockResult \in {"0", "EOWNERDEAD", "ETIMEDOUT"}
      BY DEF TimedLockResult
    <3> QED BY <3>1, <3>2, <3>3, <3>4, <3>5
  <2>6. ASSUME NEW c \in Children, MakeConsistent(c) PROVE Ind'
    BY <2>6 DEF MakeConsistent
  <2>7. ASSUME NEW c \in Children, Unlock(c) PROVE Ind'
    BY <2>7 DEF Unlock
  <2>8. ASSUME NEW c \in Children, Kill(c) PROVE Ind'
    BY <2>8 DEF Kill
  <2>9. CASE UNCHANGED vars
    BY <2>9 DEF vars
  <2> QED
    BY <2>1, <2>2, <2>3, <2>4, <2>5, <2>6, <2>7, <2>8, <2>9
    DEF Next, ParentStep, ChildStep, Finished
<1> QED BY <1>1, <1>2, PTL DEF Spec

\* The loop counters of child() and of the wait() loop stay in their bounds.
THEOREM TypeCorrect == Spec => []TypeOK
<1>1. Ind => TypeOK
  BY DEF Ind
<1> QED BY <1>1, Inductive, PTL

\* Two children are never both inside the lock, for any number of children:
\* both would be the one owner.
THEOREM MutexSafe == Spec => []MutualExclusion
<1>1. Ind => MutualExclusion
  BY DEF Ind, LockInv, MutualExclusion
<1> QED BY <1>1, Inductive, PTL

\* No child works under a lock whose dead owner's state was not repaired, and
\* the lock never becomes unrecoverable.
THEOREM RepairSafe == Spec => []RepairedBeforeUse
<1>1. Ind => RepairedBeforeUse
  BY DEF Ind, LockInv, RepairedBeforeUse
<1> QED BY <1>1, Inductive, PTL

\* The abort() calls for a bad result of timedlock() and of unlock() are dead
\* code: a child aborts only after MaxWait time-outs of one round.
THEOREM AbortSafe == Spec => []AbortOnlyOnTimeout
<1>1. Ind => AbortOnlyOnTimeout
  BY DEF Ind
<1> QED BY <1>1, Inductive, PTL

-----------------------------------------------------------------------------
(* The parent's wait() loop. *)

\* What the number of wait() calls says about the children.
WaitInv ==
    /\ \A c \in reaped : pc[c] \in Dead
    /\ ppc = "fork" => nwait = 0 /\ reaped = {}
    /\ ppc # "fork" => \A c \in Children : pc[c] # "unborn"
    /\ ppc # "fork" /\ Unreaped # {} => nwait = Cardinality(reaped)
    /\ ppc = "done" => nwait = Cardinality(Children)

\* Counting wait() calls is enough: either each of them reaped a child, or one
\* of them failed because no child was left.
THEOREM WaitInductive == Spec => [](Ind /\ WaitInv)
<1>0. Cardinality({}) = 0
  BY FS_EmptySet
<1>1. Init => WaitInv
  BY <1>0 DEF Init, WaitInv
<1>2. Ind /\ WaitInv /\ [Next]_vars => WaitInv'
  <2> SUFFICES ASSUME Ind, WaitInv, [Next]_vars PROVE WaitInv'
    OBVIOUS
  <2>0. IsFiniteSet(reaped) /\ TypeOK
    BY ChildrenAssumption, FS_Subset DEF Ind, TypeOK
  <2> USE <1>0, <2>0, States DEF TypeOK, WaitInv, Unreaped, Zombies,
          childVars, mutexVars, parentVars
  <2>1. ASSUME NEW c \in Children, Fork(c) \/ ForkFails(c) PROVE WaitInv'
    BY <2>1 DEF Fork, ForkFails
  <2>2. CASE ForksDone
    BY <2>2 DEF ForksDone
  <2>3. CASE WaitStep
    <3>1. CASE Unreaped = {}
      BY <2>3, <3>1 DEF WaitStep
    <3>2. ASSUME NEW c \in Zombies, reaped' = reaped \cup {c} PROVE WaitInv'
      <4>1. c \in Children /\ pc[c] \in Dead /\ c \notin reaped
        BY <3>2
      <4>2. Cardinality(reaped \cup {c}) = Cardinality(reaped) + 1
        BY <4>1, FS_AddElement
      <4> QED BY <2>3, <3>2, <4>1, <4>2 DEF WaitStep
    <3> QED BY <2>3, <3>1, <3>2 DEF WaitStep
  <2>4. CASE Destroy
    BY <2>4 DEF Destroy
  <2>5. ASSUME NEW c \in Children, TimedLock(c) PROVE WaitInv'
    <3>1. pc[c] = "try" /\ pc' = [pc EXCEPT ![c] = pc'[c]] /\ UNCHANGED parentVars
      BY <2>5 DEF TimedLock
    <3>2. pc'[c] # "unborn"
      BY <2>5 DEF TimedLock
    <3> QED BY <3>1, <3>2
  <2>6. ASSUME NEW c \in Children, MakeConsistent(c) PROVE WaitInv'
    BY <2>6 DEF MakeConsistent
  <2>7. ASSUME NEW c \in Children, Unlock(c) PROVE WaitInv'
    BY <2>7 DEF Unlock
  <2>8. ASSUME NEW c \in Children, Kill(c) PROVE WaitInv'
    BY <2>8 DEF Kill
  <2>9. CASE UNCHANGED vars
    BY <2>9 DEF vars
  <2> QED
    BY <2>1, <2>2, <2>3, <2>4, <2>5, <2>6, <2>7, <2>8, <2>9
    DEF Next, ParentStep, ChildStep, Finished
<1> QED BY <1>1, <1>2, Inductive, PTL DEF Spec

\* pthread_mutex_destroy() finds no process that could still use the mutex, for
\* any number of children and any of them not forked.
THEOREM DestroySafe == Spec => []DestroyedUnused
<1>1. Ind /\ WaitInv => DestroyedUnused
  <2> SUFFICES ASSUME Ind, WaitInv, ppc = "done", NEW c \in Children
      PROVE pc[c] \in Dead \cup {"unforked"}
    BY DEF DestroyedUnused
  <2>1. CASE Unreaped = {}
    BY <2>1, States DEF Unreaped, WaitInv, Ind, TypeOK
  <2>2. CASE Unreaped # {}
    <3>1. Cardinality(reaped) = Cardinality(Children)
      BY <2>2 DEF WaitInv
    <3>2. reaped = Children
      BY <3>1, ChildrenAssumption, FS_Subset DEF Ind, TypeOK
    <3> QED BY <3>2 DEF WaitInv
  <2> QED BY <2>1, <2>2
<1> QED BY <1>1, WaitInductive, PTL

=============================================================================
