------------------------------ MODULE MutexPi ------------------------------
(***************************************************************************)
(* mutex_pi/mutex_pi.c: CHILDREN processes hammer one process-shared,      *)
(* robust, priority-inheriting mutex.  A child takes the lock with a short *)
(* pthread_mutex_timedlock() in a retry loop, gives up with abort() after  *)
(* MAX_WAIT_USEC time-outs, repairs the lock when its owner died           *)
(* (EOWNERDEAD), and releases it.  The parent forks the children, calls    *)
(* wait() CHILDREN times and destroys the mutex.                           *)
(*                                                                         *)
(* The mutex itself (owner, robust) is glibc and the kernel: it is         *)
(* modelled from the return values the code distinguishes.                 *)
(***************************************************************************)
EXTENDS Naturals, FiniteSets

CONSTANTS
    Children,   \* the CHILDREN processes
    MaxIter,    \* MAX_ITER, lock/unlock rounds of a child
    MaxWait,    \* MAX_WAIT_USEC, time-outs a child tolerates in one round
    MaxKills,   \* bound: how many children are killed from outside
    NoOwner     \* the mutex is not held

ASSUME ChildrenAssumption == IsFiniteSet(Children) /\ NoOwner \notin Children
ASSUME BoundsAssumption ==
    MaxIter \in Nat \ {0} /\ MaxWait \in Nat \ {0} /\ MaxKills \in Nat

VARIABLES
    pc,       \* where each child is
    iter,     \* child: loop variable i
    waits,    \* child: wait_usec
    owner,    \* owner of *proc_lock
    robust,   \* "ok", "ownerdead" or "notrecoverable"
    kills,    \* children killed so far
    ppc,      \* where the parent is
    nwait,    \* parent: calls of wait() made
    reaped    \* children whose status wait() has returned

childVars  == <<pc, iter, waits>>
mutexVars  == <<owner, robust>>
parentVars == <<ppc, nwait, reaped>>
vars == <<childVars, mutexVars, kills, parentVars>>

Inside == {"recover", "held"}                   \* timedlock() succeeded
Alive  == {"try"} \cup Inside
Dead   == {"exited", "aborted", "killed"}
PC     == {"unborn", "unforked"} \cup Alive \cup Dead

TypeOK ==
    /\ pc \in [Children -> PC]
    /\ iter \in [Children -> 0..MaxIter]
    /\ waits \in [Children -> 0..MaxWait]
    /\ owner \in Children \cup {NoOwner}
    /\ robust \in {"ok", "ownerdead", "notrecoverable"}
    /\ kills \in 0..MaxKills
    /\ ppc \in {"fork", "wait", "done"}
    /\ nwait \in 0..Cardinality(Children)
    /\ reaped \in SUBSET Children

Init ==
    /\ pc = [c \in Children |-> "unborn"]
    /\ iter = [c \in Children |-> 0]
    /\ waits = [c \in Children |-> 0]
    /\ owner = NoOwner
    /\ robust = "ok"
    /\ kills = 0
    /\ ppc = "fork"
    /\ nwait = 0
    /\ reaped = {}

-----------------------------------------------------------------------------
(* The parent. *)

\* fork() returned a child.
Fork(c) ==
    /\ ppc = "fork" /\ pc[c] = "unborn"
    /\ pc' = [pc EXCEPT ![c] = "try"]
    /\ UNCHANGED <<iter, waits, mutexVars, kills, parentVars>>

\* fork() returned -1, which `if (!fork())` takes for a started child.
ForkFails(c) ==
    /\ ppc = "fork" /\ pc[c] = "unborn"
    /\ pc' = [pc EXCEPT ![c] = "unforked"]
    /\ UNCHANGED <<iter, waits, mutexVars, kills, parentVars>>

ForksDone ==
    /\ ppc = "fork"
    /\ \A c \in Children : pc[c] # "unborn"
    /\ ppc' = "wait"
    /\ UNCHANGED <<childVars, mutexVars, kills, nwait, reaped>>

Zombies  == {c \in Children : pc[c] \in Dead} \ reaped
Unreaped == {c \in Children : pc[c] \in Alive} \cup Zombies

\* Fault: a wait() that fails is not counted, as in `while (n) if (wait() > 0) n--`.
WaitStepRetries ==
    /\ ppc = "wait" /\ nwait < Cardinality(Children)
    /\ \/ \E c \in Zombies : reaped' = reaped \cup {c} /\ nwait' = nwait + 1
       \/ Unreaped = {} /\ UNCHANGED <<reaped, nwait>>
    /\ UNCHANGED <<childVars, mutexVars, kills, ppc>>

\* One wait(): it returns a dead child, or fails at once (ECHILD) when no
\* child is left, and blocks otherwise.
WaitStep ==
    /\ ppc = "wait" /\ nwait < Cardinality(Children)
    /\ \/ \E c \in Zombies : reaped' = reaped \cup {c}
       \/ Unreaped = {} /\ UNCHANGED reaped
    /\ nwait' = nwait + 1
    /\ UNCHANGED <<childVars, mutexVars, kills, ppc>>

\* Fault: the wait loop is one short.
DestroyEarly ==
    /\ ppc = "wait" /\ nwait + 1 >= Cardinality(Children)
    /\ ppc' = "done"
    /\ UNCHANGED <<childVars, mutexVars, kills, nwait, reaped>>

\* The wait() loop is over: pthread_mutex_destroy() and return.
Destroy ==
    /\ ppc = "wait" /\ nwait = Cardinality(Children)
    /\ ppc' = "done"
    /\ UNCHANGED <<childVars, mutexVars, kills, nwait, reaped>>

-----------------------------------------------------------------------------
(* The children. *)

\* What pthread_mutex_timedlock() returns now.
TimedLockResult ==
    IF robust = "notrecoverable" THEN "ENOTRECOVERABLE"
    ELSE IF owner # NoOwner THEN "ETIMEDOUT"
    ELSE IF robust = "ownerdead" THEN "EOWNERDEAD" ELSE "0"

\* Fault: EOWNERDEAD is treated like 0, without pthread_mutex_consistent().
TimedLockNoRepair(c) ==
    LET rv == TimedLockResult IN
    /\ pc[c] = "try"
    /\ owner' = IF rv \in {"0", "EOWNERDEAD"} THEN c ELSE owner
    /\ waits' = [waits EXCEPT ![c] = IF rv = "ETIMEDOUT" THEN @ + 1 ELSE @]
    /\ pc' = [pc EXCEPT ![c] =
                CASE rv \in {"0", "EOWNERDEAD"} -> "held"
                  [] rv = "ETIMEDOUT" /\ waits[c] + 1 < MaxWait -> "try"
                  [] OTHER -> "aborted"]
    /\ UNCHANGED <<iter, robust, kills, parentVars>>

\* Fault: a time-out breaks out of the retry loop as if the lock were taken.
TimedLockIgnoresTimeout(c) ==
    /\ pc[c] = "try"
    /\ owner' = c
    /\ pc' = [pc EXCEPT ![c] = "held"]
    /\ UNCHANGED <<iter, waits, robust, kills, parentVars>>

\* One turn of the retry loop.  Every result but 0, EOWNERDEAD and ETIMEDOUT
\* aborts, and so does the MaxWait-th time-out of a round.
TimedLock(c) ==
    LET rv == TimedLockResult IN
    /\ pc[c] = "try"
    /\ owner' = IF rv \in {"0", "EOWNERDEAD"} THEN c ELSE owner
    /\ waits' = [waits EXCEPT ![c] = IF rv = "ETIMEDOUT" THEN @ + 1 ELSE @]
    /\ pc' = [pc EXCEPT ![c] =
                CASE rv = "0" -> "held"
                  [] rv = "EOWNERDEAD" -> "recover"
                  [] rv = "ETIMEDOUT" /\ waits[c] + 1 < MaxWait -> "try"
                  [] OTHER -> "aborted"]
    /\ UNCHANGED <<iter, robust, kills, parentVars>>

\* pthread_mutex_consistent() after EOWNERDEAD.
MakeConsistent(c) ==
    /\ pc[c] = "recover"
    /\ pc' = [pc EXCEPT ![c] = "held"]
    /\ robust' = "ok"
    /\ UNCHANGED <<iter, waits, owner, kills, parentVars>>

\* pthread_mutex_unlock() and the end of the round: it aborts when the caller
\* is not the owner, and unlocking an unrepaired mutex makes it useless.
Unlock(c) ==
    /\ pc[c] = "held"
    /\ IF owner = c
       THEN /\ owner' = NoOwner
            /\ robust' = IF robust = "ok" THEN "ok" ELSE "notrecoverable"
            /\ iter' = [iter EXCEPT ![c] = @ + 1]
            /\ waits' = [waits EXCEPT ![c] = 0]
            /\ pc' = [pc EXCEPT ![c] = IF iter[c] + 1 = MaxIter THEN "exited" ELSE "try"]
       ELSE /\ pc' = [pc EXCEPT ![c] = "aborted"]
            /\ UNCHANGED <<iter, waits, mutexVars>>
    /\ UNCHANGED <<kills, parentVars>>

\* A child is killed from outside, the case EOWNERDEAD exists for: the kernel
\* marks a mutex it owned.
Kill(c) ==
    /\ kills < MaxKills /\ pc[c] \in Alive
    /\ kills' = kills + 1
    /\ pc' = [pc EXCEPT ![c] = "killed"]
    /\ IF owner = c THEN owner' = NoOwner /\ robust' = "ownerdead"
                    ELSE UNCHANGED mutexVars
    /\ UNCHANGED <<iter, waits, parentVars>>

ParentStep == \/ \E c \in Children : Fork(c) \/ ForkFails(c)
              \/ ForksDone \/ WaitStep \/ Destroy
ChildStep(c) == TimedLock(c) \/ MakeConsistent(c) \/ Unlock(c)
Finished == ppc = "done" /\ UNCHANGED vars

Next == ParentStep \/ (\E c \in Children : ChildStep(c) \/ Kill(c)) \/ Finished

Spec == Init /\ [][Next]_vars

\* Fairness: the kernel keeps scheduling the parent and every child; a child
\* is never assumed to win the lock, only to get an answer from timedlock().
FairSpec == Spec /\ WF_vars(ParentStep) /\ \A c \in Children : WF_vars(ChildStep(c))

-----------------------------------------------------------------------------
(* Properties. *)

\* Two children are never both past a successful pthread_mutex_timedlock(),
\* whatever time-outs, deaths and repairs happened before (child()).
MutualExclusion ==
    \A c, d \in Children : pc[c] \in Inside /\ pc[d] \in Inside => c = d

\* A child works under the lock only once the state a dead owner left behind
\* has been declared consistent, so the mutex never becomes ENOTRECOVERABLE.
RepairedBeforeUse ==
    /\ \A c \in Children : pc[c] = "held" => robust = "ok"
    /\ robust # "notrecoverable"

\* The only abort() a child can reach is the one after "TIME OUT": neither the
\* "BADx" result of timedlock() nor a failing unlock happens.
AbortOnlyOnTimeout ==
    \A c \in Children : pc[c] = "aborted" => waits[c] = MaxWait

\* pthread_mutex_destroy() runs only after the last process that could touch
\* the mutex is dead, also when some fork() failed.
DestroyedUnused ==
    ppc = "done" => \A c \in Children : pc[c] \in Dead \cup {"unforked"}

\* The parent always gets to the end, with children that lose every race for
\* the lock, die holding it, or were never forked.
ParentFinishes == <>(ppc = "done")

=============================================================================
