--------------------------- MODULE PtyMultiwrite ---------------------------
(***************************************************************************)
(* tty/pty_multiwrite.c on top of tty/process.h.  The parent opens a pty   *)
(* pair, forks two groups of PROCS children with run_parallel(), closes    *)
(* its slave, and reads the master while it reaps children as they end;    *)
(* the rest is reaped by wait_for_parallel().  A child drops the master    *)
(* (post_fork), runs THREADS threads that hammer the slave with ioctls,    *)
(* joins them and closes the slave (threads_done).                         *)
(*                                                                         *)
(* Which process holds which end decides everything: read() on the master  *)
(* fails only when no slave is open, an ioctl on the slave fails once no   *)
(* master is.  The pty, with its buffer of BufMax bytes, is the kernel's.  *)
(***************************************************************************)
EXTENDS Naturals, FiniteSets

CONSTANTS
    Children,   \* the processes of both run_parallel() calls
    PROCS,      \* children per call
    THREADS,    \* threads per child
    BufMax,     \* bound: bytes the pty buffers for the master
    Parent      \* the parent process

ASSUME ProcsAssumption ==
    /\ IsFiniteSet(Children) /\ Parent \notin Children
    /\ PROCS \in Nat \ {0} /\ Cardinality(Children) = 2 * PROCS
ASSUME SizesAssumption == THREADS \in Nat \ {0} /\ BufMax \in Nat \ {0}

VARIABLES
    ppc,      \* parent
    procs,    \* parent: children counted as started and not reaped
    st,       \* state of each child
    made,     \* child: threads created
    ended,    \* child: threads that have run all their loops
    master,   \* processes with the master open
    slave,    \* processes with the slave open
    buf       \* bytes waiting for the master

childVars == <<st, made, ended>>
ptyVars == <<ppc, procs, childVars, master, slave, buf>>

PtyTypeOK ==
    /\ ppc \in {"fork", "read", "nohang", "wait", "done", "failed"}
    /\ procs \in 0..Cardinality(Children)
    /\ st \in [Children -> {"unborn", "forked", "create", "join", "exiting", "zombie", "reaped"}]
    /\ made \in [Children -> 0..THREADS]
    /\ ended \in [Children -> 0..THREADS]
    /\ master \in SUBSET (Children \cup {Parent})
    /\ slave \in SUBSET (Children \cup {Parent})
    /\ buf \in 0..BufMax

PtyInit ==
    /\ ppc = "fork" /\ procs = 0
    /\ st = [c \in Children |-> "unborn"]
    /\ made = [c \in Children |-> 0]
    /\ ended = [c \in Children |-> 0]
    /\ master = {Parent} /\ slave = {Parent}
    /\ buf = 0

InState(s) == {c \in Children : st[c] = s}
Started == Children \ InState("unborn")
Unreaped == Started \ InState("reaped")
RunningThreads(c) == made[c] - ended[c]

-----------------------------------------------------------------------------
(* The parent. *)

\* One fork() of run_parallel(), which returns PROCS after the last one of its
\* group.  The child inherits both ends.
Fork(c) ==
    /\ ppc = "fork" /\ st[c] = "unborn"
    /\ st' = [st EXCEPT ![c] = "forked"]
    /\ master' = master \cup {c} /\ slave' = slave \cup {c}
    /\ procs' = IF (Cardinality(Started) + 1) % PROCS = 0 THEN procs + PROCS ELSE procs
    /\ UNCHANGED <<ppc, made, ended, buf>>

\* fork() fails: err() ends the parent and leaves the children to themselves.
ForkFails ==
    /\ ppc = "fork" /\ InState("unborn") # {}
    /\ ppc' = "failed"
    /\ master' = master \ {Parent} /\ slave' = slave \ {Parent}
    /\ UNCHANGED <<procs, childVars, buf>>

\* main() closes the slave and enters read_master().
CloseSlave ==
    /\ ppc = "fork" /\ InState("unborn") = {}
    /\ slave' = slave \ {Parent}
    /\ ppc' = "read"
    /\ UNCHANGED <<procs, childVars, master, buf>>

\* Fault: `continue` instead of `break` on an error.
ReadMasterRetries ==
    /\ ppc = "read" /\ procs > 0
    /\ \/ \E rd \in 1..buf : buf' = buf - rd /\ ppc' = "nohang"
       \/ buf = 0 /\ slave = {} /\ UNCHANGED <<ppc, buf>>
    /\ UNCHANGED <<procs, childVars, master, slave>>

\* The blocking read() of read_master(): data, or EIO when the slave is closed
\* everywhere and the buffer is empty, which ends the loop.
ReadMaster ==
    /\ ppc = "read" /\ procs > 0
    /\ \/ \E rd \in 1..buf : buf' = buf - rd /\ ppc' = "nohang"
       \/ buf = 0 /\ slave = {} /\ ppc' = "wait" /\ UNCHANGED buf
    /\ UNCHANGED <<procs, childVars, master, slave>>

\* Every child was reaped by read_master(): `while (procs)` ends.
ReadDone ==
    /\ ppc = "read" /\ procs = 0
    /\ ppc' = "wait"
    /\ UNCHANGED <<procs, childVars, master, slave, buf>>

ReapChild(c) == st' = [st EXCEPT ![c] = "reaped"]

\* Fault: `pid >= 0` takes "no child has ended" for a reaped child.
ReapNoHangMiscounts ==
    /\ ppc = "nohang"
    /\ \/ \E c \in InState("zombie") : ReapChild(c)
       \/ InState("zombie") = {} /\ UNCHANGED st
    /\ procs' = procs - 1
    /\ ppc' = "read"
    /\ UNCHANGED <<made, ended, master, slave, buf>>

\* waitpid(-1, NULL, WNOHANG) after each read().
ReapNoHang ==
    /\ ppc = "nohang"
    /\ \/ \E c \in InState("zombie") : ReapChild(c) /\ procs' = procs - 1
       \/ InState("zombie") = {} /\ UNCHANGED <<st, procs>>
    /\ ppc' = "read"
    /\ UNCHANGED <<made, ended, master, slave, buf>>

\* Fault: the loop of wait_for_parallel() stops one child early.
WaitOneShort ==
    /\ ppc = "wait"
    /\ IF procs > 1
       THEN /\ \E c \in InState("zombie") : ReapChild(c)
            /\ procs' = procs - 1
            /\ UNCHANGED <<ppc, master>>
       ELSE ppc' = "done" /\ master' = master \ {Parent} /\ UNCHANGED <<st, procs>>
    /\ UNCHANGED <<made, ended, slave, buf>>

\* wait_for_parallel(): a wait() for each child still counted, then main()
\* closes the master.  A wait() with no child left would fail and count too.
Wait ==
    /\ ppc = "wait"
    /\ IF procs > 0
       THEN /\ \/ \E c \in InState("zombie") : ReapChild(c)
               \/ Unreaped = {} /\ UNCHANGED st
            /\ procs' = procs - 1
            /\ UNCHANGED <<ppc, master>>
       ELSE ppc' = "done" /\ master' = master \ {Parent} /\ UNCHANGED <<st, procs>>
    /\ UNCHANGED <<made, ended, slave, buf>>

-----------------------------------------------------------------------------
(* A child, from post_fork() to exit(), and its threads. *)

\* Fault: the post_fork hook is not run.
PostForkMissing(c) ==
    /\ st[c] = "forked"
    /\ st' = [st EXCEPT ![c] = "create"]
    /\ UNCHANGED <<ppc, procs, made, ended, master, slave, buf>>

\* The post_fork hook closes the master.
PostFork(c) ==
    /\ st[c] = "forked"
    /\ master' = master \ {c}
    /\ st' = [st EXCEPT ![c] = "create"]
    /\ UNCHANGED <<ppc, procs, made, ended, slave, buf>>

\* exit() or err(), called by any thread, ends the process and closes its files.
Exit(c) ==
    /\ st' = [st EXCEPT ![c] = "zombie"]
    /\ made' = [made EXCEPT ![c] = 0] /\ ended' = [ended EXCEPT ![c] = 0]
    /\ master' = master \ {c} /\ slave' = slave \ {c}

\* pthread_create(), which may fail; after the last one the child joins.
CreateThread(c) ==
    /\ st[c] = "create"
    /\ \/ Exit(c)
       \/ /\ made' = [made EXCEPT ![c] = @ + 1]
          /\ st' = [st EXCEPT ![c] = IF made[c] + 1 = THREADS THEN "join" ELSE @]
          /\ UNCHANGED <<ended, master, slave>>
    /\ UNCHANGED <<ppc, procs, buf>>

\* One call of the thread callback, proc_STI() or proc_TCXONC(): the ioctl puts
\* a byte into the pty, nothing when that is full, or it fails and ends the
\* process, as it always does on a pty that was hung up.
Callback(c) ==
    /\ RunningThreads(c) > 0
    /\ \/ Exit(c) /\ UNCHANGED buf
       \/ /\ master # {}
          /\ buf' \in {buf, IF buf < BufMax THEN buf + 1 ELSE buf}
          /\ UNCHANGED <<childVars, master, slave>>
    /\ UNCHANGED <<ppc, procs>>

\* A thread has made its LOOPS calls.
ThreadEnds(c) ==
    /\ RunningThreads(c) > 0
    /\ ended' = [ended EXCEPT ![c] = @ + 1]
    /\ UNCHANGED <<ppc, procs, st, made, master, slave, buf>>

\* All threads are joined: the threads_done hook closes the slave.
Joined(c) ==
    /\ st[c] = "join" /\ ended[c] = THREADS
    /\ st' = [st EXCEPT ![c] = "exiting"]
    /\ made' = [made EXCEPT ![c] = 0] /\ ended' = [ended EXCEPT ![c] = 0]
    /\ slave' = slave \ {c}
    /\ UNCHANGED <<ppc, procs, master, buf>>

\* exit(0) of run_parallel()
ChildExits(c) ==
    /\ st[c] = "exiting"
    /\ Exit(c)
    /\ UNCHANGED <<ppc, procs, buf>>

-----------------------------------------------------------------------------
ParentStep == \/ \E c \in Children : Fork(c)
              \/ CloseSlave \/ ReadMaster \/ ReadDone \/ ReapNoHang \/ Wait
MainThread(c) == PostFork(c) \/ CreateThread(c) \/ Joined(c) \/ ChildExits(c)
ChildStep(c) == MainThread(c) \/ Callback(c) \/ ThreadEnds(c)
PtyFinished ==
    /\ ppc \in {"done", "failed"} /\ Unreaped = InState("zombie")
    /\ UNCHANGED ptyVars

PtyNext == ParentStep \/ ForkFails \/ (\E c \in Children : ChildStep(c)) \/ PtyFinished

PtySpec == PtyInit /\ [][PtyNext]_ptyVars

\* Fairness: parent and children are scheduled, and a thread whose pty was hung
\* up makes its next call; an ioctl() on a working pty is never assumed to fail.
\* LOOPS is finite but huge: that a thread reaches the end of its loop is not
\* assumed here, it is the hypothesis LoopsEnd of one property.
PtyFairSpec ==
    /\ PtySpec /\ WF_ptyVars(ParentStep)
    /\ \A c \in Children : WF_ptyVars(MainThread(c)) /\ WF_ptyVars(Callback(c) /\ master = {})
LoopsEnd == \A c \in Children : WF_ptyVars(ThreadEnds(c))

-----------------------------------------------------------------------------
(* Properties. *)

\* While the parent reads and waits, procs is the number of its children that
\* are not reaped, over both groups and both ways of reaping; so wait() never
\* runs out of children and none is left when the parent is done.
ProcsCountsChildren ==
    /\ ppc \in {"read", "nohang", "wait"} => procs = Cardinality(Unreaped)
    /\ ppc = "done" => Unreaped = {}

\* Once read_master() has returned, nobody can put a byte into the pty any more:
\* no thread runs and the slave is closed everywhere.  And bytes are left unread
\* only when read_master() returned because it had reaped every child itself.
LastWriterGone ==
    ppc \in {"wait", "done"} =>
        /\ slave = {} /\ \A c \in Children : RunningThreads(c) = 0
        /\ buf > 0 => Unreaped = {}

\* When the threads end their loops, the parent's blocking read() does not wait
\* for ever: it comes to an end, and so does the program.
Terminates == LoopsEnd => <>(ppc \in {"done", "failed"})

\* Children orphaned by a failing fork() do not hammer on: the pty is hung up
\* with the parent's master and their next ioctl() ends them, without relying
\* on the end of their loops.
OrphansStop == (ppc = "failed") ~> (\A c \in Unreaped : st[c] = "zombie")

=============================================================================
