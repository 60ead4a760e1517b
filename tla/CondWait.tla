----------------------------- MODULE CondWait -----------------------------
(***************************************************************************)
(* cond_wait.c: main() hands characters from stdin to a thread through the *)
(* shared variable ccc.  Both sides use pthread_cond_wait() without a      *)
(* predicate: main() broadcasts cond and waits for condw, thr() waits for  *)
(* cond, prints ccc, broadcasts condw and sleeps with the mutex held.  At  *)
(* the end of the input main() cancels the thread and joins it.            *)
(*                                                                         *)
(* The k-th printable character is the number k.  Mutex, conditions        *)
(* (spurious wake-ups included) and deferred cancellation are libpthread,  *)
(* modelled by what POSIX promises the code.                               *)
(***************************************************************************)
EXTENDS Naturals, Sequences

CONSTANTS
    MaxChars,     \* bound: printable characters on stdin
    MaxSpurious   \* bound: wake-ups without a broadcast

ASSUME BoundsAssumption == MaxChars \in Nat /\ MaxSpurious \in Nat

VARIABLES
    mpc,        \* main(): next blocking call
    tpc,        \* thr()
    m,          \* holder of the mutex m; main() never keeps it between two steps
    ccc,        \* the shared character, 0 before the first one
    canceled,   \* pthread_cancel(t) was called
    log,        \* the characters thr() has printed
    spurious    \* wake-ups without a broadcast so far

vars == <<mpc, tpc, m, ccc, canceled, log, spurious>>

TypeOK ==
    /\ mpc \in {"getchar", "lock", "condw", "relock", "cancel", "join", "done"}
    /\ tpc \in {"lock", "cond", "relock", "read", "usleep", "dead"}
    /\ m \in {"none", "thr"}
    /\ ccc \in 0..MaxChars
    /\ canceled \in BOOLEAN
    /\ log \in Seq(0..MaxChars)
    /\ spurious \in 0..MaxSpurious

Init ==
    /\ mpc = "getchar" /\ tpc = "lock" /\ m = "none"
    /\ ccc = 0 /\ canceled = FALSE
    /\ log = <<>> /\ spurious = 0

\* pthread_cond_broadcast(): the waiter, if there is one, has to get m back.
WakeThr  == tpc' = IF tpc = "cond" THEN "relock" ELSE tpc
WakeMain == mpc' = IF mpc = "condw" THEN "relock" ELSE mpc

-----------------------------------------------------------------------------
(* main() *)

\* getchar(): a printable character, one that is skipped, or EOF.
GetChar ==
    /\ mpc = "getchar"
    /\ mpc' \in (IF ccc < MaxChars THEN {"lock"} ELSE {}) \cup {"getchar", "cancel"}
    /\ UNCHANGED <<tpc, m, ccc, canceled, log, spurious>>

\* Fault: the broadcast is forgotten.
WriteSilently ==
    /\ mpc = "lock" /\ m = "none"
    /\ ccc' = ccc + 1
    /\ mpc' = "condw"
    /\ UNCHANGED <<tpc, m, canceled, log, spurious>>

\* Fault: main() does not wait for condw.
WriteNoWait ==
    /\ mpc = "lock" /\ m = "none"
    /\ ccc' = ccc + 1
    /\ WakeThr
    /\ mpc' = "getchar"
    /\ UNCHANGED <<m, canceled, log, spurious>>

\* pthread_mutex_lock(), store, broadcast, and the start of pthread_cond_wait(),
\* which releases m: one step, since m is held from the first to the last.
Write ==
    /\ mpc = "lock" /\ m = "none"
    /\ ccc' = ccc + 1
    /\ WakeThr
    /\ mpc' = "condw"
    /\ UNCHANGED <<m, canceled, log, spurious>>

\* Woken on condw: m is taken again and released by pthread_mutex_unlock().
Resume ==
    /\ mpc = "relock" /\ m = "none"
    /\ mpc' = "getchar"
    /\ UNCHANGED <<tpc, m, ccc, canceled, log, spurious>>

Cancel ==
    /\ mpc = "cancel"
    /\ canceled' = TRUE
    /\ mpc' = "join"
    /\ UNCHANGED <<tpc, m, ccc, log, spurious>>

Join ==
    /\ mpc = "join" /\ tpc = "dead"
    /\ mpc' = "done"
    /\ UNCHANGED <<tpc, m, ccc, canceled, log, spurious>>

-----------------------------------------------------------------------------
(* thr() *)

\* pthread_mutex_lock() and the first pthread_cond_wait(), a cancellation
\* point: a thread cancelled there dies with m held.
ThrStart ==
    /\ tpc = "lock" /\ m = "none"
    /\ IF canceled THEN tpc' = "dead" /\ m' = "thr"
                   ELSE tpc' = "cond" /\ UNCHANGED m
    /\ UNCHANGED <<mpc, ccc, canceled, log, spurious>>

\* pthread_cond_wait() has got m back and returns.
ThrWake ==
    /\ tpc = "relock" /\ m = "none"
    /\ m' = "thr"
    /\ tpc' = "read"
    /\ UNCHANGED <<mpc, ccc, canceled, log, spurious>>

\* The thread prints ccc and broadcasts condw.
ThrRead ==
    /\ tpc = "read"
    /\ log' = Append(log, ccc)
    /\ WakeMain
    /\ tpc' = "usleep"
    /\ UNCHANGED <<m, ccc, canceled, spurious>>

\* Fault: m is unlocked around usleep() and taken again before the wait.
ThrSleepUnlocked ==
    /\ tpc = "usleep"
    /\ m' = "none"
    /\ tpc' = "lock"
    /\ UNCHANGED <<mpc, ccc, canceled, log, spurious>>

\* usleep() with m held, then the next pthread_cond_wait(); both are
\* cancellation points.
ThrSleep ==
    /\ tpc = "usleep"
    /\ IF canceled THEN tpc' = "dead" /\ UNCHANGED m
                   ELSE tpc' = "cond" /\ m' = "none"
    /\ UNCHANGED <<mpc, ccc, canceled, log, spurious>>

\* Cancelled in pthread_cond_wait(): the thread gets m back and dies with it.
ThrCanceled ==
    /\ canceled /\ tpc \in {"cond", "relock"} /\ m = "none"
    /\ tpc' = "dead" /\ m' = "thr"
    /\ UNCHANGED <<mpc, ccc, canceled, log, spurious>>

\* Cancelled in printf(), with m held.
ThrCanceledPrinting ==
    /\ canceled /\ tpc = "read"
    /\ tpc' = "dead"
    /\ UNCHANGED <<mpc, m, ccc, canceled, log, spurious>>

\* pthread_cond_wait() may return without a broadcast.
SpuriousWake ==
    /\ spurious < MaxSpurious
    /\ \/ tpc = "cond" /\ tpc' = "relock" /\ UNCHANGED mpc
       \/ mpc = "condw" /\ mpc' = "relock" /\ UNCHANGED tpc
    /\ spurious' = spurious + 1
    /\ UNCHANGED <<m, ccc, canceled, log>>

-----------------------------------------------------------------------------
MainStep == GetChar \/ Write \/ Resume \/ Cancel \/ Join
ThrStep  == ThrStart \/ ThrWake \/ ThrRead \/ ThrSleep
            \/ ThrCanceled \/ ThrCanceledPrinting
Next == MainStep \/ ThrStep \/ SpuriousWake

Spec == Init /\ [][Next]_vars

\* Fairness: both threads are scheduled, the mutex is handed to a waiter that
\* keeps asking (thr() gives it up only in its waits), and the input ends:
\* getchar() skips only finitely many characters.
FairSpec ==
    /\ Spec
    /\ WF_vars(GetChar /\ mpc' # "getchar")
    /\ WF_vars(Write) /\ WF_vars(Resume) /\ WF_vars(Cancel) /\ WF_vars(Join)
    /\ WF_vars(ThrStep)

-----------------------------------------------------------------------------
(* Properties. *)

\* Both sides sit in pthread_cond_wait() and nobody is left to broadcast.
BothWait == mpc = "condw" /\ tpc = "cond"

\* The handshake can only hang before the thread has printed anything, when
\* main() broadcast cond earlier than thr() reached its first wait.  Every
\* later broadcast finds its waiter, as m is held all through the loop body.
HangsOnlyAtStart == BothWait => log = <<>>

\* As long as no wait returns spuriously, the thread prints the characters in
\* order and each once, and main() reads the next one only after that.  (With
\* spurious wake-ups the waits without a predicate lose and repeat characters.)
HandedOverOnce ==
    spurious = 0 =>
        /\ \A i \in DOMAIN log : log[i] = i
        /\ mpc # "condw" => Len(log) = ccc

\* A thread that was waiting before the first character never misses one: main()
\* gets through its whole input and joins the thread, wherever that was
\* cancelled and although it dies with m locked.
WaitingThreadServes == (tpc = "cond" /\ ccc = 0) ~> (mpc = "done")

=============================================================================
