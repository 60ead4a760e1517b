------------------------------- MODULE Holder -------------------------------
(***************************************************************************)
(* Holder.h: Holder<T, Destroy>, the move-only owner of a resource that is *)
(* named by a plain value, as pthread/pthread.cpp (threads and processes)  *)
(* and fork_vfork.cpp (processes) use it.                                  *)
(*                                                                         *)
(* T is pid_t or pthread_t: std::move() copies the value, a moved-from or  *)
(* released holder still contains it, and the system hands the same value  *)
(* out again once the resource is gone.  Only m_valid tells whether the    *)
(* value means anything, and running Destroy (waitpid(), pthread_join())   *)
(* on a value that is not the holder's own is a silent error.              *)
(***************************************************************************)
EXTENDS Naturals, FiniteSets

CONSTANTS
    Holders,    \* objects, dead or alive
    Resources   \* values of T

ASSUME ResourcesAssumption == Resources # {}
ASSUME HoldersAssumption == Holders \cap {"nobody", "client", "lost"} = {}

VARIABLES
    alive,     \* object: constructed and not destructed
    m_valid,   \* object: m_valid
    m_x,       \* object: m_x
    res,       \* resource: "free", "raw" (in the client's hands) or "held"
    foreign    \* Destroy was run on a resource its holder did not own

vars == <<alive, m_valid, m_x, res, foreign>>

TypeOK ==
    /\ alive \in [Holders -> BOOLEAN]
    /\ m_valid \in [Holders -> BOOLEAN]
    /\ m_x \in [Holders -> Resources]
    /\ res \in [Resources -> {"free", "raw", "held"}]
    /\ foreign \in BOOLEAN

\* Memory where objects will be has arbitrary contents.
Init ==
    /\ alive = [h \in Holders |-> FALSE]
    /\ m_valid = [h \in Holders |-> FALSE]
    /\ m_x \in [Holders -> Resources]
    /\ res = [r \in Resources |-> "free"]
    /\ foreign = FALSE

\* The resources after destroy() of h, and whether it hit one that is not h's.
Destroyed(h) == IF m_valid[h] THEN [res EXCEPT ![m_x[h]] = "free"] ELSE res
Misses(h) == m_valid[h] /\ res[m_x[h]] # "held"

-----------------------------------------------------------------------------
\* fork() or pthread_create() returns a value that is not in use.
Acquire(r) ==
    /\ res[r] = "free"
    /\ res' = [res EXCEPT ![r] = "raw"]
    /\ UNCHANGED <<alive, m_valid, m_x, foreign>>

\* Holder(): m_x is left uninitialised.
ConstructEmpty(h) ==
    /\ ~alive[h]
    /\ alive' = [alive EXCEPT ![h] = TRUE]
    /\ m_valid' = [m_valid EXCEPT ![h] = FALSE]
    /\ \E r \in Resources : m_x' = [m_x EXCEPT ![h] = r]
    /\ UNCHANGED <<res, foreign>>

\* Holder(T x)
Construct(h, r) ==
    /\ ~alive[h] /\ res[r] = "raw"
    /\ alive' = [alive EXCEPT ![h] = TRUE]
    /\ m_valid' = [m_valid EXCEPT ![h] = TRUE]
    /\ m_x' = [m_x EXCEPT ![h] = r]
    /\ res' = [res EXCEPT ![r] = "held"]
    /\ UNCHANGED foreign

\* Fault: the source stays valid.
MoveConstructKeeps(h, o) ==
    /\ ~alive[h] /\ alive[o]
    /\ alive' = [alive EXCEPT ![h] = TRUE]
    /\ m_valid' = [m_valid EXCEPT ![h] = m_valid[o]]
    /\ m_x' = [m_x EXCEPT ![h] = m_x[o]]
    /\ UNCHANGED <<res, foreign>>

\* Holder(Holder &&o), as std::vector uses it when it grows.
MoveConstruct(h, o) ==
    /\ ~alive[h] /\ alive[o]
    /\ alive' = [alive EXCEPT ![h] = TRUE]
    /\ m_valid' = [m_valid EXCEPT ![h] = m_valid[o], ![o] = FALSE]
    /\ m_x' = [m_x EXCEPT ![h] = m_x[o]]
    /\ UNCHANGED <<res, foreign>>

\* Fault: the assignment swaps, so that o keeps h's old resource.
MoveAssignSwaps(h, o) ==
    /\ alive[h] /\ alive[o] /\ h # o
    /\ m_x' = [m_x EXCEPT ![h] = m_x[o], ![o] = m_x[h]]
    /\ m_valid' = [m_valid EXCEPT ![h] = m_valid[o], ![o] = m_valid[h]]
    /\ UNCHANGED <<alive, res, foreign>>

\* operator=(Holder &&o): o is released before h's own resource is destroyed,
\* and its validity goes along.  Assignment to itself does nothing.
MoveAssign(h, o) ==
    /\ alive[h] /\ alive[o] /\ h # o
    /\ res' = Destroyed(h)
    /\ foreign' = (foreign \/ Misses(h))
    /\ m_x' = [m_x EXCEPT ![h] = IF m_valid[o] THEN m_x[o] ELSE m_x[h]]
    /\ m_valid' = [m_valid EXCEPT ![h] = m_valid[o], ![o] = FALSE]
    /\ UNCHANGED alive

\* Fault: set() overwrites a resource it still owns.
SetNoDestroy(h, r) ==
    /\ alive[h] /\ res[r] = "raw"
    /\ res' = [res EXCEPT ![r] = "held"]
    /\ m_x' = [m_x EXCEPT ![h] = r]
    /\ m_valid' = [m_valid EXCEPT ![h] = TRUE]
    /\ UNCHANGED <<alive, foreign>>

\* set(t): the old resource goes, t comes.
Set(h, r) ==
    /\ alive[h] /\ res[r] = "raw"
    /\ res' = [Destroyed(h) EXCEPT ![r] = "held"]
    /\ foreign' = (foreign \/ Misses(h))
    /\ m_x' = [m_x EXCEPT ![h] = r]
    /\ m_valid' = [m_valid EXCEPT ![h] = TRUE]
    /\ UNCHANGED alive

\* set(t, false): only the old resource goes.
SetInvalid(h) ==
    /\ alive[h]
    /\ res' = Destroyed(h)
    /\ foreign' = (foreign \/ Misses(h))
    /\ m_valid' = [m_valid EXCEPT ![h] = FALSE]
    /\ UNCHANGED <<alive, m_x>>

\* release() of a valid holder: the client has the resource again.
Release(h) ==
    /\ alive[h] /\ m_valid[h]
    /\ m_valid' = [m_valid EXCEPT ![h] = FALSE]
    /\ res' = [res EXCEPT ![m_x[h]] = "raw"]
    /\ UNCHANGED <<alive, m_x, foreign>>

\* ~Holder()
Destruct(h) ==
    /\ alive[h]
    /\ res' = Destroyed(h)
    /\ foreign' = (foreign \/ Misses(h))
    /\ m_valid' = [m_valid EXCEPT ![h] = FALSE]
    /\ alive' = [alive EXCEPT ![h] = FALSE]
    /\ UNCHANGED m_x

Next ==
    \/ \E r \in Resources : Acquire(r)
    \/ \E h \in Holders :
        \/ ConstructEmpty(h) \/ SetInvalid(h) \/ Release(h) \/ Destruct(h)
        \/ \E r \in Resources : Construct(h, r) \/ Set(h, r)
        \/ \E o \in Holders : MoveConstruct(h, o) \/ MoveAssign(h, o)

Spec == Init /\ [][Next]_vars

-----------------------------------------------------------------------------
(* Properties. *)

Owners(r) == {h \in Holders : m_valid[h] /\ m_x[h] = r}

\* No resource is leaked or shared: what a holder was given belongs to exactly
\* one valid, living holder until it is destroyed or released, through any
\* sequence of moves, assignments and sets.
OneOwner ==
    \A r \in Resources :
        /\ res[r] = "held" => \E h \in Holders : Owners(r) = {h} /\ alive[h]
        /\ res[r] # "held" => Owners(r) = {}

\* Destroy is never run twice for a resource, nor on the stale value left in a
\* moved-from, released or uninitialised holder, even when the system has given
\* that value out again.
DestroysOnlyItsOwn == ~foreign

\* Who owns r, as the valid holders tell.
OwnerOf(r) ==
    IF res[r] = "free" THEN "nobody"
    ELSE IF res[r] = "raw" THEN "client"
    ELSE IF \E h \in Holders : Owners(r) = {h} THEN CHOOSE h \in Holders : Owners(r) = {h}
    ELSE "lost"

Abstract == INSTANCE Ownership WITH
    owner <- [r \in Resources |-> OwnerOf(r)], Nobody <- "nobody", Client <- "client"

\* Holder<T, Destroy> implements the transfer of ownership: no member function
\* makes a resource change hands in another way than its user asked for, or
\* lets one go without destroying or returning it.
ImplementsOwnership == Abstract!Spec

=============================================================================
