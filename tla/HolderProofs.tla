---------------------------- MODULE HolderProofs ----------------------------
(***************************************************************************)
(* Proofs about Holder, for any set of objects and of resources, finite or *)
(* not.                                                                    *)
(***************************************************************************)
EXTENDS Holder, TLAPS

\* A valid holder is alive and has a resource of its own; a held resource has a
\* valid holder.
OwnInv ==
    /\ \A h \in Holders : m_valid[h] => alive[h] /\ res[m_x[h]] = "held"
    /\ \A g, h \in Holders : m_valid[g] /\ m_valid[h] /\ m_x[g] = m_x[h] => g = h
    /\ \A r \in Resources : res[r] = "held" => \E h \in Holders : m_valid[h] /\ m_x[h] = r

Ind == TypeOK /\ OwnInv /\ DestroysOnlyItsOwn

\* Every constructor, assignment and member function keeps the invariant.
THEOREM Inductive == Spec => []Ind
<1>1. Init => Ind
  BY ResourcesAssumption DEF Init, Ind, TypeOK, OwnInv, DestroysOnlyItsOwn
<1>2. Ind /\ [Next]_vars => Ind'
  <2> SUFFICES ASSUME Ind, [Next]_vars PROVE Ind'
    OBVIOUS
  <2> USE DEF Ind, TypeOK, OwnInv, DestroysOnlyItsOwn
  <2>1. ASSUME NEW r \in Resources, Acquire(r) PROVE Ind'
    BY <2>1 DEF Acquire
  <2>2. ASSUME NEW h \in Holders, ConstructEmpty(h) PROVE Ind'
    BY <2>2 DEF ConstructEmpty
  <2>3. ASSUME NEW h \in Holders, NEW r \in Resources, Construct(h, r) PROVE Ind'
    BY <2>3 DEF Construct
  <2>4. ASSUME NEW h \in Holders, NEW o \in Holders, MoveConstruct(h, o) PROVE Ind'
    BY <2>4 DEF MoveConstruct
  <2>5. ASSUME NEW h \in Holders, NEW o \in Holders, MoveAssign(h, o) PROVE Ind'
    BY <2>5 DEF MoveAssign, Destroyed, Misses
  <2>6. ASSUME NEW h \in Holders, NEW r \in Resources, Set(h, r) PROVE Ind'
    BY <2>6 DEF Set, Destroyed, Misses
  <2>7. ASSUME NEW h \in Holders, SetInvalid(h) PROVE Ind'
    BY <2>7 DEF SetInvalid, Destroyed, Misses
  <2>8. ASSUME NEW h \in Holders, Release(h) PROVE Ind'
    BY <2>8 DEF Release
  <2>9. ASSUME NEW h \in Holders, Destruct(h) PROVE Ind'
    BY <2>9 DEF Destruct, Destroyed, Misses
  <2>10. CASE UNCHANGED vars
    BY <2>10 DEF vars
  <2> QED
    BY <2>1, <2>2, <2>3, <2>4, <2>5, <2>6, <2>7, <2>8, <2>9, <2>10 DEF Next
<1> QED BY <1>1, <1>2, PTL DEF Spec

\* Destroy is only ever run by the one owner of a resource.
THEOREM DestroySafe == Spec => []DestroysOnlyItsOwn
<1>1. Ind => DestroysOnlyItsOwn
  BY DEF Ind
<1> QED BY <1>1, Inductive, PTL

\* A resource handed to a holder has exactly one owner until it is destroyed or
\* released.
THEOREM OwnerSafe == Spec => []OneOwner
<1>1. Ind => OneOwner
  BY DEF Ind, OwnInv, TypeOK, OneOwner, Owners
<1> QED BY <1>1, Inductive, PTL

-----------------------------------------------------------------------------
(* The refinement. *)

\* OwnerOf() read off the fields of the holders.
OwnerFacts ==
    \A r \in Resources :
        /\ OwnerOf(r) \in Holders \cup {"nobody", "client"}
        /\ OwnerOf(r) = "nobody" <=> res[r] = "free"
        /\ OwnerOf(r) = "client" <=> res[r] = "raw"
        /\ \A h \in Holders : OwnerOf(r) = h <=> m_valid[h] /\ m_x[h] = r

LEMMA OwnerLemma == Ind => OwnerFacts
<1> SUFFICES ASSUME Ind, NEW r \in Resources
    PROVE /\ OwnerOf(r) \in Holders \cup {"nobody", "client"}
          /\ OwnerOf(r) = "nobody" <=> res[r] = "free"
          /\ OwnerOf(r) = "client" <=> res[r] = "raw"
          /\ \A h \in Holders : OwnerOf(r) = h <=> m_valid[h] /\ m_x[h] = r
  BY DEF OwnerFacts
<1> USE DEF Ind, TypeOK, OwnInv
<1>1. CASE res[r] = "free"
  BY <1>1, HoldersAssumption DEF OwnerOf
<1>2. CASE res[r] = "raw"
  BY <1>2, HoldersAssumption DEF OwnerOf
<1>3. CASE res[r] = "held"
  <2>1. PICK o \in Holders : m_valid[o] /\ m_x[o] = r
    BY <1>3
  <2>2. Owners(r) = {o}
    BY <2>1 DEF Owners
  <2>3. OwnerOf(r) = CHOOSE h \in Holders : Owners(r) = {h}
    BY <1>3, <2>2 DEF OwnerOf
  <2>4. OwnerOf(r) = o
    BY <2>2, <2>3
  <2> QED BY <1>3, <2>1, <2>4, HoldersAssumption
<1> QED BY <1>1, <1>2, <1>3

\* A step of a holder or its client changes owners the way Ownership allows.
LEMMA StepRefines ==
    ASSUME Ind, Ind', OwnerFacts, OwnerFacts', Next
    PROVE Abstract!Next \/ UNCHANGED [r \in Resources |-> OwnerOf(r)]
<1> USE DEF Ind, TypeOK, OwnerFacts
<1>1. ASSUME NEW r \in Resources, Acquire(r) PROVE Abstract!Acquire(r)
  <2>1. OwnerOf(r) = "nobody" /\ OwnerOf(r)' = "client"
    BY <1>1 DEF Acquire
  <2>2. \A x \in Resources \ {r} : OwnerOf(x)' = OwnerOf(x)
    BY <1>1 DEF Acquire
  <2> QED BY <2>1, <2>2 DEF Abstract!Acquire
<1>2. ASSUME NEW h \in Holders, ConstructEmpty(h) PROVE UNCHANGED [r \in Resources |-> OwnerOf(r)]
  <2>1. \A x \in Resources : OwnerOf(x)' = OwnerOf(x)
    BY <1>2 DEF ConstructEmpty, OwnInv
  <2> QED BY <2>1
<1>3. ASSUME NEW h \in Holders, NEW r \in Resources, Construct(h, r) PROVE Abstract!Take(h, r)
  <2>1. OwnerOf(r) = "client" /\ OwnerOf(r)' = h
    BY <1>3 DEF Construct
  <2>2. \A x \in Resources \ {r} : OwnerOf(x)' = OwnerOf(x) /\ OwnerOf(x) # h
    BY <1>3 DEF Construct, OwnInv
  <2> QED BY <2>1, <2>2 DEF Abstract!Take
<1>4. ASSUME NEW h \in Holders, NEW o \in Holders, MoveConstruct(h, o) PROVE Abstract!TakeOver(h, o) /\ h # o
  <2>1. \A x \in Resources : OwnerOf(x)' = IF OwnerOf(x) = o THEN h ELSE OwnerOf(x)
    BY <1>4 DEF MoveConstruct, OwnInv
  <2>2. \A x \in Resources : OwnerOf(x) # h
    BY <1>4 DEF MoveConstruct, OwnInv
  <2> QED BY <1>4, <2>1, <2>2 DEF Abstract!TakeOver, MoveConstruct
<1>5. ASSUME NEW h \in Holders, NEW o \in Holders, MoveAssign(h, o) PROVE Abstract!TakeOver(h, o) /\ h # o
  <2>1. \A x \in Resources : OwnerOf(x)' =
           IF OwnerOf(x) = o THEN h ELSE IF OwnerOf(x) = h THEN "nobody" ELSE OwnerOf(x)
    BY <1>5, HoldersAssumption DEF MoveAssign, Destroyed, OwnInv
  <2> QED BY <1>5, <2>1 DEF Abstract!TakeOver, MoveAssign
<1>6. ASSUME NEW h \in Holders, NEW r \in Resources, Set(h, r) PROVE Abstract!Take(h, r)
  <2>1. OwnerOf(r) = "client" /\ OwnerOf(r)' = h
    BY <1>6 DEF Set
  <2>2. \A x \in Resources \ {r} : OwnerOf(x)' = IF OwnerOf(x) = h THEN "nobody" ELSE OwnerOf(x)
    BY <1>6, HoldersAssumption DEF Set, Destroyed, OwnInv
  <2> QED BY <2>1, <2>2 DEF Abstract!Take
<1>7. ASSUME NEW h \in Holders, SetInvalid(h) \/ Destruct(h) PROVE Abstract!Part(h, "nobody")
  <2>1. \A x \in Resources : OwnerOf(x)' = IF OwnerOf(x) = h THEN "nobody" ELSE OwnerOf(x)
    BY <1>7, HoldersAssumption DEF SetInvalid, Destruct, Destroyed, OwnInv
  <2> QED BY <2>1 DEF Abstract!Part
<1>8. ASSUME NEW h \in Holders, Release(h) PROVE Abstract!Part(h, "client")
  <2>1. \A x \in Resources : OwnerOf(x)' = IF OwnerOf(x) = h THEN "client" ELSE OwnerOf(x)
    BY <1>8, HoldersAssumption DEF Release, OwnInv
  <2> QED BY <2>1 DEF Abstract!Part
<1> QED BY <1>1, <1>2, <1>3, <1>4, <1>5, <1>6, <1>7, <1>8 DEF Next, Abstract!Next

\* Holder<T, Destroy> implements Ownership, for any number of objects and of
\* resources.
THEOREM Refinement == Spec => ImplementsOwnership
<1>1. Init => Abstract!Init
  BY DEF Init, Abstract!Init, OwnerOf
<1>2. Ind /\ Ind' /\ [Next]_vars => [Abstract!Next]_([r \in Resources |-> OwnerOf(r)])
  <2> SUFFICES ASSUME Ind, Ind', [Next]_vars
      PROVE Abstract!Next \/ UNCHANGED [r \in Resources |-> OwnerOf(r)]
    OBVIOUS
  <2>1. OwnerFacts /\ OwnerFacts'
    BY OwnerLemma, PTL
  <2>2. CASE Next
    BY <2>1, <2>2, StepRefines
  <2>3. CASE UNCHANGED vars
    BY <2>3 DEF vars, OwnerOf, Owners
  <2> QED BY <2>2, <2>3
<1> QED BY <1>1, <1>2, Inductive, PTL DEF Spec, ImplementsOwnership, Abstract!Spec

=============================================================================
