--------------------------- MODULE ProgramProofs ---------------------------
(***************************************************************************)
(* Proofs about four of the programs: the remote tuner with its peers and  *)
(* tzap processes, the pty test with its children, lgap with an air        *)
(* conditioner on a bad line, and the judge of piskvor.  The programs      *)
(* share no state; each part below is about one.                           *)
(***************************************************************************)
EXTENDS RemoteTuner, PtyMultiwrite, Lgap, Piskvor, FiniteSetTheorems, TLAPS

-----------------------------------------------------------------------------
(* remote_tuner.c *)

\* The only tzap that was neither told to stop nor forgotten is the one tzap_pid
\* names, and only while its connection lasts.
OthersSignalled ==
    \A p \in Pids :
        proc[p] = "tzap" => \/ p \in signalled \/ p \in forgotten
                            \/ p = tzap_pid /\ reqs > 0 /\ tpc # "accept"

\* Events of the stream are reported only for a stream that is polled, and are
\* true until the stream is replaced.
StreamEvents ==
    /\ nfds = 1 => "dvr_in" \notin revents /\ "dvr_hup" \notin revents
    /\ tpc \in {"reap", "hup", "conn"} /\ "dvr_in" \in revents => stream = "data"
    /\ tpc = "dvr" /\ "dvr_in" \in revents /\ stream # "data" => replaced
    /\ tpc = "blocked" => replaced

TunerInd == TunerTypeOK /\ PidIsOwnChild /\ OthersSignalled /\ StreamEvents

\* Every step of the server, its peers and the processes keeps the invariant.
THEOREM TunerInductive == TunerSpec => []TunerInd
<1>1. TunerInit => TunerInd
  <2> USE PidAssumption, BoundsAssumption
  <2>1. TunerInit => TunerTypeOK
    <3> SUFFICES ASSUME TunerInit PROVE TunerTypeOK
      OBVIOUS
    <3>1. replaced \in BOOLEAN /\ forgotten \in SUBSET Pids /\ revents \in SUBSET Events /\ signalled \in SUBSET Pids
      BY Zenon DEF TunerInit
    <3> QED BY <3>1 DEF TunerInit, TunerTypeOK
  <2>2. TunerInit => PidIsOwnChild /\ OthersSignalled /\ StreamEvents
    BY DEF TunerInit, PidIsOwnChild, TzapState, OthersSignalled, StreamEvents
  <2> QED BY <2>1, <2>2 DEF TunerInd
<1>2. TunerInd /\ [TunerNext]_tunerVars => TunerInd'
  <2> SUFFICES ASSUME TunerInd, [TunerNext]_tunerVars PROVE TunerInd'
    OBVIOUS
  <2> USE PidAssumption, BoundsAssumption DEF TunerInd, peerVars, procVars, connVars, Events
  <2>1. CASE Accept
    <3>1. TunerTypeOK'
      <4>1. replaced' \in BOOLEAN /\ revents' \in SUBSET Events
        BY <2>1, Zenon DEF Accept
      <4> QED BY <2>1, <4>1 DEF Accept, TunerTypeOK
    <3>2. PidIsOwnChild' /\ OthersSignalled' /\ StreamEvents'
      BY <2>1 DEF Accept, TunerTypeOK, PidIsOwnChild, TzapState, OthersSignalled, StreamEvents
    <3> QED BY <3>1, <3>2
  <2>2. CASE AcceptFails \/ HangUp
    <3>1. TunerTypeOK'
      BY <2>2 DEF AcceptFails, HangUp, TunerTypeOK
    <3>2. PidIsOwnChild' /\ OthersSignalled' /\ StreamEvents'
      BY <2>2 DEF AcceptFails, HangUp, TunerTypeOK, PidIsOwnChild, TzapState, OthersSignalled,
                  StreamEvents
    <3> QED BY <3>1, <3>2
  <2>3. CASE Poll
    <3>1. /\ tpc = "poll" /\ tpc' \in {"reap", "exit"} /\ replaced' = FALSE
          /\ UNCHANGED <<tzap_pid, nfds, stream, reqs, forgotten, peerVars, procVars>>
      BY <2>3 DEF Poll
    <3>2. PidIsOwnChild' /\ OthersSignalled'
      BY <3>1 DEF PidIsOwnChild, TzapState, OthersSignalled
    <3>3. TunerTypeOK' /\ StreamEvents'
      <4>1. CASE tpc' = "exit" /\ UNCHANGED revents
        BY <3>1, <4>1 DEF TunerTypeOK, StreamEvents
      <4>2. CASE ~(tpc' = "exit" /\ UNCHANGED revents)
        <5>1. PICK ev \in Reported :
                revents' = ev \cup (IF nfds = 1 THEN revents \cap {"dvr_in", "dvr_hup"} ELSE {})
          BY <2>3, <4>2 DEF Poll
        <5>2. /\ ev \in SUBSET Events
              /\ "dvr_in" \in ev <=> nfds = 2 /\ stream = "data"
              /\ "dvr_hup" \in ev => nfds = 2
          BY <5>1 DEF Reported
        <5>3. TunerTypeOK'
          BY <3>1, <5>1, <5>2 DEF TunerTypeOK
        <5>4. StreamEvents'
          BY <3>1, <5>1, <5>2 DEF TunerTypeOK, StreamEvents
        <5> QED BY <5>3, <5>4
      <4> QED BY <4>1, <4>2
    <3> QED BY <3>2, <3>3
  <2>4. CASE ReapTzap
    <3>1. tpc' \in {"hup", "exit"} /\ UNCHANGED <<connVars, peerVars>> /\ tpc = "reap"
      BY <2>4 DEF ReapTzap
    <3>2. StreamEvents'
      BY <3>1 DEF StreamEvents
    <3>3. CASE UNCHANGED <<tzap_pid, procVars>>
      BY <3>1, <3>2, <3>3 DEF TunerTypeOK, PidIsOwnChild, TzapState, OthersSignalled
    <3>4. CASE /\ TzapState = "zombie" /\ tzap_pid' = NoPid
               /\ proc' = [proc EXCEPT ![tzap_pid] = "none"]
               /\ signalled' = signalled \ {tzap_pid}
      <4>1. tzap_pid \in Pids
        BY <3>4 DEF TunerTypeOK, TzapState
      <4>2. TunerTypeOK'
        BY <3>1, <3>4, <4>1 DEF TunerTypeOK
      <4>3. PidIsOwnChild' /\ OthersSignalled'
        BY <3>1, <3>4, <4>1 DEF TunerTypeOK, PidIsOwnChild, TzapState, OthersSignalled
      <4> QED BY <3>2, <4>2, <4>3
    <3> QED BY <2>4, <3>3, <3>4 DEF ReapTzap
  <2>5. CASE ReadConn
    <3>1. CASE tpc' = "dvr" /\ UNCHANGED <<tzap_pid, connVars, procVars, conns>> /\ peer' \in {peer, "idle"}
      BY <2>5, <3>1
      DEF ReadConn, TunerTypeOK, PidIsOwnChild, TzapState, OthersSignalled, StreamEvents
    <3>2. CASE EndConn /\ UNCHANGED <<connVars, peerVars>>
      BY <3>2 DEF EndConn, TunerTypeOK, PidIsOwnChild, TzapState, OthersSignalled, StreamEvents
    <3>a. CASE tpc' = "exit" /\ UNCHANGED <<tzap_pid, connVars, procVars, conns>> /\ peer' \in {peer, "idle"}
      BY <2>5, <3>a
      DEF ReadConn, TunerTypeOK, PidIsOwnChild, TzapState, OthersSignalled, StreamEvents
    <3>3. CASE /\ reqs < MaxReqs /\ RunTzap /\ peer' = "idle" /\ UNCHANGED <<revents, conns>>
               /\ ~(tpc' = "exit" /\ UNCHANGED <<tzap_pid, connVars, procVars>>)
      <4>1. PICK p \in Pids : /\ proc[p] = "none"
                              /\ proc' = [proc EXCEPT ![p] = "tzap"]
                              /\ tzap_pid' = p
        BY <3>3 DEF RunTzap
      <4>2. /\ \/ tpc' = "dvr" /\ nfds' = 2 /\ stream' = "empty"
               \/ tpc' = "exit" /\ UNCHANGED <<nfds, stream>>
            /\ reqs' = reqs + 1
            /\ forgotten' = IF reqs > 0 THEN forgotten \cup ({tzap_pid} \ {NoPid}) ELSE forgotten
            /\ replaced' = (nfds = 2)
            /\ UNCHANGED signalled
        BY <3>3 DEF RunTzap
      <4>3. TunerTypeOK'
        <5>1. replaced' \in BOOLEAN
          BY <4>2, Zenon
        <5>2. reqs' \in 0..MaxReqs
          BY <3>3, <4>2 DEF TunerTypeOK
        <5>3. forgotten' \in SUBSET Pids
          BY <4>2 DEF TunerTypeOK
        <5> QED BY <3>3, <4>1, <4>2, <5>1, <5>2, <5>3 DEF TunerTypeOK
      <4>4. PidIsOwnChild'
        BY <4>1 DEF TunerTypeOK, PidIsOwnChild, TzapState
      <4>5. OthersSignalled'
        <5> SUFFICES ASSUME NEW q \in Pids, proc'[q] = "tzap"
                     PROVE  \/ q \in signalled' \/ q \in forgotten'
                            \/ q = tzap_pid' /\ reqs' > 0 /\ tpc' # "accept"
          BY DEF OthersSignalled
        <5>1. CASE q = p
          BY <4>1, <4>2, <5>1 DEF TunerTypeOK
        <5>2. CASE q # p
          <6>1. proc[q] = "tzap" /\ forgotten \subseteq forgotten'
            BY <4>1, <4>2, <5>2 DEF TunerTypeOK
          <6>2. q \in signalled \/ q \in forgotten \/ (q = tzap_pid /\ reqs > 0)
            BY <6>1 DEF OthersSignalled
          <6> QED BY <4>2, <6>1, <6>2
        <5> QED BY <5>1, <5>2
      <4>6. StreamEvents'
        <5>1. replaced' <=> nfds = 2
          BY <4>2, Zenon
        <5>2. nfds = 1 \/ nfds = 2
          BY DEF TunerTypeOK
        <5> QED BY <3>3, <4>2, <5>1, <5>2 DEF StreamEvents
      <4> QED BY <4>3, <4>4, <4>5, <4>6
    <3> QED BY <2>5, <3>1, <3>2, <3>a, <3>3 DEF ReadConn
  <2>6. ASSUME CopyOrBlock, stream' \in {"empty", "data", stream},
               UNCHANGED <<nfds, revents, reqs, forgotten, replaced, peerVars>>
        PROVE  TunerInd'
    <3>1. CASE tpc' \in {"poll", "exit", "write"} /\ UNCHANGED <<tzap_pid, procVars>>
      BY <2>6, <3>1 DEF TunerTypeOK, PidIsOwnChild, TzapState, OthersSignalled, StreamEvents
    <3>2. CASE EndConn
      BY <2>6, <3>2 DEF EndConn, TunerTypeOK, PidIsOwnChild, TzapState, OthersSignalled, StreamEvents
    <3> QED BY <2>6, <3>1, <3>2 DEF CopyOrBlock, CopyStream
  <2>7. CASE ReadDvr
    <3>1. CASE tpc' \in {"poll", "blocked"} /\ UNCHANGED <<tzap_pid, procVars, stream>>
      <4>1. tpc' = "blocked" => replaced
        BY <2>7 DEF ReadDvr, CopyOrBlock, CopyStream, EndConn, StreamEvents
      <4> QED
        BY <2>7, <3>1, <4>1
        DEF ReadDvr, TunerTypeOK, PidIsOwnChild, TzapState, OthersSignalled, StreamEvents
    <3>2. CASE CopyOrBlock /\ stream' \in {"empty", "data"}
      BY <2>6, <2>7, <3>2 DEF ReadDvr
    <3> QED BY <2>7, <3>1, <3>2 DEF ReadDvr
  <2>8. CASE Unblock \/ WriteEnds
    BY <2>6, <2>8 DEF Unblock, WriteEnds, CopyOrBlock
  <2>9. CASE PeerSends \/ StreamData
    BY <2>9 DEF PeerSends, StreamData, TunerTypeOK, PidIsOwnChild, TzapState, OthersSignalled,
                StreamEvents
  <2>10. ASSUME NEW p \in Pids, TzapDies(p) \/ OtherProcess(p) PROVE TunerInd'
    <3>1. /\ UNCHANGED <<tpc, tzap_pid, connVars, peerVars, signalled>>
          /\ \/ proc[p] = "tzap" /\ proc' = [proc EXCEPT ![p] = "zombie"]
             \/ proc[p] = "none" /\ proc' = [proc EXCEPT ![p] = "foreign"]
             \/ proc[p] = "foreign" /\ proc' = [proc EXCEPT ![p] = "none"]
      BY <2>10 DEF TzapDies, OtherProcess, TunerTypeOK
    <3>2. TunerTypeOK' /\ StreamEvents'
      BY <3>1 DEF TunerTypeOK, StreamEvents
    <3>3. PidIsOwnChild' /\ OthersSignalled'
      BY <3>1 DEF TunerTypeOK, PidIsOwnChild, TzapState, OthersSignalled
    <3> QED BY <3>2, <3>3
  <2>11. CASE UNCHANGED tunerVars
    BY <2>11 DEF tunerVars, TunerTypeOK, PidIsOwnChild, TzapState, OthersSignalled, StreamEvents
  <2> QED
    BY <2>1, <2>2, <2>3, <2>4, <2>5, <2>7, <2>8, <2>9, <2>10, <2>11
    DEF TunerNext, Server, Environment
<1> QED BY <1>1, <1>2, PTL DEF TunerSpec

\* The server signals and waits for its own tzap only, for any number of
\* connections and identifiers.
THEOREM PidIsOwnChildSafe == TunerSpec => []PidIsOwnChild
<1>1. TunerInd => PidIsOwnChild
  BY DEF TunerInd
<1> QED BY <1>1, TunerInductive, PTL

\* Between connections every tzap was told to stop, but for those a second
\* request on their connection made the server forget.
THEOREM IdleServerIsSilentSafe == TunerSpec => []IdleServerIsSilent
<1>1. TunerInd => IdleServerIsSilent
  BY DEF TunerInd, OthersSignalled, IdleServerIsSilent
<1> QED BY <1>1, TunerInductive, PTL

\* The loop blocks in a read() only in the turn that replaced the descriptor.
THEOREM BlocksOnlyOnRetuneSafe == TunerSpec => []BlocksOnlyOnRetune
<1>1. TunerInd => BlocksOnlyOnRetune
  BY DEF TunerInd, StreamEvents, BlocksOnlyOnRetune
<1> QED BY <1>1, TunerInductive, PTL

-----------------------------------------------------------------------------
(* tty/pty_multiwrite.c and tty/process.h *)

\* What run_parallel() has returned so far, given the children that exist: all
\* of a group or nothing.
Counted(n) == IF n < PROCS THEN 0 ELSE IF n < 2 * PROCS THEN PROCS ELSE 2 * PROCS

\* One more child is counted when it completes a group, as Fork's remainder says.
LEMMA CountedNext ==
    ASSUME NEW n \in Nat, n + 1 <= 2 * PROCS
    PROVE  Counted(n + 1) = IF (n + 1) % PROCS = 0 THEN Counted(n) + PROCS ELSE Counted(n)
<1> DEFINE m == n + 1
<1>1. PROCS \in Nat /\ PROCS > 0 /\ m \in Nat /\ m > 0
  BY ProcsAssumption
<1>2. CASE m < PROCS
  <2>1. m % PROCS = m
    BY <1>1, <1>2
  <2> QED BY <1>1, <1>2, <2>1 DEF Counted
<1>3. CASE m = PROCS
  <2>1. m % PROCS = 0
    BY <1>1, <1>3
  <2> QED BY <1>1, <1>3, <2>1 DEF Counted
<1>4. CASE m > PROCS /\ m < 2 * PROCS
  <2>1. m = (m - PROCS) + PROCS /\ m - PROCS \in 1..(PROCS - 1)
    BY <1>1, <1>4
  <2>2. ((m - PROCS) + PROCS) % PROCS = m - PROCS
    BY <1>1, <2>1
  <2>3. m % PROCS # 0
    BY <2>1, <2>2
  <2> QED BY <1>1, <1>4, <2>3 DEF Counted
<1>5. CASE m = 2 * PROCS
  <2>1. m % PROCS = 0
    BY <1>1, <1>5
  <2> QED BY <1>1, <1>5, <2>1 DEF Counted
<1> QED BY <1>1, <1>2, <1>3, <1>4, <1>5

\* While the parent forks, nobody is reaped and procs counts whole groups;
\* afterwards nobody is unborn and procs is exact.
ParentCount ==
    /\ ppc = "fork" => /\ \A c \in Children : st[c] # "reaped"
                       /\ procs = Counted(Cardinality(Started))
    /\ ppc \in {"read", "nohang", "wait", "done"} => \A c \in Children : st[c] # "unborn"
    /\ ProcsCountsChildren

\* A child holds the slave open from fork() until its threads are joined, and
\* only one after post_fork() has threads.
ChildrenHold ==
    \A c \in Children :
        /\ st[c] \in {"forked", "create", "join"} <=> c \in slave
        /\ st[c] \notin {"create", "join"} => made[c] = 0 /\ ended[c] = 0
        /\ st[c] = "create" => made[c] < THREADS
        /\ ended[c] <= made[c]

\* The parent holds the slave while it forks; after read_master() no child holds
\* it, and unless all are reaped, nothing is left to read.
AllEnded ==
    /\ Parent \in slave <=> ppc = "fork"
    /\ ppc \in {"wait", "done"} =>
        /\ \A c \in Children : st[c] \in {"exiting", "zombie", "reaped"}
        /\ buf > 0 => \A c \in Children : st[c] = "reaped"

PtyInd == PtyTypeOK /\ ParentCount /\ ChildrenHold /\ AllEnded

\* The children that exist, or are not reaped, are finitely many.
LEMMA ChildSets ==
    /\ IsFiniteSet(Children) /\ Cardinality(Children) = 2 * PROCS
    /\ \A S \in SUBSET Children :
        IsFiniteSet(S) /\ Cardinality(S) \in Nat /\ Cardinality(S) <= 2 * PROCS
<1>1. IsFiniteSet(Children) /\ Cardinality(Children) = 2 * PROCS
  BY ProcsAssumption
<1>2. ASSUME NEW S \in SUBSET Children
      PROVE  IsFiniteSet(S) /\ Cardinality(S) \in Nat /\ Cardinality(S) <= 2 * PROCS
  BY <1>1, FS_Subset, FS_CardinalityType
<1> QED BY <1>1, <1>2

\* A child reaped is one fewer that is not.
LEMMA ReapOne ==
    ASSUME PtyTypeOK, NEW c \in InState("zombie"), ReapChild(c)
    PROVE  /\ Cardinality(Unreaped) > 0
           /\ Cardinality(Unreaped') = Cardinality(Unreaped) - 1
           /\ st' \in [Children -> {"unborn", "forked", "create", "join", "exiting", "zombie", "reaped"}]
           /\ st'[c] = "reaped" /\ \A d \in Children \ {c} : st'[d] = st[d]
<1>1. c \in Children /\ st[c] = "zombie"
  BY DEF InState
<1>2. c \in Unreaped /\ Unreaped \in SUBSET Children
  BY <1>1 DEF Unreaped, Started, InState
<1>3. /\ st' \in [Children -> {"unborn", "forked", "create", "join", "exiting", "zombie", "reaped"}]
      /\ st'[c] = "reaped" /\ \A d \in Children \ {c} : st'[d] = st[d]
  BY <1>1 DEF ReapChild, PtyTypeOK
<1>4. Unreaped' = Unreaped \ {c}
  BY <1>1, <1>3 DEF Unreaped, Started, InState
<1>5. IsFiniteSet(Unreaped) /\ Cardinality(Unreaped) \in Nat
  BY <1>2, ChildSets
<1>6. Cardinality(Unreaped \ {c}) = Cardinality(Unreaped) - 1
  BY <1>2, <1>5, FS_RemoveElement
<1>7. Cardinality(Unreaped) # 0
  BY <1>2, <1>5, FS_EmptySet
<1> QED BY <1>3, <1>4, <1>5, <1>6, <1>7

\* Every step of the parent, the children and their threads keeps the invariant.
THEOREM PtyInductive == PtySpec => []PtyInd
<1>1. PtyInit => PtyInd
  <2> SUFFICES ASSUME PtyInit PROVE PtyInd
    OBVIOUS
  <2>1. Started = {} /\ Cardinality(Started) = 0 /\ Counted(0) = 0
    BY FS_EmptySet, ProcsAssumption DEF PtyInit, Started, InState, Counted
  <2>2. PtyTypeOK
    BY ChildSets, ProcsAssumption, SizesAssumption DEF PtyInit, PtyTypeOK
  <2>3. ParentCount
    BY <2>1 DEF PtyInit, ParentCount, ProcsCountsChildren
  <2>4. ChildrenHold /\ AllEnded
    BY ProcsAssumption DEF PtyInit, ChildrenHold, AllEnded
  <2> QED BY <2>2, <2>3, <2>4 DEF PtyInd
<1>2. PtyInd /\ [PtyNext]_ptyVars => PtyInd'
  <2> SUFFICES ASSUME PtyInd, [PtyNext]_ptyVars PROVE PtyInd'
    OBVIOUS
  <2> USE ProcsAssumption, SizesAssumption DEF PtyInd, childVars
  <2>1. ASSUME NEW c \in Children, Fork(c) PROVE PtyInd'
    <3>1. Started' = Started \cup {c} /\ c \notin Started
      BY <2>1 DEF Fork, Started, InState, PtyTypeOK
    <3>2. /\ Cardinality(Started) \in Nat
          /\ Cardinality(Started') = Cardinality(Started) + 1
          /\ Cardinality(Started) + 1 <= 2 * PROCS
      <4>1. IsFiniteSet(Started) /\ Cardinality(Started) \in Nat
        BY ChildSets DEF Started
      <4>2. Cardinality(Started \cup {c}) = Cardinality(Started) + 1
        BY <3>1, <4>1, FS_AddElement
      <4>3. Started \cup {c} \in SUBSET Children
        BY DEF Started
      <4> QED BY <3>1, <4>1, <4>2, <4>3, ChildSets
    <3>3. procs' = Counted(Cardinality(Started'))
      BY <2>1, <3>2, CountedNext DEF Fork, ParentCount
    <3>4. PtyTypeOK'
      <4>1. procs' \in 0..Cardinality(Children)
        BY <3>3, ChildSets DEF Counted
      <4> QED BY <2>1, <4>1 DEF Fork, PtyTypeOK
    <3>5. ParentCount'
      BY <2>1, <3>3 DEF Fork, ParentCount, ProcsCountsChildren, PtyTypeOK
    <3>6. ChildrenHold' /\ AllEnded'
      BY <2>1 DEF Fork, ChildrenHold, AllEnded, PtyTypeOK
    <3> QED BY <3>4, <3>5, <3>6
  <2>2. CASE ForkFails
    BY <2>2 DEF ForkFails, PtyTypeOK, ParentCount, ProcsCountsChildren, ChildrenHold, AllEnded
  <2>3. CASE CloseSlave
    <3>1. \A c \in Children : st[c] # "unborn" /\ st[c] # "reaped"
      BY <2>3 DEF CloseSlave, InState, ParentCount
    <3>2. Started = Children /\ Unreaped = Children /\ Unreaped' = Unreaped
      BY <2>3, <3>1 DEF CloseSlave, Started, Unreaped, InState
    <3>3. procs' = Cardinality(Unreaped')
      BY <2>3, <3>2, ChildSets DEF CloseSlave, ParentCount, Counted
    <3>4. PtyTypeOK' /\ ChildrenHold' /\ AllEnded'
      BY <2>3 DEF CloseSlave, PtyTypeOK, ChildrenHold, AllEnded
    <3>5. ParentCount'
      BY <2>3, <3>1, <3>3 DEF CloseSlave, ParentCount, ProcsCountsChildren
    <3> QED BY <3>4, <3>5
  <2>4. CASE ReadMaster
    <3>1. /\ ppc = "read" /\ UNCHANGED <<procs, childVars, master, slave>>
          /\ \/ ppc' = "nohang" /\ buf' \in 0..BufMax
             \/ ppc' = "wait" /\ slave = {} /\ buf = 0 /\ UNCHANGED buf
      BY <2>4 DEF ReadMaster, PtyTypeOK
    <3>2. PtyTypeOK'
      BY <3>1 DEF PtyTypeOK
    <3>3. Unreaped' = Unreaped
      BY <3>1 DEF Unreaped, Started, InState
    <3>4. ParentCount' /\ ChildrenHold'
      BY <3>1, <3>3 DEF ParentCount, ProcsCountsChildren, ChildrenHold
    <3>5. AllEnded'
      BY <3>1 DEF AllEnded, ChildrenHold, ParentCount, PtyTypeOK
    <3> QED BY <3>2, <3>4, <3>5
  <2>5. CASE ReadDone
    <3>1. Unreaped' = Unreaped
      BY <2>5 DEF ReadDone, Unreaped, Started, InState
    <3>2. Unreaped = {}
      BY <2>5, ChildSets, FS_EmptySet DEF ReadDone, ParentCount, ProcsCountsChildren, Unreaped, Started
    <3>3. AllEnded'
      BY <2>5, <3>2 DEF ReadDone, AllEnded, ParentCount, PtyTypeOK, Unreaped, Started, InState
    <3>4. PtyTypeOK' /\ ParentCount' /\ ChildrenHold'
      BY <2>5, <3>1 DEF ReadDone, PtyTypeOK, ParentCount, ProcsCountsChildren, ChildrenHold
    <3> QED BY <3>3, <3>4
  <2>6. ASSUME NEW c \in InState("zombie"), ReapChild(c), procs' = procs - 1,
               ppc \in {"nohang", "wait"}, ppc' \in {"read", ppc}, ppc' # "nohang",
               UNCHANGED <<made, ended, master, slave, buf>>
        PROVE  PtyInd'
    <3>1. /\ Cardinality(Unreaped) > 0
          /\ Cardinality(Unreaped') = Cardinality(Unreaped) - 1
          /\ st' \in [Children -> {"unborn", "forked", "create", "join", "exiting", "zombie", "reaped"}]
          /\ st'[c] = "reaped" /\ \A d \in Children \ {c} : st'[d] = st[d]
      BY <2>6, ReapOne
    <3>2. procs = Cardinality(Unreaped)
      BY <2>6 DEF ParentCount, ProcsCountsChildren
    <3>3. PtyTypeOK'
      BY <2>6, <3>1, <3>2, ChildSets DEF PtyTypeOK
    <3>4. ParentCount'
      BY <2>6, <3>1, <3>2 DEF ParentCount, ProcsCountsChildren
    <3>5. ChildrenHold' /\ AllEnded'
      BY <2>6, <3>1 DEF ChildrenHold, AllEnded, InState
    <3> QED BY <3>3, <3>4, <3>5
  <2>7. CASE ReapNoHang
    <3>1. CASE InState("zombie") = {} /\ UNCHANGED <<st, procs>>
      <4>1. Unreaped' = Unreaped
        BY <3>1 DEF Unreaped, Started, InState
      <4> QED
        BY <2>7, <3>1, <4>1
        DEF ReapNoHang, PtyTypeOK, ParentCount, ProcsCountsChildren, ChildrenHold, AllEnded
    <3>2. CASE \E c \in InState("zombie") : ReapChild(c) /\ procs' = procs - 1
      BY <2>6, <2>7, <3>2 DEF ReapNoHang
    <3> QED BY <2>7, <3>1, <3>2 DEF ReapNoHang
  <2>8. CASE Wait
    <3>1. CASE procs > 0
      <4>1. Unreaped # {}
        <5>1. procs = Cardinality(Unreaped)
          BY <2>8 DEF Wait, ParentCount, ProcsCountsChildren
        <5>2. Cardinality({}) = 0
          BY FS_EmptySet, Zenon
        <5> QED BY <3>1, <5>1, <5>2
      <4>2. PICK c \in InState("zombie") : ReapChild(c)
        BY <2>8, <3>1, <4>1 DEF Wait
      <4> QED BY <2>6, <2>8, <3>1, <4>2 DEF Wait
    <3>2. CASE ~(procs > 0)
      <4>1. ppc = "wait" /\ ppc' = "done" /\ UNCHANGED <<st, procs, made, ended, slave, buf>>
            /\ master' = master \ {Parent}
        BY <2>8, <3>2 DEF Wait
      <4>2. Unreaped' = Unreaped /\ Unreaped \in SUBSET Children
        BY <4>1 DEF Unreaped, Started, InState
      <4>3. Unreaped = {}
        BY <4>1, <4>2, <3>2, ChildSets, FS_EmptySet DEF ParentCount, ProcsCountsChildren
      <4>4. PtyTypeOK' /\ ChildrenHold' /\ AllEnded'
        BY <4>1 DEF PtyTypeOK, ChildrenHold, AllEnded
      <4>5. ParentCount'
        BY <4>1, <4>2, <4>3 DEF ParentCount, ProcsCountsChildren
      <4> QED BY <4>4, <4>5
    <3> QED BY <3>1, <3>2
  <2>9. ASSUME NEW c \in Children, UNCHANGED <<ppc, procs>>, st[c] \notin {"unborn", "reaped"},
               st' \in [Children -> {"unborn", "forked", "create", "join", "exiting", "zombie", "reaped"}],
               st'[c] \notin {"unborn", "reaped"}, \A d \in Children \ {c} : st'[d] = st[d]
        PROVE  ParentCount'
    <3>1. Started' = Started /\ Unreaped' = Unreaped
      BY <2>9 DEF Unreaped, Started, InState
    <3> QED BY <2>9, <3>1 DEF ParentCount, ProcsCountsChildren
  <2>10. ASSUME NEW c \in Children, Exit(c), UNCHANGED <<ppc, procs, buf>>,
                st[c] \notin {"unborn", "reaped"}
         PROVE  PtyInd'
    <3>1. /\ st' \in [Children -> {"unborn", "forked", "create", "join", "exiting", "zombie", "reaped"}]
          /\ st'[c] = "zombie" /\ \A d \in Children \ {c} : st'[d] = st[d]
      BY <2>10 DEF Exit, PtyTypeOK
    <3>2. ParentCount'
      BY <2>9, <2>10, <3>1
    <3>3. PtyTypeOK'
      BY <2>10, <3>1 DEF Exit, PtyTypeOK
    <3>4. ChildrenHold' /\ AllEnded'
      BY <2>10, <3>1 DEF Exit, PtyTypeOK, ChildrenHold, AllEnded
    <3> QED BY <3>2, <3>3, <3>4
  <2>11. ASSUME NEW c \in Children, PostFork(c) PROVE PtyInd'
    <3>1. /\ st[c] = "forked" /\ st'[c] = "create" /\ \A d \in Children \ {c} : st'[d] = st[d]
          /\ st' \in [Children -> {"unborn", "forked", "create", "join", "exiting", "zombie", "reaped"}]
          /\ UNCHANGED <<ppc, procs, made, ended, slave, buf>> /\ master' = master \ {c}
      BY <2>11 DEF PostFork, PtyTypeOK
    <3>2. ParentCount'
      BY <2>9, <3>1
    <3>3. PtyTypeOK'
      BY <3>1 DEF PtyTypeOK
    <3>4. ChildrenHold' /\ AllEnded'
      BY <3>1 DEF ChildrenHold, AllEnded
    <3> QED BY <3>2, <3>3, <3>4
  <2>12. ASSUME NEW c \in Children, CreateThread(c) PROVE PtyInd'
    <3>1. CASE Exit(c)
      BY <2>10, <2>12, <3>1 DEF CreateThread, PtyTypeOK
    <3>2. CASE ~Exit(c)
      <4>1. /\ st[c] = "create" /\ UNCHANGED <<ppc, procs, ended, master, slave, buf>>
            /\ made' = [made EXCEPT ![c] = @ + 1]
            /\ st' = [st EXCEPT ![c] = IF made[c] + 1 = THREADS THEN "join" ELSE @]
        BY <2>12, <3>2 DEF CreateThread
      <4>2. /\ st' \in [Children -> {"unborn", "forked", "create", "join", "exiting", "zombie", "reaped"}]
            /\ st'[c] = IF made[c] + 1 = THREADS THEN "join" ELSE "create"
            /\ \A d \in Children \ {c} : st'[d] = st[d]
        BY <4>1 DEF PtyTypeOK
      <4>3. made[c] < THREADS /\ made' \in [Children -> 0..THREADS] /\ made'[c] = made[c] + 1
            /\ \A d \in Children \ {c} : made'[d] = made[d]
        BY <4>1 DEF PtyTypeOK, ChildrenHold
      <4>4. ParentCount'
        BY <2>9, <4>1, <4>2
      <4>5. PtyTypeOK'
        BY <4>1, <4>2, <4>3 DEF PtyTypeOK
      <4>6. ChildrenHold' /\ AllEnded'
        BY <4>1, <4>2, <4>3 DEF PtyTypeOK, ChildrenHold, AllEnded
      <4> QED BY <4>4, <4>5, <4>6
    <3> QED BY <3>1, <3>2
  <2>13. ASSUME NEW c \in Children, Joined(c) PROVE PtyInd'
    <3>1. /\ st[c] = "join" /\ st'[c] = "exiting" /\ \A d \in Children \ {c} : st'[d] = st[d]
          /\ st' \in [Children -> {"unborn", "forked", "create", "join", "exiting", "zombie", "reaped"}]
          /\ UNCHANGED <<ppc, procs, master, buf>> /\ slave' = slave \ {c}
          /\ made' = [made EXCEPT ![c] = 0] /\ ended' = [ended EXCEPT ![c] = 0]
      BY <2>13 DEF Joined, PtyTypeOK
    <3>2. ParentCount'
      BY <2>9, <3>1
    <3>3. PtyTypeOK'
      BY <3>1 DEF PtyTypeOK
    <3>4. ChildrenHold' /\ AllEnded'
      BY <3>1 DEF PtyTypeOK, ChildrenHold, AllEnded
    <3> QED BY <3>2, <3>3, <3>4
  <2>a. ASSUME NEW c \in Children, ChildExits(c) PROVE PtyInd'
    BY <2>10, <2>a DEF ChildExits, PtyTypeOK
  <2>14. ASSUME NEW c \in Children, RunningThreads(c) > 0 PROVE st[c] \in {"create", "join"}
    BY <2>14 DEF RunningThreads, ChildrenHold, PtyTypeOK
  <2>15. ASSUME NEW c \in Children, Callback(c) PROVE PtyInd'
    <3>1. st[c] \in {"create", "join"}
      BY <2>14, <2>15 DEF Callback
    <3>2. CASE Exit(c) /\ UNCHANGED buf
      BY <2>10, <2>15, <3>1, <3>2 DEF Callback, PtyTypeOK
    <3>3. CASE ~(Exit(c) /\ UNCHANGED buf)
      <4>1. UNCHANGED <<ppc, procs, childVars, master, slave>> /\ buf' \in 0..BufMax
        BY <2>15, <3>3 DEF Callback, PtyTypeOK
      <4>2. Started' = Started /\ Unreaped' = Unreaped
        BY <4>1 DEF Unreaped, Started, InState
      <4>3. AllEnded'
        BY <3>1, <4>1 DEF AllEnded
      <4> QED
        BY <4>1, <4>2, <4>3 DEF PtyTypeOK, ParentCount, ProcsCountsChildren, ChildrenHold
    <3> QED BY <3>2, <3>3
  <2>16. ASSUME NEW c \in Children, ThreadEnds(c) PROVE PtyInd'
    <3>1. UNCHANGED <<ppc, procs, st, made, master, slave, buf>> /\ ended[c] < made[c]
      BY <2>16 DEF ThreadEnds, RunningThreads, PtyTypeOK
    <3>2. ended' \in [Children -> 0..THREADS] /\ ended'[c] = ended[c] + 1
          /\ \A d \in Children \ {c} : ended'[d] = ended[d]
      BY <2>16, <3>1 DEF ThreadEnds, PtyTypeOK
    <3>3. Started' = Started /\ Unreaped' = Unreaped
      BY <3>1 DEF Unreaped, Started, InState
    <3>4. PtyTypeOK' /\ ParentCount' /\ AllEnded'
      BY <3>1, <3>2, <3>3 DEF PtyTypeOK, ParentCount, ProcsCountsChildren, AllEnded
    <3>5. ChildrenHold'
      BY <3>1, <3>2 DEF PtyTypeOK, ChildrenHold
    <3> QED BY <3>4, <3>5
  <2>17. CASE UNCHANGED ptyVars
    <3>1. Started' = Started /\ Unreaped' = Unreaped
      BY <2>17 DEF ptyVars, Unreaped, Started, InState
    <3> QED
      BY <2>17, <3>1
      DEF ptyVars, PtyTypeOK, ParentCount, ProcsCountsChildren, ChildrenHold, AllEnded
  <2> QED
    BY <2>1, <2>2, <2>3, <2>4, <2>5, <2>7, <2>8, <2>11, <2>12, <2>13, <2>a, <2>15, <2>16, <2>17
    DEF PtyNext, ParentStep, ChildStep, MainThread, PtyFinished
<1> QED BY <1>1, <1>2, PTL DEF PtySpec

\* procs is exact for any number of children and threads.
THEOREM ProcsCountsChildrenSafe == PtySpec => []ProcsCountsChildren
<1>1. PtyInd => ProcsCountsChildren
  BY DEF PtyInd, ParentCount
<1> QED BY <1>1, PtyInductive, PTL

\* Once read_master() has returned nobody can write to the pty any more, and
\* bytes are left in it only if no child is.
THEOREM LastWriterGoneSafe == PtySpec => []LastWriterGone
<1>1. PtyInd => LastWriterGone
  <2> SUFFICES ASSUME PtyInd, ppc \in {"wait", "done"} PROVE LastWriterGone
    BY DEF LastWriterGone
  <2>1. slave = {}
    BY DEF PtyInd, PtyTypeOK, AllEnded, ChildrenHold
  <2>2. \A c \in Children : RunningThreads(c) = 0
    BY DEF PtyInd, AllEnded, ChildrenHold, RunningThreads
  <2>3. buf > 0 => Unreaped = {}
    BY DEF PtyInd, AllEnded, Unreaped, Started, InState
  <2> QED BY <2>1, <2>2, <2>3 DEF LastWriterGone
<1> QED BY <1>1, PtyInductive, PTL

-----------------------------------------------------------------------------
(* LGAP/lgap.c *)

Frames == [fan : Byte, temp : Byte, checksum : Byte]
Good(r) == compute_checksum(r) = r.checksum

\* A byte holds an even number of values.
LEMMA BytesEven == Bytes \in Nat /\ Bytes > 0 /\ Bytes % 2 = 0
  BY SizeAssumption

\* The sum of two bytes in a byte wraps at most once.
LEMMA SumWraps ==
    ASSUME NEW x \in Byte, NEW y \in Byte
    PROVE  /\ (x + y) % Bytes = IF x + y < Bytes THEN x + y ELSE x + y - Bytes
           /\ (x + y) % Bytes \in Byte
<1>1. Bytes \in Nat /\ Bytes > 0 /\ x \in Nat /\ y \in Nat /\ x < Bytes /\ y < Bytes
  BY BytesEven DEF Byte
<1>2. CASE x + y < Bytes
  <2>1. (x + y) % Bytes = x + y
    BY <1>1, <1>2
  <2> QED BY <1>1, <1>2, <2>1 DEF Byte
<1>3. CASE ~(x + y < Bytes)
  <2>1. x + y - Bytes \in 0..(Bytes - 1) /\ x + y = (x + y - Bytes) + Bytes
    BY <1>1, <1>3
  <2>2. ((x + y - Bytes) + Bytes) % Bytes = x + y - Bytes
    BY <1>1, <2>1
  <2> QED BY <1>1, <1>3, <2>1, <2>2 DEF Byte
<1> QED BY <1>2, <1>3

Flip(sum) == IF sum % 2 = 0 THEN sum + 1 ELSE sum - 1

\* Flipping a bit stays in the byte and loses nothing.
LEMMA FlipInjective ==
    ASSUME NEW x \in Byte, NEW y \in Byte
    PROVE  Flip(x) \in Byte /\ (Flip(x) = Flip(y) => x = y)
  BY BytesEven DEF Byte, Flip

\* A checksum is a byte, and tells apart frames that differ in one setting.
LEMMA ChecksumTells ==
    ASSUME NEW p, NEW q, p.fan \in Byte, p.temp \in Byte, q.fan \in Byte, q.temp \in Byte
    PROVE  /\ compute_checksum(p) \in Byte
           /\ p.temp = q.temp /\ compute_checksum(p) = compute_checksum(q) => p.fan = q.fan
           /\ p.fan = q.fan /\ compute_checksum(p) = compute_checksum(q) => p.temp = q.temp
<1> DEFINE sp == (p.fan + p.temp) % Bytes
           sq == (q.fan + q.temp) % Bytes
<1>1. /\ sp = IF p.fan + p.temp < Bytes THEN p.fan + p.temp ELSE p.fan + p.temp - Bytes
      /\ sq = IF q.fan + q.temp < Bytes THEN q.fan + q.temp ELSE q.fan + q.temp - Bytes
      /\ sp \in Byte /\ sq \in Byte
  BY SumWraps
<1>2. compute_checksum(p) = Flip(sp) /\ compute_checksum(q) = Flip(sq)
  BY DEF compute_checksum, Flip
<1> HIDE DEF sp, sq
<1>3. Flip(sp) \in Byte /\ (Flip(sp) = Flip(sq) => sp = sq)
  BY <1>1, FlipInjective
<1>4. p.temp = q.temp /\ sp = sq => p.fan = q.fan
  BY <1>1, BytesEven DEF Byte
<1>5. p.fan = q.fan /\ sp = sq => p.temp = q.temp
  BY <1>1, BytesEven DEF Byte
<1> QED BY <1>2, <1>3, <1>4, <1>5

\* The checksum depends on the settings only.
LEMMA ChecksumOf ==
    ASSUME NEW p, NEW q, p.fan = q.fan, p.temp = q.temp
    PROVE  compute_checksum(p) = compute_checksum(q)
  BY DEF compute_checksum

\* A zeroed buffer has a wrong checksum.
LEMMA ZeroIsBad == ~Good([fan |-> 0, temp |-> 0, checksum |-> 0])
<1> DEFINE z == [fan |-> 0, temp |-> 0, checksum |-> 0]
<1>1. z.fan = 0 /\ z.temp = 0 /\ z.checksum = 0
  OBVIOUS
<1>2. (0 + 0) % Bytes = 0
  BY BytesEven
<1> HIDE DEF z
<1>3. compute_checksum(z) = 1
  BY <1>1, <1>2 DEF compute_checksum
<1>4. ~Good(z)
  BY <1>1, <1>3 DEF Good
<1> QED BY <1>4 DEF z

\* The unit's answer is a frame with a good checksum.
LEMMA AnswerIsGood ==
    ASSUME unit \in Settings
    PROVE  /\ Answer \in Frames /\ Good(Answer)
           /\ Answer.fan = unit.fan /\ Answer.temp = unit.temp
<1>1. unit.fan \in Byte /\ unit.temp \in Byte
  BY DEF Settings
<1>2. compute_checksum(unit) \in Byte
  BY <1>1, ChecksumTells
<1>3. /\ Answer.fan = unit.fan /\ Answer.temp = unit.temp
      /\ Answer.checksum = compute_checksum(unit)
  BY DEF Answer
<1>4. compute_checksum(Answer) = compute_checksum(unit)
  BY <1>3, ChecksumOf
<1> QED BY <1>1, <1>2, <1>3, <1>4 DEF Answer, Frames, Good

\* One garbled byte is always noticed.
LEMMA GarbledIsBad ==
    ASSUME unit \in Settings, NEW r \in Garbled
    PROVE  r \in Frames /\ ~Good(r)
<1>1. PICK f \in DOMAIN Answer, b \in Byte : r = [Answer EXCEPT ![f] = b] /\ r # Answer
  BY DEF Garbled
<1>2. /\ Answer \in Frames /\ Answer.checksum = compute_checksum(unit)
      /\ Answer.fan = unit.fan /\ Answer.temp = unit.temp
      /\ unit.fan \in Byte /\ unit.temp \in Byte
  BY AnswerIsGood DEF Answer, Settings
<1>3. f \in {"fan", "temp", "checksum"}
  BY <1>1 DEF Answer
<1>4. CASE f = "fan"
  <2>1. /\ r \in Frames /\ r.fan # unit.fan /\ r.temp = unit.temp
        /\ r.checksum = compute_checksum(unit)
    BY <1>1, <1>2, <1>4 DEF Frames
  <2>2. r.fan \in Byte /\ r.temp \in Byte
    BY <2>1 DEF Frames
  <2>3. compute_checksum(r) # compute_checksum(unit)
    BY <1>2, <2>1, <2>2, ChecksumTells
  <2> QED BY <2>1, <2>3 DEF Good
<1>5. CASE f = "temp"
  <2>1. /\ r \in Frames /\ r.fan = unit.fan /\ r.temp # unit.temp
        /\ r.checksum = compute_checksum(unit)
    BY <1>1, <1>2, <1>5 DEF Frames
  <2>2. r.fan \in Byte /\ r.temp \in Byte
    BY <2>1 DEF Frames
  <2>3. compute_checksum(r) # compute_checksum(unit)
    BY <1>2, <2>1, <2>2, ChecksumTells
  <2> QED BY <2>1, <2>3 DEF Good
<1>6. CASE f = "checksum"
  <2>1. /\ r \in Frames /\ r.fan = unit.fan /\ r.temp = unit.temp
        /\ r.checksum # compute_checksum(unit)
    BY <1>1, <1>2, <1>6 DEF Frames
  <2>2. compute_checksum(r) = compute_checksum(unit)
    BY <2>1, ChecksumOf
  <2> QED BY <2>1, <2>2 DEF Good
<1> QED BY <1>3, <1>4, <1>5, <1>6

Queries == [fan : Byte, temp : Byte, exe : 0..1, checksum : Byte]

\* A query that is put together carries its own checksum.
LEMMA QueryType ==
    ASSUME NEW fan \in Byte, NEW temp \in Byte, NEW exe \in 0..1
    PROVE  /\ Query(fan, temp, exe) \in Queries
           /\ Query(fan, temp, exe).fan = fan /\ Query(fan, temp, exe).temp = temp
           /\ Query(fan, temp, exe).exe = exe
           /\ Query(fan, temp, exe).checksum = QuerySum(fan, temp, exe)
<1>1. (temp + exe) % Bytes \in Byte
  <2>1. exe \in Byte
    BY BytesEven DEF Byte
  <2> QED BY <2>1, SumWraps
<1> DEFINE p == [fan |-> fan, temp |-> (temp + exe) % Bytes]
<1>2. p.fan \in Byte /\ p.temp \in Byte
  BY <1>1
<1> HIDE DEF p
<1>3. compute_checksum(p) \in Byte
  BY <1>2, ChecksumTells
<1>4. QuerySum(fan, temp, exe) \in Byte
  BY <1>3 DEF p, QuerySum
<1> QED BY <1>4 DEF Query, Queries

-----------------------------------------------------------------------------
\* What is in the receive buffer with a good checksum was heard, and what is sent
\* with EXE was merged from it, unless an answer was cut short.
BufferIsHeard ==
    /\ ~cut /\ Good(resp) => [fan |-> resp.fan, temp |-> resp.temp] \in heard
    /\ CommandsAreReported

\* A wanted change is pending, on its way, or sent; it is merged only once.
ChangeIsTracked ==
    /\ lpc = "options" => query.exe = 0 /\ exeSent = 0 /\ (opt_fan >= 0 => set)
    /\ query.exe = 1 \/ exeSent > 0 => ~set
    /\ opt_fan >= 0 /\ ~set =>
        \/ exeSent > 0
        \/ query.exe = 1 /\ (lpc = "write" \/ (lpc = "done" /\ a = Turns))

\* EXE is sent at most once per turn.
TurnsBound ==
    /\ lpc # "done" => a < Turns
    /\ lpc \in {"options", "write"} => exeSent <= a
    /\ lpc = "read" => exeSent <= a + 1

LgapInd ==
    LgapTypeOK /\ FramesAreConsistent /\ BufferIsHeard /\ ChangeIsTracked /\ TurnsBound

\* What a turn with r in the buffer does to the query: it is as before, or asks
\* for the change and ends the wish, or no longer asks.
LEMMA MergeStep ==
    ASSUME LgapTypeOK, FramesAreConsistent, NEW r \in Frames, Merge(r)
    PROVE  /\ resp' = r /\ query' \in Queries /\ FramesAreConsistent' /\ set' \in BOOLEAN
           /\ Good(r) => ~set'
           /\ ~Good(r) => query' = query /\ set' = set
           /\ Good(r) /\ set => /\ query'.exe = 1 /\ query'.temp = r.temp
                                /\ query'.fan \in {r.fan, opt_fan}
           /\ Good(r) /\ ~set => query'.exe = 0
<1> DEFINE fan == IF opt_fan >= 0 THEN opt_fan ELSE r.fan
<1>1. /\ resp' = r
      /\ query' = CASE Good(r) /\ set -> Query(fan, r.temp, 1)
                    [] Good(r) /\ ~set /\ query.exe = 1 -> Query(query.fan, query.temp, 0)
                    [] OTHER -> query
      /\ set' = (set /\ ~Good(r))
  BY DEF Merge, Good
<1>2. set' \in BOOLEAN /\ (Good(r) => ~set') /\ (~Good(r) => set' = set)
  <2>1. set \in BOOLEAN
    BY DEF LgapTypeOK
  <2> QED BY <1>1, <2>1, Zenon
<1>3. /\ fan \in Byte /\ fan \in {r.fan, opt_fan} /\ r.temp \in Byte
      /\ query.fan \in Byte /\ query.temp \in Byte /\ query.exe \in 0..1 /\ query \in Queries
  BY BytesEven DEF LgapTypeOK, Frames, Fans, Byte, Queries
<1> HIDE DEF fan
<1>4. CASE Good(r) /\ set
  <2>1. query' = Query(fan, r.temp, 1)
    BY <1>1, <1>4
  <2>2. /\ query' \in Queries /\ query'.fan = fan /\ query'.temp = r.temp /\ query'.exe = 1
        /\ query'.checksum = QuerySum(fan, r.temp, 1)
    BY <1>3, <2>1, QueryType
  <2> QED BY <1>1, <1>2, <1>3, <1>4, <2>2 DEF FramesAreConsistent
<1>5. CASE Good(r) /\ ~set /\ query.exe = 1
  <2>1. query' = Query(query.fan, query.temp, 0)
    BY <1>1, <1>5
  <2>2. /\ query' \in Queries /\ query'.fan = query.fan /\ query'.temp = query.temp
        /\ query'.exe = 0 /\ query'.checksum = QuerySum(query.fan, query.temp, 0)
    BY <1>3, <2>1, QueryType
  <2> QED BY <1>1, <1>2, <1>5, <2>2 DEF FramesAreConsistent
<1>6. CASE ~(Good(r) /\ set) /\ ~(Good(r) /\ ~set /\ query.exe = 1)
  <2>1. query' = query
    BY <1>1, <1>6
  <2>2. FramesAreConsistent' /\ query' \in Queries
    BY <1>3, <2>1 DEF FramesAreConsistent
  <2>3. Good(r) /\ ~set => query'.exe = 0
    BY <1>3, <1>6, <2>1
  <2> QED BY <1>1, <1>2, <1>6, <2>1, <2>2, <2>3
<1> QED BY <1>4, <1>5, <1>6

\* A turn that goes on to the next one keeps the invariant, provided that a good
\* buffer was heard in this turn or is the old one, or an answer was cut.
LEMMA TurnStep ==
    ASSUME LgapInd, lpc = "read", NEW r \in Frames, Merge(r), NextTurn,
           UNCHANGED <<opt_fan, unit, exeSent>>,
           heard' \in SUBSET Settings, cut' \in BOOLEAN, cut => cut',
           ~cut' /\ Good(r) => [fan |-> r.fan, temp |-> r.temp] \in heard',
           ~cut' /\ ~Good(r) => heard' = heard
    PROVE  LgapInd'
<1>1. /\ resp' = r /\ query' \in Queries /\ FramesAreConsistent' /\ set' \in BOOLEAN
      /\ Good(r) => ~set'
      /\ ~Good(r) => query' = query /\ set' = set
      /\ Good(r) /\ set => /\ query'.exe = 1 /\ query'.temp = r.temp
                           /\ query'.fan \in {r.fan, opt_fan}
      /\ Good(r) /\ ~set => query'.exe = 0
  BY MergeStep DEF LgapInd
<1>2. a' = a + 1 /\ lpc' = (IF a + 1 = Turns THEN "done" ELSE "write") /\ a < Turns
  BY DEF NextTurn, LgapInd, TurnsBound
<1>3. LgapTypeOK'
  BY <1>1, <1>2, SizeAssumption DEF LgapInd, LgapTypeOK, Queries, Frames
<1>4. BufferIsHeard'
  <2>1. (~cut /\ Good(resp) => [fan |-> resp.fan, temp |-> resp.temp] \in heard)'
    BY <1>1 DEF Good
  <2>2. CommandsAreReported'
    <3> SUFFICES ASSUME query'.exe = 1, ~cut'
                 PROVE  \E s \in heard' : query'.temp = s.temp /\ query'.fan \in {s.fan, opt_fan'}
      BY DEF CommandsAreReported
    <3>1. CASE Good(r)
      <4>1. set
        BY <1>1, <3>1
      <4>2. query'.temp = r.temp /\ query'.fan \in {r.fan, opt_fan}
        BY <1>1, <3>1, <4>1
      <4> DEFINE s == [fan |-> r.fan, temp |-> r.temp]
      <4>3. s \in heard' /\ s.fan = r.fan /\ s.temp = r.temp
        BY <3>1
      <4> QED BY <4>2, <4>3
    <3>2. CASE ~Good(r)
      <4>1. query' = query /\ heard' = heard /\ opt_fan' = opt_fan /\ ~cut
        BY <1>1, <3>2
      <4> QED BY <4>1 DEF LgapInd, BufferIsHeard, CommandsAreReported
    <3> QED BY <3>1, <3>2
  <2> QED BY <2>1, <2>2 DEF BufferIsHeard
<1>5. ChangeIsTracked'
  <2>1. lpc' \in {"write", "done"} /\ (lpc' = "done" => a' = Turns)
    BY <1>2
  <2>2. exeSent' = exeSent /\ opt_fan' = opt_fan /\ query.exe \in 0..1
    BY DEF LgapInd, LgapTypeOK
  <2>3. CASE Good(r)
    <3>1. ~set'
      BY <1>1, <2>3
    <3>2. CASE set
      BY <1>1, <2>1, <2>3, <3>1, <3>2 DEF ChangeIsTracked
    <3>3. CASE ~set
      BY <1>1, <2>1, <2>2, <2>3, <3>1, <3>3 DEF LgapInd, ChangeIsTracked
    <3> QED BY <3>2, <3>3
  <2>4. CASE ~Good(r)
    BY <1>1, <2>1, <2>2, <2>4 DEF LgapInd, ChangeIsTracked
  <2> QED BY <2>3, <2>4
<1>6. TurnsBound'
  BY <1>2, SizeAssumption DEF LgapInd, LgapTypeOK, TurnsBound
<1> QED BY <1>1, <1>3, <1>4, <1>5, <1>6 DEF LgapInd

\* Every step of the program, the unit and the line keeps the invariant.
THEOREM LgapInductive == LgapSpec => []LgapInd
<1>1. LgapInit => LgapInd
  <2> SUFFICES ASSUME LgapInit PROVE LgapInd
    OBVIOUS
  <2>1. 0 \in Byte /\ Turns \in Nat /\ Turns > 0
    BY BytesEven, SizeAssumption DEF Byte
  <2>2. /\ query \in Queries /\ query.fan = 0 /\ query.temp = 0 /\ query.exe = 0
        /\ query.checksum = QuerySum(0, 0, 0)
    BY <2>1, QueryType DEF LgapInit
  <2>3. set \in BOOLEAN /\ cut \in BOOLEAN /\ heard \in SUBSET Settings
    BY Zenon DEF LgapInit
  <2>4. LgapTypeOK
    BY <2>1, <2>2, <2>3 DEF LgapInit, LgapTypeOK, Queries
  <2>5. FramesAreConsistent
    BY <2>2 DEF FramesAreConsistent
  <2>6. BufferIsHeard
    BY <2>2, ZeroIsBad DEF LgapInit, BufferIsHeard, CommandsAreReported
  <2>7. ChangeIsTracked /\ TurnsBound
    BY <2>1, <2>2 DEF LgapInit, ChangeIsTracked, TurnsBound
  <2> QED BY <2>4, <2>5, <2>6, <2>7 DEF LgapInd
<1>2. LgapInd /\ [LgapNext]_lgapVars => LgapInd'
  <2> SUFFICES ASSUME LgapInd, [LgapNext]_lgapVars PROVE LgapInd'
    OBVIOUS
  <2> USE SizeAssumption DEF LgapInd
  <2>1. ASSUME NEW v \in Byte, Option(v) PROVE LgapInd'
    <3>1. /\ lpc = "options" /\ UNCHANGED <<lpc, a, query, resp, unit, exeSent, heard, cut>>
          /\ opt_fan' = IF v \in Fans THEN v ELSE -1
          /\ set' = (set \/ v \in Fans)
      BY <2>1 DEF Option
    <3>2. set' \in BOOLEAN /\ (v \in Fans => set') /\ (set => set')
      BY <3>1, Zenon
    <3>3. LgapTypeOK' /\ FramesAreConsistent' /\ TurnsBound'
      BY <3>1, <3>2 DEF LgapTypeOK, FramesAreConsistent, TurnsBound
    <3>4. query.exe = 0 /\ exeSent = 0
      BY <3>1 DEF ChangeIsTracked
    <3>5. BufferIsHeard'
      BY <3>1, <3>4 DEF BufferIsHeard, CommandsAreReported, Good
    <3>6. ChangeIsTracked'
      <4>1. opt_fan' >= 0 => v \in Fans
        BY <3>1
      <4>2. opt_fan' >= 0 => set'
        BY <3>2, <4>1
      <4> QED BY <3>1, <3>4, <4>2 DEF ChangeIsTracked
    <3> QED BY <3>3, <3>5, <3>6
  <2>2. CASE OptionsDone
    BY <2>2 DEF OptionsDone, LgapTypeOK, FramesAreConsistent, BufferIsHeard, CommandsAreReported,
                Good, ChangeIsTracked, TurnsBound
  <2>3. CASE Write
    <3>1. /\ lpc = "write" /\ lpc' = "read" /\ exeSent' = exeSent + query.exe
          /\ UNCHANGED <<a, opt_fan, set, query, resp, heard, cut>>
      BY <2>3 DEF Write
    <3>2. unit' \in Settings
      BY <2>3 DEF Write, LgapTypeOK, Settings
    <3>3. query.exe \in 0..1 /\ exeSent <= a /\ a < Turns /\ exeSent \in Nat /\ a \in Nat
      BY <3>1 DEF LgapTypeOK, TurnsBound
    <3>4. LgapTypeOK' /\ TurnsBound'
      BY <3>1, <3>2, <3>3 DEF LgapTypeOK, TurnsBound
    <3>5. FramesAreConsistent' /\ BufferIsHeard'
      BY <3>1 DEF FramesAreConsistent, BufferIsHeard, CommandsAreReported, Good
    <3>6. ChangeIsTracked'
      BY <3>1, <3>3 DEF ChangeIsTracked
    <3> QED BY <3>4, <3>5, <3>6
  <2>4. CASE Read
    <3>1. /\ lpc = "read" /\ UNCHANGED <<opt_fan, unit, exeSent>> /\ unit \in Settings
          /\ heard \in SUBSET Settings /\ cut \in BOOLEAN /\ resp \in Frames
      BY <2>4 DEF Read, LgapTypeOK, Frames
    <3>2. CASE Merge(Answer) /\ heard' = {unit} /\ UNCHANGED cut /\ NextTurn
      <4>1. Answer \in Frames /\ Good(Answer)
        BY <3>1, AnswerIsGood
      <4>2. [fan |-> Answer.fan, temp |-> Answer.temp] = unit
        BY <3>1, AnswerIsGood DEF Settings
      <4>3. [fan |-> Answer.fan, temp |-> Answer.temp] \in heard' /\ heard' \in SUBSET Settings
        BY <3>1, <3>2, <4>2
      <4>4. cut' \in BOOLEAN /\ (cut => cut')
        BY <3>1, <3>2
      <4> QED BY <3>1, <3>2, <4>1, <4>3, <4>4, TurnStep
    <3>3. CASE (\E r \in Garbled : Merge(r)) /\ NextTurn /\ UNCHANGED <<heard, cut>>
      <4>1. PICK r \in Garbled : Merge(r)
        BY <3>3
      <4>2. r \in Frames /\ ~Good(r)
        BY <3>1, GarbledIsBad
      <4>3. cut' \in BOOLEAN /\ (cut => cut') /\ heard' = heard /\ heard' \in SUBSET Settings
        BY <3>1, <3>3
      <4> QED BY <3>1, <3>3, <4>1, <4>2, <4>3, TurnStep
    <3>4. CASE (\E r \in Front : Merge(r)) /\ cut' = TRUE /\ NextTurn /\ UNCHANGED heard
      <4>1. PICK r \in Front : Merge(r)
        BY <3>4
      <4>2. r \in Frames
        BY <3>1, AnswerIsGood DEF Front, Frames
      <4>3. cut' \in BOOLEAN /\ cut' /\ heard' \in SUBSET Settings
        BY <3>1, <3>4
      <4> QED BY <3>1, <3>4, <4>1, <4>2, <4>3, TurnStep
    <3>5. CASE Merge(resp) /\ NextTurn /\ UNCHANGED <<heard, cut>>
      <4>1. cut' \in BOOLEAN /\ (cut => cut') /\ heard' = heard /\ heard' \in SUBSET Settings
        BY <3>1, <3>5
      <4>2. ~cut' /\ Good(resp) => [fan |-> resp.fan, temp |-> resp.temp] \in heard'
        BY <3>5 DEF BufferIsHeard
      <4> QED BY <3>1, <3>5, <4>1, <4>2, TurnStep
    <3>6. CASE lpc' = "done" /\ UNCHANGED <<a, set, query, resp, heard, cut>>
      <4>1. LgapTypeOK' /\ FramesAreConsistent' /\ TurnsBound'
        BY <3>1, <3>6 DEF LgapTypeOK, FramesAreConsistent, TurnsBound
      <4>2. BufferIsHeard'
        BY <3>1, <3>6 DEF BufferIsHeard, CommandsAreReported, Good
      <4>3. ChangeIsTracked'
        BY <3>1, <3>6 DEF ChangeIsTracked
      <4> QED BY <4>1, <4>2, <4>3
    <3> QED BY <2>4, <3>2, <3>3, <3>4, <3>5, <3>6 DEF Read
  <2>5. CASE UnitChanges
    BY <2>5 DEF UnitChanges, LgapTypeOK, FramesAreConsistent, BufferIsHeard, CommandsAreReported,
                Good, ChangeIsTracked, TurnsBound
  <2>6. CASE UNCHANGED lgapVars
    BY <2>6 DEF lgapVars, LgapTypeOK, FramesAreConsistent, BufferIsHeard, CommandsAreReported,
                Good, ChangeIsTracked, TurnsBound
  <2> QED BY <2>1, <2>2, <2>3, <2>4, <2>5, <2>6 DEF LgapNext, LgapFinished
<1> QED BY <1>1, <1>2, PTL DEF LgapSpec

\* Every frame goes out with its own checksum, for bytes of any width.
THEOREM FramesAreConsistentSafe == LgapSpec => []FramesAreConsistent
<1>1. LgapInd => FramesAreConsistent
  BY DEF LgapInd
<1> QED BY <1>1, LgapInductive, PTL

\* A command carries settings the unit reported, unless an answer was cut short.
THEOREM CommandsAreReportedSafe == LgapSpec => []CommandsAreReported
<1>1. LgapInd => CommandsAreReported
  BY DEF LgapInd, BufferIsHeard
<1> QED BY <1>1, LgapInductive, PTL

\* A merged change is sent, unless it was merged in the last turn.
THEOREM MergedIsSentSafe == LgapSpec => []MergedIsSent
<1>1. LgapInd => MergedIsSent
  BY DEF LgapInd, ChangeIsTracked, MergedIsSent
<1> QED BY <1>1, LgapInductive, PTL

\* Once withdrawn, EXE does not come back.
THEOREM CommandNotRevivedSafe == LgapSpec => CommandNotRevived
<1>1. LgapInd /\ [LgapNext]_lgapVars => [exeSent > 0 /\ query.exe = 0 => query'.exe = 0]_lgapVars
  <2> SUFFICES ASSUME LgapInd, LgapNext, exeSent > 0, query.exe = 0 PROVE query'.exe = 0
    BY DEF LgapInd, LgapTypeOK
  <2>1. ~set
    BY DEF LgapInd, ChangeIsTracked
  <2>2. ASSUME NEW r, Merge(r) PROVE query'.exe = 0
    <3>1. query' = query
      BY <2>1, <2>2 DEF Merge
    <3> QED BY <3>1
  <2>3. CASE Read
    BY <2>2, <2>3 DEF Read
  <2>4. CASE ~Read
    BY <2>4 DEF LgapNext, Option, OptionsDone, Write, UnitChanges, LgapFinished, lgapVars
  <2> QED BY <2>3, <2>4
<1> QED BY <1>1, LgapInductive, PTL DEF LgapSpec, CommandNotRevived

-----------------------------------------------------------------------------
(* piskvor.c *)

\* A whole row is at least as long as one.
LEMMA RowsApart ==
    ASSUME NEW w \in Nat, NEW e \in Nat, e > 0
    PROVE  e * w >= w
  OBVIOUS

\* Two cells with columns on the board have the same place only if they are one.
LEMMA PlaceInjective ==
    ASSUME NEW w \in Nat, NEW r \in Int, NEW s \in Int,
           NEW c \in 0..(w - 1), NEW b \in 0..(w - 1), r * w + c = s * w + b
    PROVE  r = s /\ c = b
<1>1. ASSUME NEW u \in Int, NEW v \in Int, NEW x \in 0..(w - 1), NEW y \in 0..(w - 1), v > u
      PROVE  u * w + x # v * w + y
  <2> DEFINE e == v - u
  <2>1. e \in Nat /\ e > 0 /\ v = u + e
    BY <1>1
  <2> HIDE DEF e
  <2>2. e * w >= w /\ e * w \in Nat
    BY <2>1, RowsApart
  <2>3. v * w = u * w + e * w
    BY <2>1
  <2>4. u * w \in Int
    OBVIOUS
  <2> QED BY <2>2, <2>3, <2>4
<1>2. ~(s > r) /\ ~(r > s)
  BY <1>1
<1>3. r = s
  BY <1>2
<1> QED BY <1>3

\* The places of the board lie in area.
LEMMA PlaceInside ==
    ASSUME NEW w \in Nat, NEW h \in Nat, NEW r \in 0..(h - 1), NEW c \in 0..(w - 1)
    PROVE  r * w + c \in 0..(h * w - 1)
<1> DEFINE e == h - r
<1>1. e \in Nat /\ e > 0 /\ h = r + e
  OBVIOUS
<1> HIDE DEF e
<1>2. e * w >= w /\ e * w \in Nat
  BY <1>1, RowsApart
<1>3. h * w = r * w + e * w /\ r * w \in Nat
  BY <1>1
<1> QED BY <1>2, <1>3

\* The board's dimensions and cells.
LEMMA BoardType ==
    ASSUME PiskvorTypeOK
    PROVE  /\ board.coll \in 5..26 /\ board.row \in 5..22 /\ board.coll \in Nat /\ board.row \in Nat
           /\ \A x \in board.cells : /\ x = <<x[1], x[2]>> /\ x[1] \in 0..(board.row - 1)
                                     /\ x[2] \in 0..(board.coll - 1)
<1>1. board.coll \in 5..26 /\ board.row \in 5..22
      /\ board.cells \subseteq (0..(board.row - 1)) \X (0..(board.coll - 1))
  BY BoardsAssumption DEF PiskvorTypeOK
<1> QED BY <1>1

\* What a turn changes on the board: one free cell.
LEMMA TurnChanges ==
    ASSUME PiskvorTypeOK, NEW x \in board.cells, Turn(x[1], x[2])
    PROVE  /\ area' \in [Cells -> Players \cup {" "}]
           /\ At(area', x[1], x[2]) = zacinajici
           /\ \A r, c \in Int : Place(r, c) # Place(x[1], x[2]) => At(area', r, c) = At(area, r, c)
<1>1. Place(x[1], x[2]) \in Cells
  BY DEF Cells
<1>2. area \in [Cells -> Players \cup {" "}] /\ zacinajici \in Players
  BY DEF PiskvorTypeOK
<1>3. area' = [area EXCEPT ![Place(x[1], x[2])] = zacinajici]
  BY DEF Turn
<1> HIDE DEF Cells
<1>4. area' \in [Cells -> Players \cup {" "}] /\ area'[Place(x[1], x[2])] = zacinajici
      /\ \A i \in Cells : i # Place(x[1], x[2]) => area'[i] = area[i]
  BY <1>1, <1>2, <1>3, Zenon
<1>5. DOMAIN area = Cells /\ DOMAIN area' = Cells
  BY <1>2, <1>4
<1>6. At(area', x[1], x[2]) = zacinajici
  BY <1>1, <1>4, <1>5, Zenon DEF At
<1>7. ASSUME NEW r \in Int, NEW c \in Int, Place(r, c) # Place(x[1], x[2])
      PROVE  At(area', r, c) = At(area, r, c)
  BY <1>4, <1>5, <1>7, Zenon DEF At
<1> QED BY <1>4, <1>6, <1>7

\* A place is one cell of the board.
LEMMA OneCell ==
    ASSUME PiskvorTypeOK, NEW r \in Int, NEW s \in Int,
           NEW c \in 0..(board.coll - 1), NEW b \in 0..(board.coll - 1), Place(r, c) = Place(s, b)
    PROVE  r = s /\ c = b
<1>1. board.coll \in Nat
  BY BoardType, Zenon
<1>2. r * board.coll + c = s * board.coll + b
  BY DEF Place
<1> QED BY <1>1, <1>2, PlaceInjective

\* Rows and columns are integers.
LEMMA RowInt ==
    ASSUME NEW h \in Nat, NEW k \in 0..(h - 1)
    PROVE  k \in Int
  OBVIOUS

\* A stone on the board lies on one of the cells that get stones.
LEMMA StoneOnCell ==
    ASSUME PiskvorTypeOK, NEW ar \in [Cells -> Players \cup {" "}],
           NEW r \in 0..(board.row - 1), NEW c \in 0..(board.coll - 1), NEW p \in Players,
           At(ar, r, c) = p
    PROVE  <<r, c>> \in board.cells
<1>1. board.coll \in Nat /\ board.row \in Nat
  BY BoardType, Zenon
<1>2. r * board.coll + c \in 0..(board.row * board.coll - 1)
  BY <1>1, PlaceInside, Zenon
<1>3. p # " "
  BY DEF Players
<1>4. DOMAIN ar = Cells
  OBVIOUS
<1>5. Place(r, c) \in Cells
  BY <1>2, <1>3, <1>4, Zenon DEF At, Place
<1>6. PICK x \in board.cells : Place(r, c) = Place(x[1], x[2])
  BY <1>5 DEF Cells
<1>7. x = <<x[1], x[2]>> /\ x[1] \in 0..(board.row - 1) /\ x[2] \in 0..(board.coll - 1)
  BY BoardType, Zenon
<1>9. r \in Int /\ x[1] \in Int
  BY <1>1, <1>7, RowInt, Zenon
<1>10. r = x[1] /\ c = x[2]
  <2>1. \A s \in Int : \A b \in 0..(board.coll - 1) : Place(r, c) = Place(s, b) => r = s /\ c = b
    BY <1>9, OneCell
  <2> QED BY <1>6, <1>7, <1>9, <2>1, Zenon
<1>11. x = <<r, c>>
  BY <1>7, <1>10, Zenon
<1> QED BY <1>11, Zenon

\* Five(p) with the stones at ar.
FiveAt(ar, p) ==
    \E x \in board.cells, d \in Directions :
        /\ x[1] + 4 * d[1] \in 0..(board.row - 1) /\ x[2] + 4 * d[2] \in 0..(board.coll - 1)
        /\ \A n \in 0..4 : At(ar, x[1] + n * d[1], x[2] + n * d[2]) = p

\* Five is FiveAt of the stones there are, before a step and after it.
LEMMA FiveNow ==
    ASSUME NEW p \in Players
    PROVE  Five(p) <=> FiveAt(area, p)
  BY DEF Five, FiveAt

LEMMA FiveNext ==
    ASSUME board' = board, outside' = outside, NEW p \in Players
    PROVE  Five(p)' <=> FiveAt(area', p)
  BY DEF Five, FiveAt, At, Place

\* isWinner() sees every line of five on the board through the last stone.
LEMMA LineIsSeen ==
    ASSUME PiskvorTypeOK, NEW ar, NEW p,
           NEW y \in board.cells, NEW d \in Directions, NEW n \in 0..4,
           y[1] + 4 * d[1] \in 0..(board.row - 1), y[2] + 4 * d[2] \in 0..(board.coll - 1),
           \A k \in 0..4 : At(ar, y[1] + k * d[1], y[2] + k * d[2]) = p
    PROVE  isWinner(ar, p, y[1] + n * d[1], y[2] + n * d[2])
<1> DEFINE ra == y[1] + n * d[1]
           sl == y[2] + n * d[2]
<1>1. board.coll \in 5..26 /\ board.row \in 5..22 /\ y[1] \in 0..(board.row - 1) /\ y[2] \in 0..(board.coll - 1)
  BY BoardType, Zenon
<1>2. CASE d = <<0, 1>>
  <2>1. ra = y[1] /\ sl = y[2] + n /\ y[2] + 4 \in 0..(board.coll - 1)
    BY <1>1, <1>2
  <2>2. \A k \in 0..4 : At(ar, ra, y[2] + k) = p
    BY <1>1, <1>2, <2>1
  <2>3. PICK i \in Int : i = y[2] + 4
    BY <1>1
  <2>4. i \in (Most(sl - 4, 0) + 4)..Least(sl + 4, board.coll)
    BY <1>1, <2>1, <2>3 DEF Most, Least
  <2>5. ASSUME NEW k \in 0..3
        PROVE  At(ar, ra, i - k - 1) = At(ar, ra, i - k)
    <3>1. i - k - 1 = y[2] + (3 - k) /\ i - k = y[2] + (4 - k) /\ 3 - k \in 0..4 /\ 4 - k \in 0..4
      BY <1>1, <2>3
    <3> QED BY <2>2, <3>1, Zenon
  <2>6. Row5(ar, ra, sl)
    <3> HIDE DEF ra, sl
    <3> QED BY <2>4, <2>5, Zenon DEF Row5
  <2> QED BY <2>6, Zenon DEF isWinner
<1>3. CASE d = <<1, 0>>
  <2>1. ra = y[1] + n /\ sl = y[2] /\ y[1] + 4 \in 0..(board.row - 1)
    BY <1>1, <1>3
  <2>2. \A k \in 0..4 : At(ar, y[1] + k, sl) = p
    BY <1>1, <1>3, <2>1
  <2>3. PICK i \in Int : i = y[1] + 4
    BY <1>1
  <2>4. i \in (Most(ra - 4, 0) + 4)..Least(ra + 4, board.row)
    BY <1>1, <2>1, <2>3 DEF Most, Least
  <2>5. ASSUME NEW k \in 0..3
        PROVE  At(ar, i - k - 1, sl) = At(ar, i - k, sl)
    <3>1. i - k - 1 = y[1] + (3 - k) /\ i - k = y[1] + (4 - k) /\ 3 - k \in 0..4 /\ 4 - k \in 0..4
      BY <1>1, <2>3
    <3> QED BY <2>2, <3>1, Zenon
  <2>6. Column5(ar, ra, sl)
    <3> HIDE DEF ra, sl
    <3> QED BY <2>4, <2>5, Zenon DEF Column5
  <2> QED BY <2>6, Zenon DEF isWinner
<1>4. CASE d = <<1, 1>>
  <2>1. ra = y[1] + n /\ sl = y[2] + n
    BY <1>1, <1>4
  <2>2. -n \in Starts(ra, sl)
    BY <1>1, <2>1 DEF Starts, Least
  <2>3. \A k \in 0..4 : At(ar, y[1] + k, y[2] + k) = p
    BY <1>1, <1>4
  <2>4. \A k \in 0..4 : At(ar, ra + (-n) + k, sl + (-n) + k) = p
    <3>1. ra + (-n) = y[1] /\ sl + (-n) = y[2]
      BY <1>1, <2>1
    <3> QED BY <2>3, <3>1, Zenon
  <2>5. Diagonal5(ar, p, ra, sl)
    BY <2>2, <2>4, Zenon DEF Diagonal5
  <2> QED BY <2>5, Zenon DEF isWinner
<1>5. CASE d = <<1, -1>>
  <2>1. ra = y[1] + n /\ sl = y[2] - n
    BY <1>1, <1>5
  <2>2. -n \in Starts(ra, sl)
    BY <1>1, <2>1, <1>5 DEF Starts, Least
  <2>3. \A k \in 0..4 : At(ar, y[1] + k, y[2] - k) = p
    <3> SUFFICES ASSUME NEW k \in 0..4 PROVE At(ar, y[1] + k, y[2] - k) = p
      OBVIOUS
    <3>1. y[1] + k * d[1] = y[1] + k /\ y[2] + k * d[2] = y[2] - k
      BY <1>1, <1>5
    <3> QED BY <3>1
  <2>4. \A k \in 0..4 : At(ar, ra + (-n) + k, sl - (-n) - k) = p
    <3>1. ra + (-n) = y[1] /\ sl - (-n) = y[2]
      BY <1>1, <2>1
    <3> QED BY <2>3, <3>1, Zenon
  <2>5. Diagonal5(ar, p, ra, sl)
    BY <2>2, <2>4, Zenon DEF Diagonal5
  <2> QED BY <2>5, Zenon DEF isWinner
<1> QED BY <1>2, <1>3, <1>4, <1>5 DEF Directions

\* The arithmetic of a line: its directions, its cells and the last of them.
LEMMA LineOnBoard ==
    ASSUME PiskvorTypeOK, NEW y \in board.cells, NEW d \in Directions,
           y[1] + 4 * d[1] \in 0..(board.row - 1), y[2] + 4 * d[2] \in 0..(board.coll - 1)
    PROVE  /\ y[1] + 0 * d[1] = y[1] /\ y[2] + 0 * d[2] = y[2]
           /\ \A n \in 0..4 : /\ y[1] + n * d[1] \in 0..(board.row - 1) /\ y[1] + n * d[1] \in Int
                              /\ y[2] + n * d[2] \in 0..(board.coll - 1) /\ y[2] + n * d[2] \in Int
<1>1. board.coll \in 5..26 /\ board.row \in 5..22 /\ y[1] \in 0..(board.row - 1) /\ y[2] \in 0..(board.coll - 1)
  BY BoardType, Zenon
<1>2. CASE d = <<0, 1>>
  BY <1>1, <1>2
<1>3. CASE d = <<1, 0>>
  BY <1>1, <1>3
<1>4. CASE d = <<1, 1>>
  BY <1>1, <1>4
<1>5. CASE d = <<1, -1>>
  BY <1>1, <1>5
<1> QED BY <1>2, <1>3, <1>4, <1>5 DEF Directions

\* A line that a turn completes goes through its stone, and isWinner() sees it.
LEMMA TurnSeesFive ==
    ASSUME PiskvorTypeOK, NoWinMissed, NEW x \in board.cells, Turn(x[1], x[2]),
           NEW p \in Players, FiveAt(area', p)
    PROVE  isWinner(area', zacinajici, x[1], x[2])
<1>1. PICK y \in board.cells, d \in Directions :
        /\ y[1] + 4 * d[1] \in 0..(board.row - 1) /\ y[2] + 4 * d[2] \in 0..(board.coll - 1)
        /\ \A n \in 0..4 : At(area', y[1] + n * d[1], y[2] + n * d[2]) = p
  BY Zenon DEF FiveAt
<1>2. PICK n \in 0..4 : Place(y[1] + n * d[1], y[2] + n * d[2]) = Place(x[1], x[2])
  <2> SUFFICES ASSUME \A n \in 0..4 : Place(y[1] + n * d[1], y[2] + n * d[2]) # Place(x[1], x[2])
               PROVE  FALSE
    BY Zenon
  <2>1. \A n \in 0..4 : At(area, y[1] + n * d[1], y[2] + n * d[2]) = p
    <3> SUFFICES ASSUME NEW n \in 0..4 PROVE At(area, y[1] + n * d[1], y[2] + n * d[2]) = p
      BY Zenon
    <3>1. y[1] + n * d[1] \in Int /\ y[2] + n * d[2] \in Int
      BY <1>1, LineOnBoard, Zenon
    <3> QED BY <1>1, <3>1, TurnChanges, Zenon
  <2>2. Five(p)
    BY <1>1, <2>1, Zenon DEF Five
  <2>3. konec = "no"
    BY Zenon DEF Turn
  <2> QED BY <2>2, <2>3, Zenon DEF NoWinMissed
<1>3. y[1] + n * d[1] = x[1] /\ y[2] + n * d[2] = x[2]
  <2>1. PICK r \in Int, c \in 0..(board.coll - 1) : r = y[1] + n * d[1] /\ c = y[2] + n * d[2]
    BY <1>1, LineOnBoard, Zenon
  <2>2. \A s \in Int : \A b \in 0..(board.coll - 1) : Place(r, c) = Place(s, b) => r = s /\ c = b
    BY OneCell
  <2>3. x[1] \in Int /\ x[2] \in 0..(board.coll - 1)
    BY BoardType, RowInt, Zenon
  <2>4. Place(r, c) = Place(x[1], x[2])
    BY <1>2, <2>1, Zenon
  <2> QED BY <2>1, <2>2, <2>3, <2>4, Zenon
<1>4. p = zacinajici
  BY <1>1, <1>3, TurnChanges, Zenon
<1>5. isWinner(area', p, y[1] + n * d[1], y[2] + n * d[2])
  BY <1>1, LineIsSeen, Zenon
<1> QED BY <1>3, <1>4, <1>5, Zenon

\* Five of p in a line from any cell of the board on.
LineAt(ar, p) ==
    \E r \in 0..(board.row - 1), c \in 0..(board.coll - 1), e \in {0, 1}, f \in {-1, 0, 1} :
        /\ <<e, f>> \in Directions
        /\ r + 4 * e \in 0..(board.row - 1) /\ c + 4 * f \in 0..(board.coll - 1)
        /\ At(ar, r, c) = p
        /\ \A n \in 0..4 : At(ar, r + n * e, c + n * f) = p

LEMMA LineIsFive ==
    ASSUME PiskvorTypeOK, NEW ar \in [Cells -> Players \cup {" "}], NEW p \in Players, LineAt(ar, p)
    PROVE  FiveAt(ar, p)
<1>1. PICK r \in 0..(board.row - 1), c \in 0..(board.coll - 1), e \in {0, 1}, f \in {-1, 0, 1} :
        /\ <<e, f>> \in Directions
        /\ r + 4 * e \in 0..(board.row - 1) /\ c + 4 * f \in 0..(board.coll - 1)
        /\ At(ar, r, c) = p
        /\ \A n \in 0..4 : At(ar, r + n * e, c + n * f) = p
  BY Zenon DEF LineAt
<1>2. <<r, c>> \in board.cells
  BY <1>1, StoneOnCell, Zenon
<1>3. PICK y \in board.cells : y[1] = r /\ y[2] = c
  BY <1>2
<1>4. PICK d \in Directions : d[1] = e /\ d[2] = f
  BY <1>1
<1>5. ASSUME NEW n \in 0..4
      PROVE  At(ar, y[1] + n * d[1], y[2] + n * d[2]) = p
  <2>1. At(ar, r + n * e, c + n * f) = p
    BY <1>1, Zenon
  <2> QED BY <1>3, <1>4, <2>1, Zenon
<1>6. y[1] + 4 * d[1] \in 0..(board.row - 1) /\ y[2] + 4 * d[2] \in 0..(board.coll - 1)
  BY <1>1, <1>3, <1>4, Zenon
<1> QED BY <1>5, <1>6, Zenon DEF FiveAt

\* Five equal cells of a row, or of a column, that isWinner() finds around a
\* stone of p in the middle of the board are five of p.
LEMMA RowRun ==
    ASSUME PiskvorTypeOK, NEW ar, NEW p, NEW ra \in 4..(board.row - 9), NEW sl \in 8..(board.coll - 9),
           At(ar, ra, sl) = p, Row5(ar, ra, sl)
    PROVE  LineAt(ar, p)
<1>1. board.coll \in 5..26 /\ board.row \in 5..22
  BY BoardType, Zenon
<1>2. PICK i \in (Most(sl - 4, 0) + 4)..Least(sl + 4, board.coll) :
           \A k \in 0..3 : At(ar, ra, i - k - 1) = At(ar, ra, i - k)
  BY Zenon DEF Row5
<1>3. i \in sl..(sl + 4)
  BY <1>1 DEF Most, Least
<1>4. PICK c \in 0..(board.coll - 5), m \in 0..4 : i = c + 4 /\ sl = c + m
  <2>1. i - 4 \in 0..(board.coll - 5) /\ sl - (i - 4) \in 0..4 /\ i = (i - 4) + 4 /\ sl = (i - 4) + (sl - (i - 4))
    BY <1>1, <1>3
  <2> QED BY <2>1, Zenon
<1>5. At(ar, ra, c + 3) = At(ar, ra, c + 4) /\ At(ar, ra, c + 2) = At(ar, ra, c + 3)
      /\ At(ar, ra, c + 1) = At(ar, ra, c + 2) /\ At(ar, ra, c + 0) = At(ar, ra, c + 1)
  <2>1. /\ i - 0 = c + 4 /\ i - 0 - 1 = c + 3 /\ i - 1 = c + 3 /\ i - 1 - 1 = c + 2
        /\ i - 2 = c + 2 /\ i - 2 - 1 = c + 1 /\ i - 3 = c + 1 /\ i - 3 - 1 = c + 0
        /\ 0 \in 0..3 /\ 1 \in 0..3 /\ 2 \in 0..3 /\ 3 \in 0..3
    BY <1>1, <1>4
  <2>2. \A k \in 0..3 : \A j, l \in Int : j = i - k - 1 /\ l = i - k => At(ar, ra, j) = At(ar, ra, l)
    BY <1>2, Zenon
  <2> QED BY <1>1, <2>1, <2>2
<1>6. At(ar, ra, c + m) = p
  BY <1>4, Zenon
<1>7. m = 0 \/ m = 1 \/ m = 2 \/ m = 3 \/ m = 4
  OBVIOUS
<1>8. At(ar, ra, c + 0) = p /\ At(ar, ra, c + 1) = p /\ At(ar, ra, c + 2) = p /\ At(ar, ra, c + 3) = p /\ At(ar, ra, c + 4) = p
  BY <1>5, <1>6, <1>7, Zenon
<1>9. \A n \in 0..4 : At(ar, ra, c + n) = p
  <2>1. \A n \in 0..4 : n = 0 \/ n = 1 \/ n = 2 \/ n = 3 \/ n = 4
    OBVIOUS
  <2> QED BY <1>8, <2>1, Zenon
<1>10. /\ ra \in 0..(board.row - 1) /\ c \in 0..(board.coll - 1) /\ <<0, 1>> \in Directions
       /\ ra + 4 * 0 \in 0..(board.row - 1) /\ c + 4 * 1 \in 0..(board.coll - 1)
       /\ 0 \in {0, 1} /\ 1 \in {-1, 0, 1}
  BY <1>1 DEF Directions
<1>11. At(ar, ra, c) = p
  BY <1>1, <1>8
<1>12. \A n \in 0..4 : At(ar, ra + n * 0, c + n * 1) = p
  <2> SUFFICES ASSUME NEW n \in 0..4 PROVE At(ar, ra + n * 0, c + n * 1) = p
    BY Zenon
  <2>1. ra + n * 0 = ra /\ c + n * 1 = c + n
    BY <1>1
  <2>2. At(ar, ra, c + n) = p
    BY <1>9, Zenon
  <2> QED BY <2>1, <2>2
<1> QED BY <1>10, <1>11, <1>12, Zenon DEF LineAt

LEMMA ColumnRun ==
    ASSUME PiskvorTypeOK, NEW ar, NEW p, NEW ra \in 4..(board.row - 9), NEW sl \in 8..(board.coll - 9),
           At(ar, ra, sl) = p, Column5(ar, ra, sl)
    PROVE  LineAt(ar, p)
<1>1. board.coll \in 5..26 /\ board.row \in 5..22
  BY BoardType, Zenon
<1>2. PICK i \in (Most(ra - 4, 0) + 4)..Least(ra + 4, board.row) :
           \A k \in 0..3 : At(ar, i - k - 1, sl) = At(ar, i - k, sl)
  BY Zenon DEF Column5
<1>3. i \in ra..(ra + 4)
  BY <1>1 DEF Most, Least
<1>4. PICK c \in 0..(board.row - 5), m \in 0..4 : i = c + 4 /\ ra = c + m
  <2>1. i - 4 \in 0..(board.row - 5) /\ ra - (i - 4) \in 0..4 /\ i = (i - 4) + 4 /\ ra = (i - 4) + (ra - (i - 4))
    BY <1>1, <1>3
  <2> QED BY <2>1, Zenon
<1>5. At(ar, c + 3, sl) = At(ar, c + 4, sl) /\ At(ar, c + 2, sl) = At(ar, c + 3, sl)
      /\ At(ar, c + 1, sl) = At(ar, c + 2, sl) /\ At(ar, c + 0, sl) = At(ar, c + 1, sl)
  <2>1. /\ i - 0 = c + 4 /\ i - 0 - 1 = c + 3 /\ i - 1 = c + 3 /\ i - 1 - 1 = c + 2
        /\ i - 2 = c + 2 /\ i - 2 - 1 = c + 1 /\ i - 3 = c + 1 /\ i - 3 - 1 = c + 0
        /\ 0 \in 0..3 /\ 1 \in 0..3 /\ 2 \in 0..3 /\ 3 \in 0..3
    BY <1>1, <1>4
  <2>2. \A k \in 0..3 : \A j, l \in Int : j = i - k - 1 /\ l = i - k => At(ar, j, sl) = At(ar, l, sl)
    BY <1>2, Zenon
  <2> QED BY <1>1, <2>1, <2>2
<1>6. At(ar, c + m, sl) = p
  BY <1>4, Zenon
<1>7. m = 0 \/ m = 1 \/ m = 2 \/ m = 3 \/ m = 4
  OBVIOUS
<1>8. At(ar, c + 0, sl) = p /\ At(ar, c + 1, sl) = p /\ At(ar, c + 2, sl) = p /\ At(ar, c + 3, sl) = p /\ At(ar, c + 4, sl) = p
  BY <1>5, <1>6, <1>7, Zenon
<1>9. \A n \in 0..4 : At(ar, c + n, sl) = p
  <2>1. \A n \in 0..4 : n = 0 \/ n = 1 \/ n = 2 \/ n = 3 \/ n = 4
    OBVIOUS
  <2> QED BY <1>8, <2>1, Zenon
<1>10. /\ c \in 0..(board.row - 1) /\ sl \in 0..(board.coll - 1) /\ <<1, 0>> \in Directions
       /\ c + 4 * 1 \in 0..(board.row - 1) /\ sl + 4 * 0 \in 0..(board.coll - 1)
       /\ 1 \in {0, 1} /\ 0 \in {-1, 0, 1}
  BY <1>1 DEF Directions
<1>11. At(ar, c, sl) = p
  BY <1>1, <1>8
<1>12. \A n \in 0..4 : At(ar, c + n * 1, sl + n * 0) = p
  <2> SUFFICES ASSUME NEW n \in 0..4 PROVE At(ar, c + n * 1, sl + n * 0) = p
    BY Zenon
  <2>1. c + n * 1 = c + n /\ sl + n * 0 = sl
    BY <1>1
  <2>2. At(ar, c + n, sl) = p
    BY <1>9, Zenon
  <2> QED BY <2>1, <2>2
<1> QED BY <1>10, <1>11, <1>12, Zenon DEF LineAt

\* Both diagonals, which isWinner() compares with the player.
LEMMA DiagonalRun ==
    ASSUME PiskvorTypeOK, NEW ar, NEW p, NEW ra \in 4..(board.row - 9), NEW sl \in 8..(board.coll - 9),
           Diagonal5(ar, p, ra, sl)
    PROVE  LineAt(ar, p)
<1>1. board.coll \in 5..26 /\ board.row \in 5..22
  BY BoardType, Zenon
<1>2. PICK i \in Starts(ra, sl) : \/ \A n \in 0..4 : At(ar, ra + i + n, sl + i + n) = p
                                  \/ \A n \in 0..4 : At(ar, ra + i + n, sl - i - n) = p
  BY Zenon DEF Diagonal5
<1>3. i \in -4..4
  BY <1>1 DEF Starts, Least
<1>4. CASE \A n \in 0..4 : At(ar, ra + i + n, sl + i + n) = p
  <2>1. PICK r \in 0..(board.row - 1), c \in 0..(board.coll - 1) :
             r = ra + i /\ c = sl + i /\ r + 4 * 1 \in 0..(board.row - 1) /\ c + 4 * 1 \in 0..(board.coll - 1)
    BY <1>1, <1>3
  <2>2. ASSUME NEW n \in 0..4
        PROVE  At(ar, r + n * 1, c + n * 1) = p
    <3>1. r + n * 1 = ra + i + n /\ c + n * 1 = sl + i + n
      BY <1>1, <1>3, <2>1
    <3> QED BY <1>4, <3>1, Zenon
  <2>3. At(ar, r, c) = p
    <3>1. r = ra + i + 0 /\ c = sl + i + 0 /\ 0 \in 0..4
      BY <1>1, <1>3, <2>1
    <3> QED BY <1>4, <3>1, Zenon
  <2>4. <<1, 1>> \in Directions /\ 1 \in {0, 1} /\ 1 \in {-1, 0, 1}
    BY DEF Directions
  <2> QED BY <2>1, <2>2, <2>3, <2>4, Zenon DEF LineAt
<1>5. CASE \A n \in 0..4 : At(ar, ra + i + n, sl - i - n) = p
  <2>1. PICK r \in 0..(board.row - 1), c \in 0..(board.coll - 1) :
             r = ra + i /\ c = sl - i /\ r + 4 * 1 \in 0..(board.row - 1) /\ c + 4 * (-1) \in 0..(board.coll - 1)
    BY <1>1, <1>3
  <2>2. ASSUME NEW n \in 0..4
        PROVE  At(ar, r + n * 1, c + n * (-1)) = p
    <3>1. r + n * 1 = ra + i + n /\ c + n * (-1) = sl - i - n
      BY <1>1, <1>3, <2>1
    <3> QED BY <1>5, <3>1, Zenon
  <2>3. At(ar, r, c) = p
    <3>1. r = ra + i + 0 /\ c = sl - i - 0 /\ 0 \in 0..4
      BY <1>1, <1>3, <2>1
    <3> QED BY <1>5, <3>1, Zenon
  <2>4. <<1, -1>> \in Directions /\ 1 \in {0, 1} /\ -1 \in {-1, 0, 1}
    BY DEF Directions
  <2> QED BY <2>1, <2>2, <2>3, <2>4, Zenon DEF LineAt
<1> QED BY <1>2, <1>4, <1>5, Zenon

-----------------------------------------------------------------------------
\* What isWinner() decided is right after every turn.  No more is needed: it looks
\* at the board alone.
PiskvorInd == PiskvorTypeOK /\ NoWinMissed /\ WinsAreReal

\* Every turn, and giving up, keeps the invariant.
THEOREM PiskvorInductive == PiskvorSpec => []PiskvorInd
<1>1. PiskvorInit => PiskvorInd
  <2> SUFFICES ASSUME PiskvorInit PROVE PiskvorInd
    OBVIOUS
  <2>1. PiskvorTypeOK
    <3>1. board.coll \in 5..26 /\ board.row \in 5..22
      BY BoardsAssumption DEF PiskvorInit
    <3>2. a_ra \in 0..(board.row - 1) /\ a_sl \in 0..(board.coll - 1)
      <4>1. a_ra = 0 /\ a_sl = 0
        BY Zenon DEF PiskvorInit
      <4> QED BY <3>1, <4>1
    <3> QED BY <3>2 DEF PiskvorInit, PiskvorTypeOK
  <2>2. ASSUME NEW p \in Players, Five(p)
        PROVE  FALSE
    <3>1. PICK y \in board.cells, d \in Directions :
            /\ y[1] + 4 * d[1] \in 0..(board.row - 1) /\ y[2] + 4 * d[2] \in 0..(board.coll - 1)
            /\ \A n \in 0..4 : At(area, y[1] + n * d[1], y[2] + n * d[2]) = p
      BY <2>2, Zenon DEF Five
    <3>2. At(area, y[1], y[2]) = p
      <4>1. 0 \in 0..4
        OBVIOUS
      <4>2. At(area, y[1] + 0 * d[1], y[2] + 0 * d[2]) = p
        BY <3>1, <4>1, Zenon
      <4>3. y[1] + 0 * d[1] = y[1] /\ y[2] + 0 * d[2] = y[2]
        BY <2>1, <3>1, LineOnBoard, Zenon
      <4> QED BY <4>2, <4>3, Zenon
    <3>3. Place(y[1], y[2]) \in Cells
      BY DEF Cells
    <3>4. area = [j \in Cells |-> " "]
      BY DEF PiskvorInit
    <3> HIDE DEF Cells
    <3>5. At(area, y[1], y[2]) = " "
      BY <3>3, <3>4, Zenon DEF At
    <3> QED BY <3>2, <3>5 DEF Players
  <2> QED BY <2>1, <2>2 DEF PiskvorInd, NoWinMissed, WinsAreReal, PiskvorInit
<1>2. PiskvorInd /\ [PiskvorNext]_piskvorVars => PiskvorInd'
  <2> SUFFICES ASSUME PiskvorInd, [PiskvorNext]_piskvorVars PROVE PiskvorInd'
    OBVIOUS
  <2> USE DEF PiskvorInd
  <2>1. ASSUME NEW x \in board.cells, Turn(x[1], x[2])
        PROVE  PiskvorInd'
    <3>1. board' = board /\ outside' = outside /\ konec' \in {"no", "win"} /\ a_ra' = x[1] /\ a_sl' = x[2]
      BY <2>1, Zenon DEF Turn
    <3>2. konec' = "win" <=> isWinner(area', zacinajici, x[1], x[2])
      BY <2>1 DEF Turn
    <3>3. zacinajici \in Players /\ zacinajici' \in Players
          /\ zacinajici = IF zacinajici' = "x" THEN "o" ELSE "x"
      BY <2>1 DEF Turn, PiskvorTypeOK, Players
    <3>4. area' \in [Cells -> Players \cup {" "}] /\ Cells' = Cells
      <4>1. Cells' = Cells
        BY <3>1, Zenon DEF Cells, Place
      <4> QED BY <2>1, <4>1, TurnChanges, Zenon
    <3>5. x[1] \in 0..(board.row - 1) /\ x[2] \in 0..(board.coll - 1)
      BY BoardType, Zenon
    <3>6. PiskvorTypeOK'
      BY <3>1, <3>3, <3>4, <3>5, Zenon DEF PiskvorTypeOK
    <3>7. NoWinMissed'
      <4> SUFFICES ASSUME konec' = "no", NEW p \in Players, Five(p)' PROVE FALSE
        BY DEF NoWinMissed, Players
      <4>1. FiveAt(area', p)
        BY <3>1, FiveNext
      <4>2. isWinner(area', zacinajici, x[1], x[2])
        BY <2>1, <4>1, TurnSeesFive
      <4> QED BY <3>2, <4>2
    <3>8. WinsAreReal'
      <4> SUFFICES ASSUME konec' = "win", x[1] \in 4..(board.row - 9), x[2] \in 8..(board.coll - 9)
                   PROVE  Five(IF zacinajici = "x" THEN "o" ELSE "x")'
        BY <3>1, Zenon DEF WinsAreReal
      <4>1. PICK p \in Players : p = zacinajici
        BY <3>3, Zenon
      <4>2. isWinner(area', p, x[1], x[2]) /\ At(area', x[1], x[2]) = p
        BY <2>1, <3>2, <4>1, TurnChanges, Zenon
      <4>3. LineAt(area', p)
        BY <4>2, RowRun, ColumnRun, DiagonalRun, Zenon DEF isWinner
      <4>4. Five(p)'
        BY <3>1, <3>4, <4>3, LineIsFive, FiveNext, Zenon
      <4>5. p = (IF zacinajici = "x" THEN "o" ELSE "x")'
        BY <3>3, <4>1, Zenon
      <4> QED BY <4>4, <4>5, Zenon DEF Five
    <3> QED BY <3>6, <3>7, <3>8
  <2>2. CASE Quit
    BY <2>2 DEF Quit, PiskvorTypeOK, Cells, Place, NoWinMissed, WinsAreReal
  <2>3. CASE UNCHANGED piskvorVars
    <3>1. PiskvorTypeOK'
      BY <2>3 DEF piskvorVars, PiskvorTypeOK, Cells, Place
    <3>2. ASSUME NEW p \in Players, Five(p)'
          PROVE  Five(p)
      BY <2>3, <3>2, FiveNow, FiveNext DEF piskvorVars
    <3>3. NoWinMissed'
      BY <2>3, <3>2 DEF piskvorVars, NoWinMissed, Players
    <3>4. WinsAreReal'
      <4>1. PICK p \in Players : p = IF zacinajici = "x" THEN "o" ELSE "x"
        BY DEF Players
      <4>2. Five(p) => Five(p)'
        BY <2>3, FiveNow, FiveNext, Zenon DEF piskvorVars
      <4>3. p = (IF zacinajici = "x" THEN "o" ELSE "x")'
        BY <2>3, <4>1, Zenon DEF piskvorVars
      <4>4. WinsAreReal => (konec = "win" /\ a_ra \in 4..(board.row - 9) /\ a_sl \in 8..(board.coll - 9)
                            => Five(p))
        BY <4>1, Zenon DEF WinsAreReal
      <4>5. konec' = "win" /\ a_ra' \in 4..(board'.row - 9) /\ a_sl' \in 8..(board'.coll - 9) => Five(p)'
        BY <2>3, <4>2, <4>4, Zenon DEF piskvorVars
      <4> QED BY <4>3, <4>5, Zenon DEF WinsAreReal, Five
    <3> QED BY <3>1, <3>3, <3>4
  <2> QED BY <2>1, <2>2, <2>3 DEF PiskvorNext
<1> QED BY <1>1, <1>2, PTL DEF PiskvorSpec

\* On every board main() accepts, whatever is in the memory around it, the
\* game ends with the first five in a line.
THEOREM NoWinMissedSafe == PiskvorSpec => []NoWinMissed
<1>1. PiskvorInd => NoWinMissed
  BY DEF PiskvorInd
<1> QED BY <1>1, PiskvorInductive, PTL

\* Away from the edges, isWinner() announces no win without five in a line.
THEOREM WinsAreRealSafe == PiskvorSpec => []WinsAreReal
<1>1. PiskvorInd => WinsAreReal
  BY DEF PiskvorInd
<1> QED BY <1>1, PiskvorInductive, PTL

=============================================================================
