---------------------------- MODULE IrqsimProofs ----------------------------
(***************************************************************************)
(* Safety of modules/irqsim/irqsim.c for any number of hwirqs and writers. *)
(* The inductive invariant says, for every statement of irqsim_init() and  *)
(* irqsim_exit(), which hwirqs have a mapping and which a handler, and     *)
(* what exists beside them.                                                *)
(***************************************************************************)
EXTENDS Irqsim, TLAPS

\* Where the two functions stand tells what is set up.
LoopInv ==
    /\ pc \in {"debugfs", "fwnode", "domain"} => hwirq = 0 /\ mapped = {} /\ handlers = {}
    /\ pc = "map" => hwirq < N /\ mapped = 0..(hwirq - 1) /\ handlers = 0..(hwirq - 1)
    /\ pc = "request" => hwirq < N /\ mapped = 0..hwirq /\ handlers = 0..(hwirq - 1)
    /\ pc = "live" => mapped = Irqs /\ handlers = Irqs
    /\ pc = "unwind" => mapped = 0..(hwirq - 1) /\ handlers = 0..(hwirq - 1)
    /\ pc = "unwind_dispose" =>
        hwirq > 0 /\ mapped = 0..(hwirq - 1) /\ handlers = 0..(hwirq - 2)
    /\ pc = "free" => mapped = hwirq..(N - 1) /\ handlers = hwirq..(N - 1)
    /\ pc = "dispose" =>
        hwirq < N /\ mapped = hwirq..(N - 1) /\ handlers = (hwirq + 1)..(N - 1)
    /\ pc \in {"remove", "err_irqd", "err_fwnode", "remove_fwnode", "remove_files", "wait", "gone"}
            /\ ~mapFailed => mapped = {} /\ handlers = {}
    /\ mapFailed => /\ pc \in {"err_irqd", "err_fwnode", "remove_files", "wait", "gone"}
                    /\ mapped = 0..(hwirq - 1) /\ handlers = 0..(hwirq - 1)

\* What else exists at each statement.
ObjectInv ==
    /\ pc \in {"debugfs", "fwnode", "domain"} => irqd = "null"
    /\ pc \in {"map", "request", "live", "unwind", "unwind_dispose", "free", "dispose",
               "remove", "err_irqd"} => irqd = "valid"
    /\ pc \in {"err_fwnode", "remove_fwnode", "remove_files", "wait", "gone"} => irqd # "valid"
    /\ pc \in {"debugfs", "wait", "gone"} => file = {}
    /\ pc \in {"debugfs", "fwnode", "remove_files", "wait", "gone"} => ~fwnode

\* Where writers can be, and what one that began on the live module has found.
WriterInv ==
    \A w \in Writers :
        /\ pc \in {"debugfs", "gone"} => wpc[w] = "idle"
        /\ began[w] => pc \notin Setup
        /\ pc = "live" /\ began[w] /\ wpc[w] = "raise" => own[w]

Ind == TypeOK /\ LoopInv /\ ObjectInv /\ WriterInv

\* The module just loaded, before its first statement, satisfies Ind.
LEMMA InitInd == Init => Ind
<1> SUFFICES ASSUME Init PROVE Ind
  OBVIOUS
<1>1. TypeOK
  <2>1. fwnode \in BOOLEAN /\ mapFailed \in BOOLEAN
    BY Zenon DEF Init
  <2>2. own \in [Writers -> BOOLEAN] /\ began \in [Writers -> BOOLEAN]
    BY Zenon DEF Init
  <2> QED
    BY <2>1, <2>2, SizesAssumption DEF Init, TypeOK, Setup, Irqs, Files
<1>2. LoopInv /\ ObjectInv /\ WriterInv
  BY DEF Init, LoopInv, ObjectInv, WriterInv, Setup
<1> QED
  BY <1>1, <1>2 DEF Ind

\* What gen_irq_write() leaves in its variables.
LEMMA ReturnType ==
    ASSUME TypeOK, NEW w \in Writers, Return(w)
    PROVE  /\ wpc' \in [Writers -> {"idle", "find", "raise", "oops"}]
           /\ irq_bm' \in [Writers -> SUBSET Irqs]
           /\ rest' \in [Writers -> SUBSET Irqs]
           /\ i' \in [Writers -> 0..MaxCount]
<1>1. wpc' \in [Writers -> {"idle", "find", "raise", "oops"}]
  BY DEF Return, TypeOK
<1>2. irq_bm' \in [Writers -> SUBSET Irqs]
  BY DEF Return, TypeOK
<1>3. rest' \in [Writers -> SUBSET Irqs]
  BY DEF Return, TypeOK
<1>4. i' \in [Writers -> 0..MaxCount]
  BY SizesAssumption DEF Return, TypeOK
<1> QED
  BY <1>1, <1>2, <1>3, <1>4

\* Ind holds initially and every step of the module and of the writers keeps it.
THEOREM Inductive == Spec => []Ind
<1>1. Init => Ind
  BY InitInd
<1>2. Ind /\ [Next]_vars => Ind'
  <2> SUFFICES ASSUME Ind, [Next]_vars PROVE Ind'
    OBVIOUS
  <2> USE SizesAssumption DEF Ind, TypeOK, LoopInv, ObjectInv, WriterInv, Setup, Unwind,
          Teardown, Leaving, Irqs, Files, modVars, writerVars
  <2>1. CASE CreateFiles
    BY <2>1 DEF CreateFiles
  <2>2. CASE CreateFwnode
    <3>1. TypeOK'
      BY <2>2 DEF CreateFwnode
    <3>2. LoopInv'
      BY <2>2 DEF CreateFwnode
    <3>3. ObjectInv'
      BY <2>2 DEF CreateFwnode
    <3>4. WriterInv'
      BY <2>2 DEF CreateFwnode
    <3> QED
      BY <3>1, <3>2, <3>3, <3>4
  <2>3. CASE CreateDomain
    BY <2>3 DEF CreateDomain
  <2>4. CASE MapIrq
    <3>0. hwirq \in 0..(N - 1) /\ mapped = 0..(hwirq - 1)
      BY <2>4 DEF MapIrq
    <3>a. mapFailed' \in BOOLEAN
      BY <2>4, Zenon DEF MapIrq
    <3>1. TypeOK'
      BY <2>4, <3>0, <3>a DEF MapIrq
    <3>2. LoopInv'
      <4>1. mapped \cup {hwirq} = 0..hwirq /\ handlers = 0..(hwirq - 1) /\ ~mapFailed
        BY <2>4, <3>0 DEF MapIrq
      <4>2. CASE pc' = "err_irqd"
        <5>1. /\ mapFailed' = TRUE /\ hwirq' = hwirq
              /\ mapped' = 0..(hwirq' - 1) /\ handlers' = 0..(hwirq' - 1)
          BY <2>4, <3>0, <4>1, <4>2 DEF MapIrq
        <5> QED
          BY <4>2, <5>1
      <4>3. CASE pc' # "err_irqd"
        <5>1. /\ pc' = "request" /\ mapFailed' = FALSE /\ hwirq' = hwirq
              /\ mapped' = 0..hwirq' /\ handlers' = 0..(hwirq' - 1)
          BY <2>4, <3>0, <4>1, <4>3 DEF MapIrq
        <5> QED
          BY <3>0, <5>1
      <4> QED
        BY <4>2, <4>3
    <3>3. ObjectInv'
      BY <2>4 DEF MapIrq
    <3>4. WriterInv'
      BY <2>4 DEF MapIrq
    <3> QED
      BY <3>1, <3>2, <3>3, <3>4
  <2>5. CASE RequestIrq
    <3>1. TypeOK'
      BY <2>5 DEF RequestIrq
    <3>2. LoopInv'
      <4>0. ~mapFailed'
        BY <2>5 DEF RequestIrq
      <4>1. hwirq \in 0..(N - 1) /\ mapped = 0..hwirq /\ handlers = 0..(hwirq - 1)
        BY <2>5 DEF RequestIrq
      <4>2. handlers \cup {hwirq} = 0..hwirq /\ mapped \ {hwirq} = 0..(hwirq - 1)
        BY <4>1
      <4>3. hwirq + 1 - 1 = hwirq /\ (~(hwirq + 1 < N) => hwirq = N - 1)
        BY <4>1
      <4>4. CASE pc' = "unwind"
        BY <2>5, <4>0, <4>1, <4>2, <4>4 DEF RequestIrq
      <4>5. CASE pc' # "unwind"
        <5>1. /\ hwirq' = hwirq + 1 /\ handlers' = 0..hwirq /\ mapped' = 0..hwirq
              /\ pc' = IF hwirq + 1 < N THEN "map" ELSE "live"
          BY <2>5, <4>1, <4>2, <4>5 DEF RequestIrq
        <5>2. CASE hwirq + 1 < N
          BY <4>0, <4>1, <4>3, <5>1, <5>2
        <5>3. CASE ~(hwirq + 1 < N)
          BY <4>0, <4>1, <4>3, <5>1, <5>3
        <5> QED
          BY <5>2, <5>3
      <4> QED
        BY <4>4, <4>5
    <3>3. ObjectInv'
      BY <2>5 DEF RequestIrq
    <3>4. WriterInv'
      BY <2>5 DEF RequestIrq
    <3> QED
      BY <3>1, <3>2, <3>3, <3>4
  <2>6. CASE UnwindFree
    <3>1. TypeOK'
      BY <2>6 DEF UnwindFree
    <3>2. LoopInv'
      <4>1. hwirq \in 0..N /\ mapped = 0..(hwirq - 1) /\ handlers = 0..(hwirq - 1)
        BY <2>6 DEF UnwindFree
      <4>2. CASE hwirq = 0
        <5>1. mapped = {} /\ handlers = {}
          BY <4>1, <4>2
        <5> QED
          BY <2>6, <4>2, <5>1 DEF UnwindFree
      <4>3. CASE hwirq # 0
        <5>1. hwirq > 0 /\ handlers \ {hwirq - 1} = 0..(hwirq - 2)
          BY <4>1, <4>3
        <5> QED
          BY <2>6, <4>1, <4>3, <5>1 DEF UnwindFree
      <4> QED
        BY <4>2, <4>3
    <3>3. ObjectInv'
      BY <2>6 DEF UnwindFree
    <3>4. WriterInv'
      BY <2>6 DEF UnwindFree
    <3> QED
      BY <3>1, <3>2, <3>3, <3>4
  <2>7. CASE UnwindDispose
    BY <2>7 DEF UnwindDispose
  <2>8. CASE StartExit
    BY <2>8 DEF StartExit
  <2>9. CASE FreeIrq
    <3>1. TypeOK'
      BY <2>9 DEF FreeIrq
    <3>2. LoopInv'
      <4>1. hwirq \in 0..N /\ mapped = hwirq..(N - 1) /\ handlers = hwirq..(N - 1)
        BY <2>9 DEF FreeIrq
      <4>2. CASE hwirq = N
        <5>1. mapped = {} /\ handlers = {}
          BY <4>1, <4>2
        <5> QED
          BY <2>9, <4>2, <5>1 DEF FreeIrq
      <4>3. CASE hwirq # N
        <5>1. hwirq < N /\ handlers \ {hwirq} = (hwirq + 1)..(N - 1)
          BY <4>1, <4>3
        <5> QED
          BY <2>9, <4>1, <4>3, <5>1 DEF FreeIrq
      <4> QED
        BY <4>2, <4>3
    <3>3. ObjectInv'
      BY <2>9 DEF FreeIrq
    <3>4. WriterInv'
      BY <2>9 DEF FreeIrq
    <3> QED
      BY <3>1, <3>2, <3>3, <3>4
  <2>10. CASE Dispose
    BY <2>10 DEF Dispose
  <2>11. CASE RemoveDomain
    BY <2>11 DEF RemoveDomain
  <2>12. CASE RemoveFwnode
    BY <2>12 DEF RemoveFwnode
  <2>13. CASE RemoveFiles
    BY <2>13 DEF RemoveFiles
  <2>14. CASE FilesRemoved
    BY <2>14 DEF FilesRemoved
  <2>15. ASSUME NEW n \in 0..MaxCount, SetWriteCount(n) PROVE Ind'
    BY <2>15 DEF SetWriteCount
  <2>16. ASSUME NEW w \in Writers, NEW bm \in SUBSET Irqs, BeginWrite(w, bm) PROVE Ind'
    <3>0. began' \in [Writers -> BOOLEAN]
      BY <2>16, Zenon DEF BeginWrite
    <3>1. TypeOK'
      BY <2>16, <3>0 DEF BeginWrite
    <3>2. LoopInv' /\ ObjectInv'
      BY <2>16 DEF BeginWrite
    <3>3. WriterInv'
      BY <2>16 DEF BeginWrite
    <3> QED
      BY <3>1, <3>2, <3>3
  <2>17. ASSUME NEW w \in Writers, FindMapping(w) PROVE Ind'
    <3>0. own' \in [Writers -> BOOLEAN] /\ began' \in [Writers -> BOOLEAN]
      BY <2>17, Zenon DEF FindMapping, Return, Oops
    <3>1. TypeOK'
      <4>1. UNCHANGED <<modVars, write_count>>
        BY <2>17 DEF FindMapping
      <4>2. CASE Return(w)
        BY <3>0, <4>1, <4>2, ReturnType
      <4>3. CASE ~Return(w)
        <5>1. wpc' \in [Writers -> {"idle", "find", "raise", "oops"}]
          BY <2>17, <4>3 DEF FindMapping, Oops
        <5>2. UNCHANGED <<irq_bm, rest>>
          BY <2>17, <4>3, Zenon DEF FindMapping, Oops
        <5>3. i' \in [Writers -> 0..MaxCount]
          BY <2>17, <4>3 DEF FindMapping, Oops
        <5> QED
          BY <3>0, <4>1, <5>1, <5>2, <5>3
      <4> QED
        BY <4>2, <4>3
    <3>2. LoopInv'
      BY <2>17 DEF FindMapping, Return, Oops
    <3>3. ObjectInv'
      BY <2>17 DEF FindMapping, Return, Oops
    <3>4. WriterInv'
      BY <2>17 DEF FindMapping, Return, Oops
    <3> QED
      BY <3>1, <3>2, <3>3, <3>4
  <2>18. ASSUME NEW w \in Writers, Raise(w) PROVE Ind'
    <3>0. own' \in [Writers -> BOOLEAN] /\ began' \in [Writers -> BOOLEAN]
      BY <2>18, Zenon DEF Raise, Oops
    <3>1. TypeOK'
      <4>1. /\ UNCHANGED <<modVars, write_count, irq_bm, i>>
            /\ rest' = rest \/ rest' = [rest EXCEPT ![w] = @ \ {NextIrq(w)}]
            /\ wpc' = [wpc EXCEPT ![w] = "oops"] \/ wpc' = [wpc EXCEPT ![w] = "find"]
        BY <2>18, Zenon DEF Raise, Oops
      <4>2. rest' \in [Writers -> SUBSET Irqs]
        <5>1. rest \in [Writers -> SUBSET Irqs]
          OBVIOUS
        <5>2. PICK x : rest' = rest \/ rest' = [rest EXCEPT ![w] = @ \ {x}]
          BY <4>1, Zenon
        <5>3. rest[w] \ {x} \in SUBSET Irqs
          BY <5>1
        <5> QED
          BY <5>1, <5>2, <5>3
      <4>3. wpc' \in [Writers -> {"idle", "find", "raise", "oops"}]
        BY <4>1
      <4> QED
        BY <3>0, <4>1, <4>2, <4>3
    <3>2. LoopInv' /\ ObjectInv'
      BY <2>18 DEF Raise
    <3>3. WriterInv'
      BY <2>18 DEF Raise, Oops
    <3> QED
      BY <3>1, <3>2, <3>3
  <2>19. ASSUME NEW w \in Writers, EndRound(w) PROVE Ind'
    <3>0. own' \in [Writers -> BOOLEAN] /\ began' \in [Writers -> BOOLEAN]
      BY <2>19, Zenon DEF EndRound, Return
    <3>1. TypeOK'
      <4>1. UNCHANGED <<modVars, write_count>>
        BY <2>19 DEF EndRound
      <4>2. CASE Return(w)
        BY <3>0, <4>1, <4>2, ReturnType
      <4>3. CASE ~Return(w)
        <5>1. wpc' \in [Writers -> {"idle", "find", "raise", "oops"}]
          BY <2>19, <4>3 DEF EndRound
        <5>2. irq_bm' = irq_bm /\ rest' = [rest EXCEPT ![w] = irq_bm[w]]
          BY <2>19, <4>3, Zenon DEF EndRound
        <5>a. rest' \in [Writers -> SUBSET Irqs]
          BY <5>2
        <5>3. i' \in [Writers -> 0..MaxCount]
          <6>1. i[w] + 1 < write_count /\ i' = [i EXCEPT ![w] = i[w] + 1]
            BY <2>19, <4>3 DEF EndRound
          <6>2. i[w] + 1 \in 0..MaxCount
            BY <6>1
          <6> QED
            BY <6>1, <6>2
        <5> QED
          BY <3>0, <4>1, <5>1, <5>2, <5>a, <5>3
      <4> QED
        BY <4>2, <4>3
    <3>2. LoopInv'
      BY <2>19 DEF EndRound, Return
    <3>3. ObjectInv'
      BY <2>19 DEF EndRound, Return
    <3>4. WriterInv'
      BY <2>19 DEF EndRound, Return
    <3> QED
      BY <3>1, <3>2, <3>3, <3>4
  <2>20. CASE UNCHANGED vars
    BY <2>20 DEF vars
  <2> QED
    BY <2>1, <2>2, <2>3, <2>4, <2>5, <2>6, <2>7, <2>8, <2>9, <2>10, <2>11, <2>12, <2>13,
       <2>14, <2>15, <2>16, <2>17, <2>18, <2>19, <2>20
       DEF Next, InitStep, LeaveStep, WriteStep, Finished
<1> QED
  BY <1>1, <1>2, PTL DEF Spec

\* Writes to gen_irq on a module that is up are whole and raise its own irqs.
THEOREM WritesSafe == Spec => []LiveWritesAreWhole
<1>1. Ind => LiveWritesAreWhole
  BY DEF Ind, TypeOK, LoopInv, ObjectInv, WriterInv, LiveWritesAreWhole, Irqs
<1> QED
  BY <1>1, Inductive, PTL

\* irqsim_exit() and the unwinding after a failing request_irq() leave no
\* mapping and no handler in a removed domain, for any number of irqs.
THEOREM UnwindSafe == Spec => []UnwoundBeforeRemoval
<1>1. Ind => UnwoundBeforeRemoval
  BY DEF Ind, TypeOK, LoopInv, ObjectInv, UnwoundBeforeRemoval, Setup, Leaving, Unwind, Teardown
<1> QED
  BY <1>1, Inductive, PTL

\* Whatever failed, the module goes only when nobody is in gen_irq_write() and
\* nothing of it is left, but for the mappings and handlers of the hwirqs before
\* the one whose irq_create_mapping() failed: those are left, all of them.
THEOREM LeftSafe == Spec => []LeftWhenGone
<1>1. Ind => LeftWhenGone
  <2> SUFFICES ASSUME Ind, pc = "gone" PROVE LeftWhenGone
    BY DEF LeftWhenGone
  <2>1. file = {} /\ ~fwnode /\ irqd # "valid" /\ \A w \in Writers : wpc[w] = "idle"
    BY DEF Ind, ObjectInv, WriterInv
  <2>2. mapped = handlers /\ handlers = IF mapFailed THEN {h \in Irqs : h < hwirq} ELSE {}
    <3>1. CASE ~mapFailed
      BY <3>1 DEF Ind, LoopInv
    <3>2. CASE mapFailed
      <4>1. hwirq \in 0..N /\ mapped = 0..(hwirq - 1) /\ handlers = 0..(hwirq - 1)
        BY <3>2 DEF Ind, TypeOK, LoopInv
      <4>2. 0..(hwirq - 1) = {h \in Irqs : h < hwirq}
        BY <4>1, SizesAssumption DEF Irqs
      <4> QED
        BY <3>2, <4>1, <4>2
    <3> QED
      BY <3>1, <3>2
  <2> QED
    BY <2>1, <2>2 DEF LeftWhenGone
<1> QED
  BY <1>1, Inductive, PTL

=============================================================================
