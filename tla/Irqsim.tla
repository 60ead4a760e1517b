------------------------------- MODULE Irqsim -------------------------------
(***************************************************************************)
(* modules/irqsim/irqsim.c: a kernel module that simulates interrupts.     *)
(* irqsim_init() creates the debugfs files, an irq domain, and a mapping   *)
(* and a handler for every hwirq, and unwinds on failure; irqsim_exit()    *)
(* takes all of it down.  Meanwhile processes (writer.cpp forks twenty)    *)
(* are in gen_irq_write(): the file is there before the domain is and goes *)
(* after it.                                                               *)
(*                                                                         *)
(* debugfs, the irq core and the module loader are the kernel's: a removed *)
(* file takes no new calls and debugfs_remove() waits for the running ones *)
(* (the files have no owner, so that nothing else keeps the module);       *)
(* irq_find_mapping(NULL) looks into the default domain.  A call that uses *)
(* an error pointer as a domain is killed by the kernel, one that uses a   *)
(* domain already freed finds anything or is killed; a killed call never   *)
(* returns, so that debugfs_remove() waits for it for ever.                *)
(***************************************************************************)
EXTENDS Naturals

CONSTANTS
    N,          \* irqs, the number of hwirqs
    Writers,    \* processes that write to gen_irq
    MaxCount    \* bound: values of write_count

ASSUME SizesAssumption == N \in Nat \ {0} /\ MaxCount \in Nat \ {0}

Irqs == 0..(N - 1)
Files == {"gen_irq", "write_count"}

VARIABLES
    pc,           \* irqsim_init(), irqsim_exit(): the statement to come
    hwirq,        \* their loop variable
    file,         \* the debugfs files that exist
    fwnode,       \* the software node exists
    irqd,         \* "null", "valid", "err" (IS_ERR) or "freed"
    mapped,       \* hwirqs with a mapping
    handlers,     \* hwirqs with irq_han() requested
    mapFailed,    \* irq_create_mapping() failed
    write_count,  \* the debugfs variable
    wpc,          \* writer: "idle", "find", "raise" or "oops" (killed in the call)
    irq_bm,       \* writer: the hwirqs it asked for
    rest,         \* writer: those still to come in this round
    i,            \* writer: rounds done
    own,          \* writer: the irq was found in the module's domain, not in the default one
    began         \* writer: the call began on a module that was set up

modVars == <<pc, hwirq, file, fwnode, irqd, mapped, handlers, mapFailed>>
writerVars == <<wpc, irq_bm, rest, i, own, began>>
vars == <<modVars, write_count, writerVars>>

Setup    == {"debugfs", "fwnode", "domain", "map", "request"}
Unwind   == {"unwind", "unwind_dispose", "err_irqd", "err_fwnode"}
Teardown == {"free", "dispose", "remove", "remove_fwnode"}
Leaving  == Unwind \cup Teardown \cup {"remove_files", "wait"}

TypeOK ==
    /\ pc \in Setup \cup {"live", "gone"} \cup Leaving
    /\ hwirq \in 0..N
    /\ file \in SUBSET Files /\ fwnode \in BOOLEAN /\ mapFailed \in BOOLEAN
    /\ irqd \in {"null", "valid", "err", "freed"}
    /\ mapped \in SUBSET Irqs /\ handlers \in SUBSET Irqs
    /\ write_count \in 0..MaxCount
    /\ wpc \in [Writers -> {"idle", "find", "raise", "oops"}]
    /\ irq_bm \in [Writers -> SUBSET Irqs] /\ rest \in [Writers -> SUBSET Irqs]
    /\ i \in [Writers -> 0..MaxCount]
    /\ own \in [Writers -> BOOLEAN] /\ began \in [Writers -> BOOLEAN]

Init ==
    /\ pc = "debugfs" /\ hwirq = 0
    /\ file = {} /\ fwnode = FALSE /\ irqd = "null"
    /\ mapped = {} /\ handlers = {} /\ mapFailed = FALSE
    /\ write_count = 1
    /\ wpc = [w \in Writers |-> "idle"]
    /\ irq_bm = [w \in Writers |-> {}] /\ rest = [w \in Writers |-> {}]
    /\ i = [w \in Writers |-> 0]
    /\ own = [w \in Writers |-> FALSE] /\ began = [w \in Writers |-> FALSE]

-----------------------------------------------------------------------------
(* irqsim_init() *)

\* debugfs_create_dir(), whose failure ends it, and the files, each of whose
\* failures is ignored.
CreateFiles ==
    /\ pc = "debugfs"
    /\ \/ pc' = "gone" /\ UNCHANGED file
       \/ pc' = "fwnode" /\ file' \in SUBSET Files
    /\ UNCHANGED <<hwirq, fwnode, irqd, mapped, handlers, mapFailed, write_count, writerVars>>

\* Fault: a plain return leaves the files behind.
CreateFwnodeReturns ==
    /\ pc = "fwnode"
    /\ \/ pc' = "gone" /\ UNCHANGED fwnode
       \/ pc' = "domain" /\ fwnode' = TRUE
    /\ UNCHANGED <<hwirq, file, irqd, mapped, handlers, mapFailed, write_count, writerVars>>

CreateFwnode ==
    /\ pc = "fwnode"
    /\ \/ pc' = "remove_files" /\ UNCHANGED fwnode
       \/ pc' = "domain" /\ fwnode' = TRUE
    /\ UNCHANGED <<hwirq, file, irqd, mapped, handlers, mapFailed, write_count, writerVars>>

CreateDomain ==
    /\ pc = "domain"
    /\ \/ pc' = "err_fwnode" /\ irqd' = "err"
       \/ pc' = "map" /\ irqd' = "valid"
    /\ UNCHANGED <<hwirq, file, fwnode, mapped, handlers, mapFailed, write_count, writerVars>>

\* irq_create_mapping(): its failure goes to err_irqd, past the loop that would
\* free the irqs set up before.
MapIrq ==
    /\ pc = "map"
    /\ \/ pc' = "err_irqd" /\ mapFailed' = TRUE /\ UNCHANGED mapped
       \/ pc' = "request" /\ mapped' = mapped \cup {hwirq} /\ UNCHANGED mapFailed
    /\ UNCHANGED <<hwirq, file, fwnode, irqd, handlers, write_count, writerVars>>

\* Fault: the loop is one short.
RequestIrqOneShort ==
    /\ pc = "request"
    /\ \/ /\ pc' = "unwind" /\ mapped' = mapped \ {hwirq} /\ UNCHANGED <<hwirq, handlers>>
       \/ /\ handlers' = handlers \cup {hwirq} /\ hwirq' = hwirq + 1
          /\ pc' = IF hwirq + 2 < N THEN "map" ELSE "live"
          /\ UNCHANGED mapped
    /\ UNCHANGED <<file, fwnode, irqd, mapFailed, write_count, writerVars>>

\* request_irq(): its failure disposes of the mapping just made and unwinds.
RequestIrq ==
    /\ pc = "request"
    /\ \/ /\ pc' = "unwind" /\ mapped' = mapped \ {hwirq} /\ UNCHANGED <<hwirq, handlers>>
       \/ /\ handlers' = handlers \cup {hwirq} /\ hwirq' = hwirq + 1
          /\ pc' = IF hwirq + 1 < N THEN "map" ELSE "live"
          /\ UNCHANGED mapped
    /\ UNCHANGED <<file, fwnode, irqd, mapFailed, write_count, writerVars>>

\* Fault: `hwirq > 1`.
UnwindFreeStopsEarly ==
    /\ pc = "unwind"
    /\ IF hwirq <= 1
       THEN pc' = "err_irqd" /\ UNCHANGED handlers
       ELSE pc' = "unwind_dispose" /\ handlers' = handlers \ {hwirq - 1}
    /\ UNCHANGED <<hwirq, file, fwnode, irqd, mapped, mapFailed, write_count, writerVars>>

\* err_mapping: free_irq() of the last irq set up, then its mapping.
UnwindFree ==
    /\ pc = "unwind"
    /\ IF hwirq = 0
       THEN pc' = "err_irqd" /\ UNCHANGED handlers
       ELSE pc' = "unwind_dispose" /\ handlers' = handlers \ {hwirq - 1}
    /\ UNCHANGED <<hwirq, file, fwnode, irqd, mapped, mapFailed, write_count, writerVars>>

UnwindDispose ==
    /\ pc = "unwind_dispose"
    /\ mapped' = mapped \ {hwirq - 1} /\ hwirq' = hwirq - 1
    /\ pc' = "unwind"
    /\ UNCHANGED <<file, fwnode, irqd, handlers, mapFailed, write_count, writerVars>>

-----------------------------------------------------------------------------
(* irqsim_exit(), whose end has the same calls as err_irqd and what follows. *)

StartExit ==
    /\ pc = "live"
    /\ pc' = "free" /\ hwirq' = 0
    /\ UNCHANGED <<file, fwnode, irqd, mapped, handlers, mapFailed, write_count, writerVars>>

FreeIrq ==
    /\ pc = "free"
    /\ IF hwirq = N
       THEN pc' = "remove" /\ UNCHANGED handlers
       ELSE pc' = "dispose" /\ handlers' = handlers \ {hwirq}
    /\ UNCHANGED <<hwirq, file, fwnode, irqd, mapped, mapFailed, write_count, writerVars>>

Dispose ==
    /\ pc = "dispose"
    /\ mapped' = mapped \ {hwirq} /\ hwirq' = hwirq + 1
    /\ pc' = "free"
    /\ UNCHANGED <<file, fwnode, irqd, handlers, mapFailed, write_count, writerVars>>

\* irq_domain_remove_sim()
RemoveDomain ==
    /\ pc \in {"err_irqd", "remove"}
    /\ irqd' = "freed"
    /\ pc' = IF pc = "err_irqd" THEN "err_fwnode" ELSE "remove_fwnode"
    /\ UNCHANGED <<hwirq, file, fwnode, mapped, handlers, mapFailed, write_count, writerVars>>

RemoveFwnode ==
    /\ pc \in {"err_fwnode", "remove_fwnode"}
    /\ fwnode' = FALSE
    /\ pc' = "remove_files"
    /\ UNCHANGED <<hwirq, file, irqd, mapped, handlers, mapFailed, write_count, writerVars>>

\* debugfs_remove() takes the files away and waits for the calls under way.
RemoveFiles ==
    /\ pc = "remove_files"
    /\ file' = {}
    /\ pc' = "wait"
    /\ UNCHANGED <<hwirq, fwnode, irqd, mapped, handlers, mapFailed, write_count, writerVars>>

FilesRemoved ==
    /\ pc = "wait" /\ \A w \in Writers : wpc[w] = "idle"
    /\ pc' = "gone"
    /\ UNCHANGED <<hwirq, file, fwnode, irqd, mapped, handlers, mapFailed, write_count, writerVars>>

-----------------------------------------------------------------------------
(* The users of the debugfs files. *)

SetWriteCount(n) ==
    /\ "write_count" \in file
    /\ write_count' = n
    /\ UNCHANGED <<modVars, writerVars>>

\* gen_irq_write() with a list it can parse; one it cannot has no effect, nor
\* has a call while write_count is 0.
BeginWrite(w, bm) ==
    /\ "gen_irq" \in file /\ wpc[w] = "idle" /\ write_count > 0
    /\ wpc' = [wpc EXCEPT ![w] = "find"]
    /\ irq_bm' = [irq_bm EXCEPT ![w] = bm] /\ rest' = [rest EXCEPT ![w] = bm]
    /\ began' = [began EXCEPT ![w] = (pc = "live")]
    /\ UNCHANGED <<modVars, write_count, i, own>>

\* gen_irq_write() returns; its variables are gone.
Return(w) ==
    /\ wpc' = [wpc EXCEPT ![w] = "idle"]
    /\ irq_bm' = [irq_bm EXCEPT ![w] = {}] /\ rest' = [rest EXCEPT ![w] = {}]
    /\ i' = [i EXCEPT ![w] = 0]
    /\ own' = [own EXCEPT ![w] = FALSE] /\ began' = [began EXCEPT ![w] = FALSE]

\* The next set bit of irq_bm.
NextIrq(w) == CHOOSE h \in rest[w] : \A k \in rest[w] : h <= k

\* The kernel kills the writer inside the call; it keeps its hold on the file.
Oops(w) == wpc' = [wpc EXCEPT ![w] = "oops"] /\ UNCHANGED <<irq_bm, rest, i, own, began>>

\* irq_find_mapping() of the next hwirq; without a mapping the call returns.
FindMapping(w) ==
    /\ wpc[w] = "find" /\ rest[w] # {}
    /\ \/ /\ irqd # "err" /\ (irqd = "valid" => NextIrq(w) \in mapped)
          /\ wpc' = [wpc EXCEPT ![w] = "raise"]
          /\ own' = [own EXCEPT ![w] = (irqd # "null")]
          /\ UNCHANGED <<irq_bm, rest, i, began>>
       \/ /\ irqd # "err" /\ (irqd = "valid" => NextIrq(w) \notin mapped)
          /\ Return(w)
       \/ irqd \in {"err", "freed"} /\ Oops(w)
    /\ UNCHANGED <<modVars, write_count>>

\* irq_set_irqchip_state(), by the number found before; with a mapping that was
\* left in a removed domain it works on what that domain freed.
Raise(w) ==
    /\ wpc[w] = "raise"
    /\ \/ /\ rest' = [rest EXCEPT ![w] = @ \ {NextIrq(w)}]
          /\ wpc' = [wpc EXCEPT ![w] = "find"]
          /\ own' = [own EXCEPT ![w] = FALSE]
          /\ UNCHANGED <<irq_bm, i, began>>
       \/ irqd = "freed" /\ own[w] /\ NextIrq(w) \in mapped /\ Oops(w)
    /\ UNCHANGED <<modVars, write_count>>

\* Fault: the round is not counted.
EndRoundUncounted(w) ==
    /\ wpc[w] = "find" /\ rest[w] = {}
    /\ IF i[w] < write_count
       THEN /\ rest' = [rest EXCEPT ![w] = irq_bm[w]]
            /\ UNCHANGED <<wpc, irq_bm, i, own, began>>
       ELSE Return(w)
    /\ UNCHANGED <<modVars, write_count>>

\* The end of a round; write_count is read anew.
EndRound(w) ==
    /\ wpc[w] = "find" /\ rest[w] = {}
    /\ IF i[w] + 1 < write_count
       THEN /\ i' = [i EXCEPT ![w] = @ + 1]
            /\ rest' = [rest EXCEPT ![w] = irq_bm[w]]
            /\ UNCHANGED <<wpc, irq_bm, own, began>>
       ELSE Return(w)
    /\ UNCHANGED <<modVars, write_count>>

-----------------------------------------------------------------------------
InitStep == CreateFiles \/ CreateFwnode \/ CreateDomain \/ MapIrq \/ RequestIrq
            \/ UnwindFree \/ UnwindDispose
LeaveStep == FreeIrq \/ Dispose \/ RemoveDomain \/ RemoveFwnode \/ RemoveFiles \/ FilesRemoved
WriteStep(w) == FindMapping(w) \/ Raise(w) \/ EndRound(w)
Finished ==
    /\ pc = "gone" \/ (pc = "wait" /\ \E w \in Writers : wpc[w] = "oops")
    /\ UNCHANGED vars

Next ==
    \/ InitStep \/ StartExit \/ LeaveStep \/ Finished
    \/ \E n \in 0..MaxCount : SetWriteCount(n)
    \/ \E w \in Writers : WriteStep(w) \/ \E bm \in SUBSET Irqs : BeginWrite(w, bm)

Spec == Init /\ [][Next]_vars

\* Fairness: the kernel runs the module's functions and the calls under way;
\* nobody has to unload the module or to write.
FairSpec ==
    /\ Spec
    /\ WF_vars(InitStep) /\ WF_vars(LeaveStep)
    /\ \A w \in Writers : WF_vars(WriteStep(w))

-----------------------------------------------------------------------------
(* Properties. *)

\* While the module is up, gen_irq_write() is never cut short by a missing
\* mapping, and a call that began on the module when it was up raises only its
\* own irqs with their handlers in place.  (A call from before, when irqd was
\* NULL, may still have another domain's irq in hand.)
LiveWritesAreWhole ==
    pc = "live" => \A w \in Writers : wpc[w] # "idle" =>
        /\ irqd = "valid" /\ rest[w] \subseteq mapped \cap handlers
        /\ began[w] /\ wpc[w] = "raise" => own[w]

\* The domain is removed after the last mapping and handler, in irqsim_exit()
\* and when request_irq() fails at any hwirq.  Only a failing
\* irq_create_mapping() leaves those set up before it behind.
UnwoundBeforeRemoval ==
    irqd = "freed" /\ ~mapFailed => mapped = {} /\ handlers = {}

\* What irqsim leaves when irqsim_exit() has returned or any step of
\* irqsim_init() has failed: no file, no node, no domain, nobody in
\* gen_irq_write(), and no mapping and no irq_han() requested, except after a
\* failing irq_create_mapping(), which leaves exactly those of the hwirqs before it.
LeftWhenGone ==
    pc = "gone" =>
        /\ file = {} /\ ~fwnode /\ irqd # "valid"
        /\ \A w \in Writers : wpc[w] = "idle"
        /\ mapped = handlers /\ handlers = IF mapFailed THEN {h \in Irqs : h < hwirq} ELSE {}

\* Unloading, and unwinding, come to an end although new writes begin and
\* write_count changes all the time, unless a write was killed on the domain
\* that was gone or never there: nothing else keeps debugfs_remove() waiting.
UnloadFinishes ==
    (pc \in Leaving) ~> (pc = "gone" \/ \E w \in Writers : wpc[w] = "oops")

=============================================================================
