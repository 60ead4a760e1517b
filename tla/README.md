# Verification of collected_sources

The repository is a collection of small, independent programs: kernel and tty
stress tests, servers, firmware, kernel modules, samples.  There is no common
core; the programs share a few headers (`Holder.h`, `tty/process.h`) and the
habit of racing processes, threads, devices and signals against each other.
This project models the programs in which such races, partial failures or
protocols decide whether the program is right, each in a module of its own, and
checks them with TLC and TLAPS.

## Inventory

| Component | State it keeps | Operations and partners | Hard behaviour | What makes it correct |
|---|---|---|---|---|
| `mutex_pi/mutex_pi.c` | loop counters of each child, the shared robust mutex, the parent's wait count | timedlock/consistent/unlock against the other children; fork/wait/destroy | owner killed anywhere, time-outs, failing forks | mutual exclusion, repair before use, destruction after the last user |
| `cond_wait.c` | mutex, two condition variables, one character | main hands characters to a thread, then cancels and joins it | waits without predicate, lost and spurious wake-ups, cancellation with the mutex held | each character once and in order; where it may hang |
| `kfifo-test/kfifo-test.c` | pattern offset, expected digit, error count | writer and reader process around a device FIFO | partial reads and writes, lost bytes, time-outs | no false alarm, every loss reported once, both ends stop |
| `tty/process.h`, `tty/pty_multiwrite.c` | child count, open ends of a pty, threads per child | fork/thread/join/reap harness; ioctls on the slave, reads of the master | blocking read, reaping in two places, failing forks | the count is right, nobody writes once reading has ended, no orphan runs on |
| `Holder.h` (used by `pthread/pthread.cpp`, `fork_vfork.cpp`) | value and validity per object | construct, move, assign, set, release, destruct | stale copies of recycled values | one owner, destroyed once |
| `remote_tuner.c` | connection, stream, `tzap_pid`, `pollfd[]` | poll loop between a peer, the tzap process and the DVB device | stale poll results, pid reuse, death of tzap | own child only, silent when idle, closing noticed |
| `LGAP/lgap.c` | query frame, receive buffer, `set` | query/answer turns over a serial line | lost, cut, garbled answers; signed/unsigned length test | consistent frames, no made-up settings |
| `modules/irqsim` | domain, mappings, handlers, debugfs files | module init/exit against concurrent writers | partial set-up, unwinding, writers in every window | whole writes, full unwinding, a known rest, unloading ends |
| `dmx512/main.c` | value and direction of the fade, `killed`, speed of the line | frames written to a serial driver, settings saved and restored | signals in any call, short and refused writes, speed changes with characters queued | frames keep order and speed, the line is given back, a signal ends the program |
| `avr/i2c/i2c.c` | `last_data`, the registers of the two-wire interface | interrupt handler against any master | clock held down until the handler answers, TWEA lost, bus errors, repeated starts | always answers, reads count up, the clock is released |
| `piskvor.c` | board, last stone, whose turn | five-in-a-row test around the last stone | edges of the board, reads past them | no five unnoticed, a win is a five |
| `jobclient`, `Stopky`, `avr/temp`, `avr/timer-leds` | tokens; a flag; a counter | make jobserver pipe; buttons; timer interrupt | one race each | not modelled |
| `server`, `server.c`, `server1.c`, `inet-mini` | connections | sockets, alarm handler | little | not modelled |
| `diasel`, `ir`, `vrecko_ff`, `git_renames` | display, decoder, effects, database | parallel port, modem line, joystick, history | see "Not modelled" | not modelled |

Every other source file (boot code, parsers' grammars, graphics and sound samples,
floating-point programs, device, library and language samples, single-system-call
samples, vendored utilities) is listed in `PROJECT.json` under `components` with the reason it is left out.
`hazards` lists what is hard to test, at its line, with the properties meant to
catch it.

## Modules

Each component module has its state as variables (named after the program's
own where it has them), one action per step between two points where another
process, thread or device can interfere, and its properties at the end.
Definitions that begin with "Fault:" in their comment are plausible bugs of the
definition that follows; they are not part of `Next` and show that the
properties can fail.

`RemoteTuner`, `PtyMultiwrite`, `Lgap` and `Piskvor` name their specification,
next-state relation and type invariant after themselves (`TunerSpec`, `PtyNext`,
`LgapTypeOK`, ...), so that one proof module can extend all four; the others
call them `Spec`, `Next` and `TypeOK`.

* **MutexPi.tla** — `child()` is `TimedLock` (one turn of the retry loop with all
  its results), `MakeConsistent`, `Unlock`; `main()` is `Fork`/`ForkFails`,
  `WaitStep`, `Destroy`.  `TimedLockResult` and `Kill` are glibc and the kernel:
  the result codes the program distinguishes and the robust list.  Sleeping is
  left out: a time-out is an answer of `timedlock` while somebody else owns the
  mutex.
* **CondWait.tla** — a character is its position in the input.  `ThrStart` to
  `ThrSleep` are the thread's loop cut at the waits; `ThrCanceled*` are the
  cancellation points of deferred cancellation (there is no clean-up handler,
  so the thread dies with the mutex).
* **KfifoTest.tla** — `Write` and `Read` choose how many bytes go through;
  `DumpByte` is one turn of `dump()`.  The device is external: a bounded FIFO
  that may lose bytes (`LoseByte`).
* **PtyMultiwrite.tla** — who holds which end of the pty is the state that
  matters.  `run_parallel()`, its threads, hooks and `wait_for_parallel()` come
  from `process.h`, `read_master()` and the callbacks from `pty_multiwrite.c`.
  A child closes the slave in `Joined` and ends in `ChildExits`, so that the parent
  can wait for one that no longer has the pty.  The call site compiled out with
  `if (0)`, the statistics and the delays are left out.
* **Holder.tla** — every member function of `Holder<T, Destroy>` with an
  arbitrary client in one process; `foreign` records a `Destroy` on something not
  owned.  The copies of live holders that `fork()` makes in a child
  (`pthread.cpp`, `fork_vfork.cpp`) are outside the model.
* **Ownership.tla** — the abstract specification of what a holder promises: a
  resource belongs to nobody, to the client or to one holder; it changes hands as
  a whole, and a holder that gets a new one gives its old one back.  It knows
  nothing of values and validity.  `Abstract` in `Holder` maps the owner of a
  resource to the valid object that holds its value; `ImplementsOwnership` says that
  every member function is a step of the abstract specification or a stutter.
* **RemoteTuner.tla** — one action per section of the `handle_conn()` loop (poll,
  reap, hang-up, connection, stream); peer, stream, tzap and the reuse of process
  identifiers are the environment.  `CopyOrBlock` may stay in a `write()` to a peer
  that does not read.  Two variables record what the properties speak of: the tzaps
  whose identifier was overwritten (`forgotten`), and whether this turn of the loop
  replaced the descriptor of the stream (`replaced`).
* **Lgap.tla** — options, then turns of `Write` and `Read`/`Merge`.  A frame is
  cut down to one setting the options change, one they do not, the EXE bit and
  the checksum; the arithmetic modulo the byte size is kept.
* **Irqsim.tla** — every statement of `irqsim_init()` and `irqsim_exit()` that
  writers can observe is an action, `gen_irq_write()` is cut between
  `irq_find_mapping()` and `irq_set_irqchip_state()`.  `irq_han()` and `verbose`
  only log.  A write that meets an error pointer for a domain is killed (`Oops`), one
  that meets a freed domain may be, and a killed write keeps `debugfs_remove()`
  waiting.
* **Dmx512.tla** — `pc` is the call `main()` or `send_dmx512()` makes next.
  `SetTermios2` (TCSETSW2, waits) and `CheckSetting` (TCSETS2, does not) change the
  speed; `Send` is a non-blocking `write()` that may be short or refused; `Sig` sets
  the flag and may make the call it hits fail.  The driver's queue is external:
  `Transmit` puts its head on the wire at the speed then in force.
* **TwiSlave.tla** — `Handler` is the whole interrupt handler; after each event the
  interface holds the clock (`twint`) until the handler has written TWCR.  The
  master and the interface are external and may do whatever the bus allows, also
  between `Setup` and `Sei`.
* **Piskvor.tla** — a cell is its place in the memory of the board, so that a
  column or a row too many is what the code reads there: the next row, or the foreign
  memory, which `Memory` gives for each place.  **MCPiskvor** has the boards and three
  such memories.
* **MutexPiProofs, CondWaitProofs, KfifoTestProofs, HolderProofs, IrqsimProofs,
  Dmx512Proofs, TwiSlaveProofs** — the theorems about the module of the same name.
  **ProgramProofs** has those about `RemoteTuner`, `PtyMultiwrite`, `Lgap` and
  `Piskvor`, in four parts that share no state.  **MCHolder** adds the symmetry set for TLC.

## Runs

| Run | Instance | Shows |
|---|---|---|
| mutexpi | 3 children, 2 rounds, 2 time-outs, 2 kills | safety of the mutex protocol, the mutex is destroyed unused, the parent ends |
| condwait | 4 characters, 3 spurious wake-ups | the only hang is the one before the first print; in-order hand-over; a thread that waits in time serves all the input |
| kfifo | 16-byte device, 2 lost bytes | no false alarm, no unnoticed loss |
| kfifo_limit | 8-byte device, 4 lost bytes | one report per loss, also at the limit of reports, both processes stop |
| pty | 4 children in 2 groups, 2 threads each, 2-byte buffer | count of children, last writer gone when reading ends, orphans stop, termination if loops end |
| holder | 4 objects, 3 values, symmetry on objects | one owner, no foreign destroy, implements Ownership |
| remote_tuner | 3 pids, 2 connections, 2 requests | own child only, only forgotten tzaps run on when idle, blocking only in the turn of a retune, closing noticed |
| lgap | bytes modulo 4, 3 turns | consistent frames, reported settings, merged changes sent, commands not revived |
| irqsim | 2 irqs, 2 writers, up to 2 rounds | whole writes on a live module, unwinding, what is left, unloading ends unless a write was killed |
| dmx512 | 12 first values, 3 channels, 3 signals | frames in order and at their speed, the line given back, a signal ends, the fade turns for ever |
| i2c | bytes modulo 16, 3 bus errors | never deaf, reads count up, the clock is released |
| piskvor | 8 boards of 5x5 and 18x14, foreign memory with none, one or both players' stones | no five missed, wins away from the edges are fives |

Why the bounds are enough: two kills allow a death during a repair; three
children allow a waiter beside two contenders.  Two spurious wake-ups can hit
both sides of the hand-shake in one round, the third a later one.  16 bytes give
reads of more than one byte and a pattern that wraps inside a decade's second
half; four losses reach the limit (`ERRORS` is 2, the fourth report ends the
reader).  Two groups of two children are the smallest in which one group is
partly reaped while the other is counted.  Four holders hold a chain of two moves
beside an unrelated owner.  Three identifiers let two tzaps and a foreign process
coexist.  Three turns are merge, command, withdrawal.  Two irqs give every loop
of irqsim a first and a last turn; the theorems cover any number.  The first
values of the fade lie around both ends, within each remainder of the step, and
above the top; three signals allow one in the loop, one while cleaning up and one
more; three channels give a short write of one and of two.  Sixteen byte values
wrap `last_data` and tell the count apart from what three bus errors can skip.
On each board nine cells get stones: a line in one of the four directions, along
an edge of the smallest board a line fits on or in the middle of a larger one,
and four cells for the other player; the order of the stones is free, so that
each stone of the line is once the last.

`TypeOK` of each module documents its state.  It is not among the properties of
the runs, which are kept for what could go wrong; it is proved where the proofs
need it.

`CHECK_DEADLOCK FALSE` is set where the program really may stop for good:
`cond_wait.c` (the hang that `HangsOnlyAtStart` describes), `remote_tuner.c`
(it exits, or has used up the bounded connections) and `piskvor.c` (the game ends).

### Fairness

Weak fairness of a process or thread means that the scheduler keeps running it.
Beyond that:

* `MutexPi`: a child is assumed to get an answer from `timedlock`, never to win.
* `CondWait`: the input ends, and a waiter for the mutex gets it when it is free
  (the thread gives it up only in its waits).
* `KfifoTest`: a `poll()` with nothing to report times out, as its time-out
  argument says; no call is assumed to fail.
* `PtyMultiwrite`: an ioctl on a hung-up pty is made (and fails).  That a thread
  finishes its ten million loops is not assumed; it is the hypothesis `LoopsEnd`
  of `Terminates` only.
* `RemoteTuner`: `poll()` returns (it has a time-out), some process identifier
  becomes free when one is needed, and a `write()` to a peer that is gone ends.  A
  living peer need not read.
* `Irqsim`: running kernel code goes on, unless it was killed; nobody has to write
  or to unload.
* `Dmx512`: the program runs, and the driver sends what it was given.  The second is
  an assumption on the line, not a fact of the code: CLOCAL is set, but CRTSCTS and
  IXON are whatever `setup()` found, so that a device that holds up the sender could
  hold up `TCSETSW2`, too.
* `TwiSlave`: `main()` reaches its loop and a pending interrupt is taken once
  interrupts are on; the master need not do anything.

## Theorems

Every invariant and every action property of the runs is proved for all values of
the constants, which only the named assumptions restrict (finite sets of children,
positive sizes, the boards `main()` of `piskvor.c` accepts).  Every theorem but the
refinement and the two about action properties (`CountSafe`, `CommandNotRevivedSafe`)
has the form `Spec => []Inv`; each rests on an inductive invariant of its proof
module, called `Ind` there, or `TunerInd`, `PtyInd`, `LgapInd` and `PiskvorInd` in
`ProgramProofs`.

* **MutexPiProofs** — `MutualExclusion` alone is not inductive: `LockInv` says
  that exactly the child inside the lock is the owner, that an unrepaired mutex has
  its owner in `recover` or none, and that it is never unrecoverable.  From it
  follow `TypeCorrect`, `MutexSafe`, `RepairSafe`, `AbortSafe`.  `DestroySafe`
  needs `WaitInv`, which relates the number of `wait()` calls to the cardinality
  of the reaped children: either every call returned a child, or a call failed
  and then there was none left.
* **CondWaitProofs** — the invariant ties the position of each thread to the
  ownership of the mutex, and the length of the log to the character handed
  over.  `HangSafe`, `HandOverSafe`.
* **KfifoTestProofs** — `LossInv` keeps the account of lost bytes.  The bytes under
  way are those in the read buffer and then those in the device; `Accounted` says
  there is a count, growing along them, of the bytes missing before each, with which
  each byte is the digit the reader should expect there and the writer's offset
  comes last.  Reports and missing bytes together are never more than the bytes lost
  (`OneReportPerLossSafe`, and `NoFalseAlarmSafe` from it), and as long as nothing
  was reported and less than a decade lost, all lost bytes are still missing
  (`LossNoticedSafe`).  The lemmas `AccountedWrite`, `AccountedDump` and
  `AccountedLose` say what a write, a checked byte and a loss do to the count;
  `PrefillWhole` (the pattern is whole decades) is what a wrapping offset needs.
* **HolderProofs** — `OwnInv`: valid holders are alive and own different, held
  values; every held value has a holder.  `OwnerSafe`, `DestroySafe`.
  `Refinement` shows `ImplementsOwnership`: `OwnerLemma` computes the mapped owner
  of each resource from `OwnInv` (a `CHOOSE` over the one valid object that holds
  it), `StepRefines` has one case per member function.
* **IrqsimProofs** — `LoopInv` gives the exact intervals of mapped and requested
  irqs at every statement of set-up, unwinding and exit, `ObjectInv` the other
  objects, `WriterInv` what a writer that began on the live module has found.
  `WritesSafe`, `UnwindSafe`, `LeftSafe`; for the last, `LoopInv` keeps
  the interval a failing `irq_create_mapping()` left to the very end.
* **Dmx512Proofs** — `WellFramed` is not inductive by itself: `PlaceInv` adds, for each
  statement of the loop, the speed in force and the character written last (as long
  as the device is there), and that the driver is empty after each change of speed.
  `MishapInv` counts the signals and refused writes it takes to reach the cleaning
  up and to fail in it.  `FrameSafe`, `RestoreSafe`, `TypeCorrect`.
* **TwiSlaveProofs** — `AckInv`: TWEA is set, so that SR_DATA_NACK never comes, so that
  TWEA stays set.  `CountInv` says how far `last_data` is ahead of the byte the master
  knows, depending on the event the handler has still to answer; the distance is
  stated with a quotient instead of a remainder.  `DeafSafe`, `TypeCorrect`, and
  `CountSafe` for the action property `ReadsCountUp`.

* **ProgramProofs**, remote tuner — `OthersSignalled`: every tzap but the one
  `tzap_pid` names was signalled or forgotten, and that one was signalled as soon as
  its connection is over.  `StreamEvents`: poll results of the
  stream are true until the stream is replaced.  `PidIsOwnChildSafe`,
  `IdleServerIsSilentSafe`, `BlocksOnlyOnRetuneSafe`.
* **ProgramProofs**, pty — `ParentCount`: while it forks the parent has counted
  whole groups only; later its count is the cardinality of the children not reaped.
  `ChildrenHold`: a child has the slave open exactly until its threads are joined, and
  `AllEnded`: so the end of the reads means that nobody has it and, unless all are
  reaped, that nothing is left to read.  `ProcsCountsChildrenSafe`,
  `LastWriterGoneSafe`.
* **ProgramProofs**, lgap — `BufferIsHeard`: a buffer whose checksum fits is an
  answer of the unit, although the buffer is never cleared; this rests on
  `ChecksumTells` (one changed byte changes the sum) and `ZeroIsBad` (the zeroed
  buffer does not fit).  `ChangeIsTracked` says where the wanted change is: still
  wanted, in the query, or sent.  `TurnsBound`: EXE goes out once per turn.
  `FramesAreConsistentSafe`, `CommandsAreReportedSafe`, `MergedIsSentSafe`,
  `CommandNotRevivedSafe`.
* **ProgramProofs**, piskvor — the two properties are inductive with the types, as
  `isWinner()` looks at nothing but the board; the work is in its arithmetic.
  `OneCell`: two cells of the board never share a place in memory, although a column
  too many is a cell of the next row.  `TurnSeesFive`: a line that was not there
  before goes through the new stone, and `LineIsSeen` finds it in the bounds of each
  loop.  `RowRun`, `ColumnRun` and `DiagonalRun`: away from the edges what a loop
  finds is a line of the player's, since the new stone is one of the five.
  `NoWinMissedSafe`, `WinsAreRealSafe`.

Only model-checked, because fairness is out of the prover's reach, are the liveness
properties: `ParentFinishes`, `WaitingThreadServes`, `BothStop`, `OrphansStop`,
`Terminates`, `CloseIsNoticed`, `UnloadFinishes`, `SignalEnds`, `FadeTurns` and
`ClockReleased`.

## What the properties say about weak spots

Some properties exclude a case, or name it, because the code behaves that way:

* `cond_wait.c` hangs when main broadcasts before the thread waits; spurious
  wake-ups lose or repeat characters.
* `pty_multiwrite.c` does not always read the pty to its end: when `read_master()` has
  reaped the last child itself, it stops with bytes in the buffer.
* `remote_tuner.c` forgets the first tzap on a second request of one connection
  and may block in the turn that replaced the stream, for ever when the new stream
  brings nothing, even if the peer leaves.
* `lgap.c` evaluates answers cut short when at least 8 bytes came.
* `dmx512/main.c` leaves the line changed when the cleaning up is hit by a signal
  after one mishap before, or when the device rounds a speed during set-up.
* `avr/i2c/i2c.c` skips a value for each bus error in the middle of a read.
* `piskvor.c` announces lines that go on in the next row, or in the memory around
  the board, near an edge; hence the margin in `WinsAreReal`: rows 4 to `row - 9`
  and columns 8 to `coll - 9`, as far as its loops reach.
* `irqsim.c` leaves the mappings and handlers of the earlier hwirqs behind when
  `irq_create_mapping()` fails, and has a window at either end in which `gen_irq`
  exists without a usable domain.  A write in that window may find another domain's
  irq (`irqd` is NULL) or be killed (`irqd` is an error pointer or was freed), and
  after that the module cannot be unloaded.

## Not modelled

`PROJECT.json` lists every part with its reason.  The larger ones:

* `diasel/lcd.c` (a stray `else` in `LCD_wr_cgram_all()`) and `atmel/ac.c` do not
  compile, so there is no behaviour to be faithful to.
* `git_renames`: `handleCommit()` returns before it looks at the diff and every
  insert returns before it writes.
* `vrecko_ff`: `Effect::processList()` is a stub, so the set of effects that
  `play()`, `stop()` and `unload()` walk is always empty.
* `ir/ir.c` decodes by durations against its own polling speed.
* `gon.c`, `snd_fft`, `pcm_anal` compute with floating-point numbers.
* The bulk of the repository's lines is data in headers (`pv112/proj/text.h`,
  `pv112/2/karel.h`, `diasel/ascii/ascii.h`), generated parsers (`bison`), copies
  of kernel headers and utilities (`ev/ff-utils`, `ff`), and samples of one or two
  system calls.  They have no state machine; the share of lines the models cover
  is small for this reason.
* Small programs with one hazard (`jobclient`, `Stopky`, `avr/temp`,
  `avr/timer-leds`) are left out because a model of them would restate their loop.

## Plan

1. Proofs of the safety part of the liveness properties: what still has to be
   enabled in each state that waits (for `ClockReleased`, `SignalEnds`,
   `ParentFinishes`), as invariants without fairness.
2. Token accounting of two `jobclient` processes, and the timer interrupts of
   `avr/temp` and `avr/timer-leds`, if a property worth the run is found.
