----------------------------- MODULE KfifoTest -----------------------------
(***************************************************************************)
(* kfifo-test/kfifo-test.c: a stress test of a driver's byte FIFO.  The    *)
(* parent writes the digits 0..9 over and over, in whatever portions the   *)
(* device accepts; the forked child reads them back and compares each with *)
(* the digit it expects, re-synchronising on a mismatch and giving up      *)
(* after too many.  Either side stops when poll() reports nothing for      *)
(* TIMEOUT seconds.                                                        *)
(*                                                                         *)
(* The device (dev, with LoseByte and the failing calls) is external: a    *)
(* FIFO of FifoSize bytes as the program expects it, and the faults it is  *)
(* meant to catch.                                                         *)
(***************************************************************************)
EXTENDS Naturals, Sequences, SequencesExt

CONSTANTS
    FifoSize,   \* what ioctl(fd, 0xfffa) answers
    MaxLost     \* bound: bytes a faulty device loses

ASSUME SizeAssumption == FifoSize \in Nat \ {0} /\ MaxLost \in Nat

ERRORS == 2
Base == 10

\* Fault: the pattern buffer is not rounded up.
PrefillUnrounded == FifoSize

\* roundup(fifo_size, 10): the pattern buffer holds whole decades.
Prefill == ((FifoSize + Base - 1) \div Base) * Base

VARIABLES
    wpc,      \* parent: "fork", "write", "wait", "done", "failed"
    off,      \* do_write(): off
    rpc,      \* child: "unborn", "poll", "dump", "done", "failed"
    buf,      \* do_read(): bytes read and not yet looked at by dump()
    last,     \* dump(): the digit expected next
    errors,   \* dump(): errors
    dev,      \* the device's FIFO
    lost      \* bytes the device lost

writerVars == <<wpc, off>>
readerVars == <<rpc, buf, last, errors>>
vars == <<writerVars, readerVars, dev, lost>>

Gone == {"done", "failed"}

TypeOK ==
    /\ wpc \in {"fork", "write", "wait"} \cup Gone
    /\ off \in 0..Prefill
    /\ rpc \in {"unborn", "poll", "dump"} \cup Gone
    /\ buf \in Seq(0..(Base - 1)) /\ Len(buf) <= FifoSize \div 8
    /\ last \in 0..(Base - 1)
    /\ errors \in 0..(ERRORS + 2)
    /\ dev \in Seq(0..(Base - 1)) /\ Len(dev) <= FifoSize
    /\ lost \in 0..MaxLost

Init ==
    /\ wpc = "fork" /\ off = 0
    /\ rpc = "unborn" /\ buf = <<>> /\ last = 0 /\ errors = 0
    /\ dev = <<>> /\ lost = 0

-----------------------------------------------------------------------------
(* The parent. *)

\* main(): fork(), or err() when it fails.
Fork ==
    /\ wpc = "fork"
    /\ \/ wpc' = "write" /\ rpc' = "poll"
       \/ wpc' = "failed" /\ UNCHANGED rpc
    /\ UNCHANGED <<off, buf, last, errors, dev, lost>>

\* One turn of do_write(): off wraps at the end of the pattern, poll() sees
\* room, and write() takes n bytes of what is left of the pattern.
Write ==
    LET o == IF off = Prefill THEN 0 ELSE off IN
    /\ wpc = "write"
    /\ \E n \in 1..(Prefill - o) :
        /\ Len(dev) + n <= FifoSize
        /\ dev' = dev \o [i \in 1..n |-> (o + i - 1) % Base]
        /\ off' = o + n
    /\ UNCHANGED <<wpc, readerVars, lost>>

\* Fault: poll() without a time-out never gives up.
WriteTimeoutNever ==
    /\ wpc = "write" /\ Len(dev) > FifoSize
    /\ wpc' = "wait"
    /\ UNCHANGED <<off, readerVars, dev, lost>>

\* poll(POLLOUT) times out on a full device; the parent goes on to wait().
WriteTimeout ==
    /\ wpc = "write" /\ Len(dev) = FifoSize
    /\ wpc' = "wait"
    /\ UNCHANGED <<off, readerVars, dev, lost>>

\* A failing poll() or write(), or one that wrote nothing: err() or errx().
WriteFails ==
    /\ wpc = "write"
    /\ wpc' = "failed"
    /\ UNCHANGED <<off, readerVars, dev, lost>>

\* wait(NULL) returns.
Reap ==
    /\ wpc = "wait" /\ rpc \in Gone
    /\ wpc' = "done"
    /\ UNCHANGED <<off, readerVars, dev, lost>>

-----------------------------------------------------------------------------
(* The child. *)

\* One read() of do_read().  A FIFO smaller than 8 bytes makes the buffer
\* empty, read() return 0, and the child exit with "nothing read".
Read ==
    /\ rpc = "poll" /\ dev # <<>>
    /\ IF FifoSize \div 8 = 0
       THEN rpc' = "failed" /\ UNCHANGED <<buf, dev>>
       ELSE \E n \in 1..(FifoSize \div 8) :
                /\ n <= Len(dev)
                /\ buf' = SubSeq(dev, 1, n)
                /\ dev' = SubSeq(dev, n + 1, Len(dev))
                /\ rpc' = "dump"
    /\ UNCHANGED <<last, errors, writerVars, lost>>

\* Fault: a mismatch does not re-synchronise.
DumpByteNoResync ==
    LET wrong == Head(buf) # last IN
    /\ rpc = "dump"
    /\ errors' = IF wrong THEN errors + 1 ELSE errors
    /\ last' = (last + 1) % Base
    /\ buf' = Tail(buf)
    /\ rpc' = IF wrong /\ errors > ERRORS THEN "failed"
              ELSE IF Len(buf) = 1 THEN "poll" ELSE "dump"
    /\ UNCHANGED <<writerVars, dev, lost>>

\* Fault: a mismatch re-synchronises without being counted.
DumpByteUncounted ==
    /\ rpc = "dump"
    /\ last' = (Head(buf) + 1) % Base
    /\ buf' = Tail(buf)
    /\ rpc' = IF Len(buf) = 1 THEN "poll" ELSE "dump"
    /\ UNCHANGED <<errors, writerVars, dev, lost>>

\* dump() looks at one byte: a mismatch is counted, the expectation follows the
\* byte received, and the fourth mismatch ends the child.
DumpByte ==
    LET wrong == Head(buf) # last IN
    /\ rpc = "dump"
    /\ errors' = IF wrong THEN errors + 1 ELSE errors
    /\ last' = (Head(buf) + 1) % Base
    /\ buf' = Tail(buf)
    /\ rpc' = IF wrong /\ errors > ERRORS THEN "failed"
              ELSE IF Len(buf) = 1 THEN "poll" ELSE "dump"
    /\ UNCHANGED <<writerVars, dev, lost>>

\* poll(POLLIN) times out on an empty device: the child is done.
ReadTimeout ==
    /\ rpc = "poll" /\ dev = <<>>
    /\ rpc' = "done"
    /\ UNCHANGED <<buf, last, errors, writerVars, dev, lost>>

\* A failing poll() or read(): err() or errx().
ReadFails ==
    /\ rpc = "poll"
    /\ rpc' = "failed"
    /\ UNCHANGED <<buf, last, errors, writerVars, dev, lost>>

-----------------------------------------------------------------------------
\* The device loses a byte.
LoseByte ==
    /\ lost < MaxLost
    /\ \E i \in 1..Len(dev) : dev' = RemoveAt(dev, i)
    /\ lost' = lost + 1
    /\ UNCHANGED <<writerVars, readerVars>>

WriterStep == Fork \/ Write \/ WriteTimeout \/ Reap
ReaderStep == Read \/ DumpByte \/ ReadTimeout
Finished == wpc \in Gone /\ rpc \in Gone \cup {"unborn"} /\ UNCHANGED vars

Next == WriterStep \/ WriteFails \/ ReaderStep \/ ReadFails \/ LoseByte \/ Finished

Spec == Init /\ [][Next]_vars

\* Fairness: both processes are scheduled and a poll() with nothing to report
\* times out.  No call is assumed to fail.
FairSpec == Spec /\ WF_vars(WriterStep) /\ WF_vars(ReaderStep)

-----------------------------------------------------------------------------
(* Properties. *)

\* A device that loses nothing is never accused: however reads and writes are
\* cut up and the pattern buffer wraps, no mismatch is reported.
NoFalseAlarm == lost = 0 => errors = 0

\* One lost byte costs at most one report, because dump() re-synchronises, also
\* when the loss falls between two chunks: the child does not give up over
\* mismatches on a device that lost fewer bytes than its limit.
OneReportPerLoss == errors <= lost

\* A loss of less than a whole decade is noticed: when reader and writer are in
\* step again and the device is empty, a mismatch has been reported.
LossNoticed ==
    lost \in 1..(Base - 1) /\ dev = <<>> /\ buf = <<>> /\ last = off % Base
        => errors > 0

\* When one of the two processes ends, for whatever reason, the other one runs
\* into its time-out and ends as well.
BothStop ==
    (wpc \in Gone \cup {"wait"} \/ rpc \in Gone)
        ~> (wpc \in Gone /\ rpc \in Gone \cup {"unborn"})

=============================================================================
