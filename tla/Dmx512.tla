------------------------------- MODULE Dmx512 -------------------------------
(***************************************************************************)
(* dmx512/main.c: fades a DMX512 lamp over a serial line.  Each frame is a *)
(* character at 57 kBd, long enough to be the BREAK of DMX512, and a start *)
(* code and the channels at 250 kBd, so the speed changes twice a frame    *)
(* while characters may still be waiting in the driver.  SIGINT and        *)
(* SIGTERM only set a flag, but they make the call they hit fail.          *)
(*                                                                         *)
(* The driver (out, Transmit, Unplug) is external.  The delays, the flags  *)
(* beside the speed and `off', which is only printed, are left out.        *)
(***************************************************************************)
EXTENDS Integers, Sequences

CONSTANTS
    Args,        \* values of argv[2], or 0xff without it
    SeqLen,      \* sizeof(seq)
    MaxSignals   \* bound: signals sent to the program

ASSUME ArgsAssumption == Args \subseteq 0..255
ASSUME BoundsAssumption == SeqLen \in Nat \ {0} /\ MaxSignals \in Nat

Top == 127

VARIABLES
    pc,        \* the call main() makes next, or how it ended
    val, inc,  \* send_dmx512(): val, inc
    killed,    \* killed
    tty,       \* the settings in force: "orig", "t_57" or "t_250"
    out,       \* characters in the driver
    wire,      \* the character last seen on the wire
    plugged,   \* the device is there
    signals,   \* signals sent so far
    full       \* writes refused by a full driver

loopVars == <<val, inc>>
devVars == <<tty, out, wire, plugged>>
vars == <<pc, loopVars, killed, devVars, signals, full>>

Setup == {"start", "open", "check57", "check250"}
Frame == {"set57", "break", "set250", "code", "seq", "step"}
Ended == {"refused", "done", "failed"}
Chars == {"break", "code", "data"}

TypeOK ==
    /\ pc \in Setup \cup Frame \cup {"loop", "clean"} \cup Ended
    /\ val \in 0..255 /\ inc \in {-4, 4} /\ killed \in BOOLEAN
    /\ tty \in {"orig", "t_57", "t_250"}
    /\ out \in Seq(Chars) /\ wire \in Chars \cup {"none"}
    /\ plugged \in BOOLEAN
    /\ signals \in 0..MaxSignals /\ full \in 0..1

Init ==
    /\ pc = "start" /\ val \in Args /\ inc = 4 /\ killed = FALSE
    /\ tty = "orig" /\ out = <<>> /\ wire = "none" /\ plugged = TRUE
    /\ signals = 0 /\ full = 0

Goto(from, to) == pc = from /\ pc' = to

\* Where the program goes when the call at p fails: setup() and main() give up
\* with err(), send_dmx512() leaves its loop.
OnError(p) ==
    CASE p \in Setup -> "refused"
      [] p \in Frame -> "clean"
      [] p = "clean" -> "failed"

-----------------------------------------------------------------------------
SetupSignals == Goto("start", "open") /\ UNCHANGED <<loopVars, killed, devVars, signals, full>>

\* open(), flush() and the TCGETS2 of setup().
Open ==
    /\ pc = "open"
    /\ pc' \in {IF plugged THEN "check57" ELSE "refused", "refused"}
    /\ UNCHANGED <<loopVars, killed, devVars, signals, full>>

\* check_setting(): TCSETS2 does not wait.  A device that rounds the speed is
\* given up, as it is then.
CheckSetting(t, from, to) ==
    /\ pc = from
    /\ \/ plugged /\ tty' = t /\ pc' \in {to, "refused"}
       \/ ~plugged /\ pc' = "refused" /\ UNCHANGED tty
    /\ UNCHANGED <<loopVars, killed, out, wire, plugged, signals, full>>

\* Fault: a signal ends the program from the loop.
LoopReturns ==
    /\ pc = "loop"
    /\ pc' = IF killed THEN "done" ELSE "set57"
    /\ UNCHANGED <<loopVars, killed, devVars, signals, full>>

\* Fault: the loop is entered again whatever the handler did.
LoopForever == Goto("loop", "set57") /\ UNCHANGED <<loopVars, killed, devVars, signals, full>>

\* while (!killed)
Loop ==
    /\ pc = "loop"
    /\ pc' = IF killed THEN "clean" ELSE "set57"
    /\ UNCHANGED <<loopVars, killed, devVars, signals, full>>

\* Fault: TCSETS2 where TCSETSW2 is meant.
SetTermios2NoWait(t, from, to) ==
    /\ pc = from
    /\ pc' = IF plugged THEN to ELSE OnError(from)
    /\ tty' = IF plugged THEN t ELSE tty
    /\ UNCHANGED <<loopVars, killed, out, wire, plugged, signals, full>>

\* TCSETSW2 waits for the driver to send what it has.
SetTermios2(t, from, to) ==
    /\ pc = from /\ (plugged => out = <<>>)
    /\ pc' = IF plugged THEN to ELSE OnError(from)
    /\ tty' = IF plugged THEN t ELSE tty
    /\ UNCHANGED <<loopVars, killed, out, wire, plugged, signals, full>>

\* write() of at most n characters c: the descriptor does not block, so a
\* driver with something left to send may take fewer or none.  Any positive
\* count is a success to send_char() and send_seq().
Send(c, n, from, to) ==
    /\ pc = from
    /\ \/ /\ plugged /\ pc' = to
          /\ \E k \in 1..n : out' = out \o [i \in 1..k |-> c]
          /\ UNCHANGED full
       \/ /\ plugged /\ out # <<>> /\ pc' = OnError(from)
          /\ full' = full + 1
          /\ UNCHANGED out
       \/ ~plugged /\ pc' = OnError(from) /\ UNCHANGED <<out, full>>
    /\ UNCHANGED <<loopVars, killed, tty, wire, plugged, signals>>

\* Fault: the top is not where the fade turns.
StepNoClamp ==
    /\ Goto("step", "loop")
    /\ val' = IF val + inc < 0 THEN 0 ELSE val + inc
    /\ inc' = IF val + inc > Top \/ val + inc < 0 THEN -inc ELSE inc
    /\ UNCHANGED <<killed, devVars, signals, full>>

\* The sleep, which a signal merely cuts short, and the next value.
Step ==
    LET v == val + inc IN
    /\ Goto("step", "loop")
    /\ val' = IF v > Top THEN Top ELSE IF v < 0 THEN 0 ELSE v
    /\ inc' = IF v > Top \/ v < 0 THEN -inc ELSE inc
    /\ UNCHANGED <<killed, devVars, signals, full>>

\* setup(), send_dmx512() and the cleaning up of main().
Program ==
    \/ SetupSignals \/ Open
    \/ CheckSetting("t_57", "check57", "check250")
    \/ CheckSetting("t_250", "check250", "loop")
    \/ Loop
    \/ SetTermios2("t_57", "set57", "break") \/ Send("break", 1, "break", "set250")
    \/ SetTermios2("t_250", "set250", "code") \/ Send("code", 1, "code", "seq")
    \/ Send("data", SeqLen, "seq", "step")
    \/ Step
    \/ SetTermios2("orig", "clean", "done")

\* sig(), installed without SA_RESTART: the call it hits may return EINTR.
\* TCSETS2 and the sleep are not affected, and before setup_signals() the
\* program dies.
Sig ==
    /\ signals < MaxSignals /\ pc \notin Ended
    /\ signals' = signals + 1
    /\ IF pc = "start"
       THEN pc' = "refused" /\ UNCHANGED killed
       ELSE /\ killed' = TRUE
            /\ pc' \in {pc} \cup (IF pc \in {"check57", "check250", "loop", "step"} THEN {}
                                                                   ELSE {OnError(pc)})
    /\ UNCHANGED <<loopVars, devVars, full>>

Transmit ==
    /\ out # <<>>
    /\ wire' = Head(out) /\ out' = Tail(out)
    /\ UNCHANGED <<pc, loopVars, killed, tty, plugged, signals, full>>

Unplug ==
    /\ plugged /\ plugged' = FALSE /\ out' = <<>>
    /\ UNCHANGED <<pc, loopVars, killed, tty, wire, signals, full>>

Finished == pc \in Ended /\ out = <<>> /\ UNCHANGED vars

Next == Program \/ Sig \/ Transmit \/ Unplug \/ Finished

Spec == Init /\ [][Next]_vars

\* Fairness: the program runs on.  That the driver sends what it was given is an
\* assumption on the line: CLOCAL makes modem lines count for nothing, but the flow
\* control flags are those setup() found.
FairSpec == Spec /\ WF_vars(Program) /\ WF_vars(Transmit)

-----------------------------------------------------------------------------
(* Properties. *)

SpeedOf(c) == IF c = "break" THEN "t_57" ELSE "t_250"
Follows(a, b) == <<a, b>> \in {<<"none", "break">>, <<"break", "code">>, <<"code", "data">>,
                               <<"data", "data">>, <<"data", "break">>}

\* What is still to be sent goes out at the speed it was written for and in the
\* order of a DMX512 frame: break, start code, channels.  Short writes, signals
\* in the middle of a frame and the cleaning up do not change that.
WellFramed ==
    LET line == <<wire>> \o out IN
    /\ \A i \in 1..Len(out) : SpeedOf(out[i]) = tty
    /\ \A i \in 1..Len(out) : Follows(line[i], line[i + 1])

\* Once set up, the program gives the line back with its original settings; with
\* the device in place it takes two mishaps to prevent that, a signal or a
\* refused write to leave the loop and a signal while cleaning up.
TakesTwoMishaps ==
    pc \in {"done", "failed"} /\ plugged /\ signals + full < 2 => tty = "orig"

\* A caught signal ends the program, whatever call or sleep it hits.
SignalEnds == killed ~> pc \in Ended

\* Unless the program ends, the lamp goes fully on and fully off for ever,
\* whatever the first value was, also one above the top.
FadeTurns == <>(pc \in Ended) \/ ([]<>(val = 0) /\ []<>(val = Top))

=============================================================================
