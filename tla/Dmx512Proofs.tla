---------------------------- MODULE Dmx512Proofs ----------------------------
(***************************************************************************)
(* Safety of dmx512/main.c for any first value, number of channels and     *)
(* number of signals.                                                      *)
(***************************************************************************)
EXTENDS Dmx512, SequenceTheorems, TLAPS

\* What it took to get where main() is.
MishapInv ==
    /\ pc \in Setup \cup Frame \cup {"loop"} => full = 0
    /\ killed => signals >= 1
    /\ plugged /\ pc = "clean" => signals + full >= 1
    /\ plugged /\ pc = "failed" => signals + full >= 2
    /\ plugged /\ pc = "done" => tty = "orig"

\* The character before the i-th in the driver, and the one written last.
Prev(i) == IF i = 1 THEN wire ELSE out[i - 1]
Newest == IF out = <<>> THEN wire ELSE out[Len(out)]

Framed == \A i \in 1..Len(out) : SpeedOf(out[i]) = tty /\ Follows(Prev(i), out[i])

\* The statement main() is at tells the speed and what was written last, which
\* matters as long as the device is there.
PlaceInv ==
    /\ pc \in Setup => out = <<>> /\ wire = "none"
    /\ pc \in {"break", "code", "done"} => out = <<>>
    /\ pc \in {"break", "set250"} => tty = "t_57"
    /\ pc \in {"code", "seq", "step"} => tty = "t_250"
    /\ plugged /\ pc \in {"loop", "set57", "break"} => Newest \in {"none", "data"}
    /\ plugged /\ pc \in {"set250", "code"} => Newest = "break"
    /\ plugged /\ pc = "seq" => Newest = "code"
    /\ plugged /\ pc = "step" => Newest = "data"

Ind == TypeOK /\ MishapInv /\ Framed /\ PlaceInv

\* Writing k times the character c.
LEMMA AppendLemma ==
    ASSUME NEW s \in Seq(Chars), NEW c \in Chars, NEW k \in Nat
    PROVE  LET t == s \o [i \in 1..k |-> c]
           IN  /\ t \in Seq(Chars) /\ Len(t) = Len(s) + k
               /\ \A i \in 1..(Len(s) + k) : t[i] = IF i <= Len(s) THEN s[i] ELSE c
<1> DEFINE u == [i \in 1..k |-> c]
<1>1. u \in Seq(Chars) /\ Len(u) = k
  BY IsASeq
<1>2. \A i \in 1..k : u[i] = c
  OBVIOUS
<1> HIDE DEF u
<1>3. s \o u \in Seq(Chars) /\ Len(s \o u) = Len(s) + k
  BY <1>1
<1>4. \A i \in 1..(Len(s) + k) : (s \o u)[i] = IF i <= Len(s) THEN s[i] ELSE c
  BY <1>1, <1>2
<1> QED
  BY <1>3, <1>4 DEF u

\* The driver sends its first character.
LEMMA TailLemma ==
    ASSUME NEW s \in Seq(Chars), s # <<>>
    PROVE  /\ Head(s) = s[1] /\ Head(s) \in Chars /\ Tail(s) \in Seq(Chars)
           /\ Len(Tail(s)) = Len(s) - 1
           /\ \A i \in 1..(Len(s) - 1) : Tail(s)[i] = s[i + 1]
           /\ Len(s) \in Nat \ {0}
           /\ Tail(s) = <<>> => Len(s) = 1
           /\ Tail(s) # <<>> => Len(s) > 1
<1>1. Len(s) \in Nat /\ Len(s) # 0
  BY EmptySeq
<1>5. Head(s) = s[1]
  OBVIOUS
<1>2. Head(s) \in Chars /\ Tail(s) \in Seq(Chars) /\ Len(Tail(s)) = Len(s) - 1
      /\ \A i \in 1..Len(Tail(s)) : Tail(s)[i] = s[i + 1]
  BY HeadTailProperties
<1>3. Tail(s) = <<>> => Len(Tail(s)) = 0
  BY EmptySeq, Zenon
<1>4. Tail(s) # <<>> => Len(Tail(s)) > 0
  BY <1>2
<1> QED
  BY <1>1, <1>2, <1>3, <1>4, <1>5

\* Framed and WellFramed say the same.
LEMMA FramedLemma == TypeOK /\ Framed => WellFramed
<1> SUFFICES ASSUME TypeOK, Framed PROVE WellFramed
  OBVIOUS
<1> DEFINE line == <<wire>> \o out
<1>1. out \in Seq(Chars) /\ wire \in Chars \cup {"none"}
  BY DEF TypeOK
<1>2. \A i \in 1..Len(out) : line[i + 1] = out[i] /\ line[i] = Prev(i)
  BY <1>1 DEF Prev
<1> QED
  BY <1>2 DEF Framed, WellFramed

\* The program just started satisfies Ind.
LEMMA InitInd == Init => Ind
<1> SUFFICES ASSUME Init PROVE Ind
  OBVIOUS
<1>1. killed \in BOOLEAN /\ plugged \in BOOLEAN
  BY Zenon DEF Init
<1>2. out \in Seq(Chars)
  BY DEF Init
<1>3. TypeOK
  BY <1>1, <1>2, ArgsAssumption, BoundsAssumption DEF Init, TypeOK, Setup
<1>4. MishapInv /\ Framed /\ PlaceInv
  BY DEF Init, MishapInv, Framed, PlaceInv, Setup, Frame
<1> QED
  BY <1>3, <1>4 DEF Ind

\* A step that leaves the driver and the line alone keeps what is in it.
LEMMA DriverKept ==
    ASSUME TypeOK, UNCHANGED <<tty, out, wire>>
    PROVE  Framed' = Framed /\ Newest' = Newest
BY DEF Framed, Prev, Newest

\* What a successful write leaves in the driver.
LEMMA SendFramed ==
    ASSUME TypeOK, Framed, NEW c \in Chars, NEW k \in Nat \ {0},
           out' = out \o [i \in 1..k |-> c], UNCHANGED <<tty, wire>>,
           SpeedOf(c) = tty, Follows(Newest, c), k > 1 => Follows(c, c)
    PROVE  Framed' /\ Newest' = c /\ out' \in Seq(Chars)
<1>1. out \in Seq(Chars) /\ Len(out) \in Nat
  BY DEF TypeOK
<1>2. /\ out' \in Seq(Chars) /\ Len(out') = Len(out) + k
      /\ \A i \in 1..(Len(out) + k) : out'[i] = IF i <= Len(out) THEN out[i] ELSE c
  BY <1>1, AppendLemma
<1>3. Newest' = c
  <2>1. Len(out') # 0 /\ Len(<<>>) = 0
    BY <1>1, <1>2
  <2>2. out' # <<>>
    BY <2>1
  <2>3. out'[Len(out')] = c
    BY <1>1, <1>2
  <2> QED
    BY <2>2, <2>3 DEF Newest
<1>4. ASSUME NEW i \in 1..(Len(out) + k)
      PROVE  SpeedOf(out'[i]) = tty' /\ Follows(Prev(i)', out'[i])
  <2>1. CASE i <= Len(out)
    <3>1. out'[i] = out[i] /\ Prev(i)' = Prev(i)
      BY <1>1, <1>2, <2>1 DEF Prev
    <3> QED
      BY <2>1, <3>1 DEF Framed
  <2>2. CASE i = Len(out) + 1
    <3>1. out'[i] = c /\ Prev(i)' = Newest
      BY <1>1, <1>2, <2>2 DEF Prev, Newest
    <3> QED
      BY <3>1
  <2>3. CASE i > Len(out) + 1
    <3>1. out'[i] = c /\ Prev(i)' = c /\ k > 1
      BY <1>1, <1>2, <2>3 DEF Prev
    <3> QED
      BY <3>1
  <2> QED
    BY <1>1, <2>1, <2>2, <2>3
<1>5. Framed'
  BY <1>2, <1>4 DEF Framed
<1> QED
  BY <1>2, <1>3, <1>5

\* TCSETS2 while the line is set up.
LEMMA CheckInd ==
    ASSUME Ind, NEW t \in {"t_57", "t_250"}, NEW from \in {"check57", "check250"},
           NEW to \in {"check250", "loop"}, CheckSetting(t, from, to)
    PROVE  Ind'
<1> USE DEF Ind
<1>1. TypeOK'
  BY DEF CheckSetting, TypeOK, loopVars, Setup, Frame, Ended
<1>2. MishapInv'
  BY DEF CheckSetting, TypeOK, MishapInv, Setup, Frame
<1>3. out' = <<>> /\ wire' = "none"
  BY DEF CheckSetting, PlaceInv, Setup
<1>4. Framed' /\ Newest' = "none"
  BY <1>3 DEF Framed, Newest
<1>5. PlaceInv'
  BY <1>3, <1>4 DEF CheckSetting, PlaceInv, Setup
<1> QED
  BY <1>1, <1>2, <1>4, <1>5

\* TCSETSW2, before the break, before the start code and while cleaning up.
LEMMA SetInd ==
    ASSUME Ind, NEW t, NEW from, NEW to, SetTermios2(t, from, to),
           <<t, from, to>> \in {<<"t_57", "set57", "break">>, <<"t_250", "set250", "code">>,
                                <<"orig", "clean", "done">>}
    PROVE  Ind'
<1> USE DEF Ind
<1>1. /\ t \in {"t_57", "t_250", "orig"} /\ pc = from
      /\ pc' \in {"break", "code", "done", "clean", "failed"}
      /\ pc = "clean" => pc' = (IF plugged THEN "done" ELSE "failed")
      /\ pc = "set57" => pc' = (IF plugged THEN "break" ELSE "clean")
      /\ pc = "set250" => pc' = (IF plugged THEN "code" ELSE "clean")
      /\ pc \in {"set57", "set250", "clean"}
  BY DEF SetTermios2, OnError, Setup, Frame
<1>2. TypeOK'
  BY <1>1 DEF SetTermios2, TypeOK, loopVars, Setup, Frame, Ended
<1>3. MishapInv'
  BY <1>1 DEF SetTermios2, TypeOK, MishapInv, Setup, Frame
<1>4. CASE plugged
  <2>1. out' = <<>> /\ wire' = wire /\ out = <<>>
    BY <1>4 DEF SetTermios2
  <2>2. Framed' /\ Newest' = wire /\ Newest = wire
    BY <2>1 DEF Framed, Newest
  <2>3. PlaceInv'
    BY <1>1, <1>4, <2>1, <2>2 DEF SetTermios2, PlaceInv, Setup
  <2> QED
    BY <1>2, <1>3, <2>2, <2>3
<1>5. CASE ~plugged
  <2>1. Framed'
    BY <1>5, DriverKept DEF SetTermios2
  <2>2. PlaceInv'
    BY <1>1, <1>5 DEF SetTermios2, PlaceInv, Setup
  <2> QED
    BY <1>2, <1>3, <2>1, <2>2
<1> QED
  BY <1>4, <1>5

\* write() of the break, the start code and the channels.
LEMMA SendInd ==
    ASSUME Ind, NEW c, NEW n, NEW from, NEW to, Send(c, n, from, to),
           <<c, n, from, to>> \in {<<"break", 1, "break", "set250">>, <<"code", 1, "code", "seq">>,
                                   <<"data", SeqLen, "seq", "step">>}
    PROVE  Ind'
<1> USE DEF Ind
<1>1. /\ pc = from /\ from \in {"break", "code", "seq"} /\ c \in Chars
      /\ OnError(from) = "clean" /\ to \in {"set250", "seq", "step"}
      /\ n \in Nat /\ (c # "data" => n = 1)
      /\ from = "break" => c = "break" /\ to = "set250"
      /\ from = "code" => c = "code" /\ to = "seq"
      /\ from = "seq" => c = "data" /\ to = "step"
  BY BoundsAssumption DEF Send, OnError, Setup, Frame, Chars
<1>2. CASE plugged /\ pc' = to /\ (\E k \in 1..n : out' = out \o [i \in 1..k |-> c]) /\ UNCHANGED full
  <2>1. PICK k \in 1..n : out' = out \o [i \in 1..k |-> c]
    BY <1>2
  <2>2. /\ k \in Nat \ {0} /\ UNCHANGED <<tty, wire>> /\ SpeedOf(c) = tty
        /\ Follows(Newest, c) /\ (k > 1 => Follows(c, c))
    BY <1>1, <1>2, <2>1 DEF Send, PlaceInv, SpeedOf, Follows
  <2>3. Framed' /\ Newest' = c /\ out' \in Seq(Chars)
    BY <1>1, <2>1, <2>2, SendFramed
  <2>4. TypeOK'
    BY <1>1, <1>2, <2>3 DEF Send, TypeOK, loopVars, Setup, Frame, Ended
  <2>5. MishapInv'
    BY <1>1, <1>2 DEF Send, TypeOK, MishapInv, Setup, Frame
  <2>6. PlaceInv'
    BY <1>1, <1>2, <2>3 DEF Send, PlaceInv, Setup
  <2> QED
    BY <2>3, <2>4, <2>5, <2>6
<1>3. CASE pc' = "clean" /\ UNCHANGED out /\ (plugged => full' = full + 1) /\ (~plugged => UNCHANGED full)
  <2>1. Framed'
    BY <1>3, DriverKept DEF Send
  <2>2. full = 0
    BY <1>1 DEF MishapInv, Frame
  <2>3. TypeOK'
    BY <1>1, <1>3, <2>2 DEF Send, TypeOK, loopVars, Setup, Frame, Ended
  <2>4. MishapInv'
    BY <1>1, <1>3, <2>2 DEF Send, TypeOK, MishapInv, Setup, Frame
  <2>5. PlaceInv'
    BY <1>1, <1>3 DEF Send, PlaceInv, Setup
  <2> QED
    BY <2>1, <2>3, <2>4, <2>5
<1> QED
  BY <1>1, <1>2, <1>3 DEF Send

\* Every step of the program, the signals and the driver preserves Ind.
LEMMA StepInd == Ind /\ [Next]_vars => Ind'
<1> SUFFICES ASSUME Ind, [Next]_vars PROVE Ind'
  OBVIOUS
<1> USE DEF Ind
<1>t. signals \in Nat /\ full \in Nat /\ MaxSignals \in Nat /\ out \in Seq(Chars)
  BY BoundsAssumption DEF TypeOK
<1>1. CASE SetupSignals \/ Open \/ Loop \/ Step
  <2>1. UNCHANGED <<killed, devVars, signals, full>>
    BY <1>1 DEF SetupSignals, Open, Loop, Step
  <2>2. /\ pc = "start" => pc' = "open"
        /\ pc = "open" => pc' \in {"check57", "refused"}
        /\ pc = "loop" => pc' = IF killed THEN "clean" ELSE "set57"
        /\ pc = "step" => pc' = "loop"
        /\ pc \in {"start", "open", "loop", "step"}
    BY <1>1 DEF SetupSignals, Open, Loop, Step, Goto
  <2>3. val' \in 0..255 /\ inc' \in {-4, 4}
    <3>1. CASE Step
      <4>1. val \in 0..255 /\ inc \in {-4, 4}
        BY DEF TypeOK
      <4> QED
        BY <3>1, <4>1 DEF Step, Top
    <3>2. CASE SetupSignals \/ Open \/ Loop
      BY <3>2 DEF SetupSignals, Open, Loop, loopVars, TypeOK
    <3> QED
      BY <1>1, <3>1, <3>2
  <2>4. TypeOK'
    BY <2>1, <2>2, <2>3 DEF TypeOK, devVars, Setup, Frame, Ended
  <2>5. MishapInv'
    BY <1>t, <2>1, <2>2 DEF MishapInv, devVars, Setup, Frame
  <2>6. Framed' /\ Newest' = Newest
    BY <2>1, DriverKept DEF devVars
  <2>7. PlaceInv'
    <3>1. pc \in {"start", "open"} => Newest = "none"
      BY DEF PlaceInv, Newest, Setup
    <3> QED
      BY <2>1, <2>2, <2>6, <3>1 DEF PlaceInv, devVars, Setup
  <2> QED
    BY <2>4, <2>5, <2>6, <2>7
<1>2. CASE CheckSetting("t_57", "check57", "check250") \/ CheckSetting("t_250", "check250", "loop")
  BY <1>2, CheckInd
<1>3. CASE \/ SetTermios2("t_57", "set57", "break") \/ SetTermios2("t_250", "set250", "code")
           \/ SetTermios2("orig", "clean", "done")
  BY <1>3, SetInd
<1>4. CASE \/ Send("break", 1, "break", "set250") \/ Send("code", 1, "code", "seq")
           \/ Send("data", SeqLen, "seq", "step")
  BY <1>4, SendInd
<1>5. CASE Sig
  <2>1. /\ signals' = signals + 1 /\ UNCHANGED <<loopVars, devVars, full>>
        /\ signals' \in 0..MaxSignals
        /\ killed' \in BOOLEAN
    <3>1. signals' = signals + 1 /\ UNCHANGED <<loopVars, devVars, full>> /\ signals < MaxSignals
      BY <1>5 DEF Sig
    <3>2. killed' \in BOOLEAN
      BY <1>5, Zenon DEF Sig, TypeOK
    <3> QED
      BY <1>t, <3>1, <3>2
  <2>2. /\ pc \notin Ended
        /\ pc' # pc => \/ pc \in Setup /\ pc' = "refused"
                       \/ pc \in Frame /\ pc' = "clean"
                       \/ pc = "clean" /\ pc' = "failed"
    <3>1. pc \in Setup \cup Frame \cup {"loop", "clean"}
      BY <1>5 DEF Sig, TypeOK
    <3> QED
      BY <1>5, <3>1 DEF Sig, OnError, Setup, Frame, Ended
  <2>3. TypeOK'
    BY <2>1, <2>2 DEF TypeOK, loopVars, devVars, Setup, Frame, Ended
  <2>4. MishapInv'
    BY <1>t, <2>1, <2>2 DEF MishapInv, devVars, Setup, Frame, Ended
  <2>5. Framed' /\ Newest' = Newest
    BY <2>1, DriverKept DEF devVars
  <2>6. PlaceInv'
    BY <2>1, <2>2, <2>5 DEF PlaceInv, devVars, Setup, Frame, Ended
  <2> QED
    BY <2>3, <2>4, <2>5, <2>6
<1>6. CASE Transmit
  <2>1. /\ out # <<>> /\ wire' = Head(out) /\ out' = Tail(out)
        /\ UNCHANGED <<pc, loopVars, killed, tty, plugged, signals, full>>
    BY <1>6 DEF Transmit
  <2>2. /\ wire' = out[1] /\ wire' \in Chars /\ out' \in Seq(Chars) /\ Len(out) \in Nat \ {0}
        /\ Len(out') = Len(out) - 1
        /\ \A i \in 1..(Len(out) - 1) : out'[i] = out[i + 1]
        /\ out' = <<>> => Len(out) = 1
        /\ out' # <<>> => Len(out) > 1
    BY <1>t, <2>1, TailLemma
  <2>3. TypeOK'
    BY <2>1, <2>2 DEF TypeOK, loopVars
  <2>4. MishapInv'
    BY <2>1 DEF MishapInv
  <2>5. Newest' = Newest
    BY <2>1, <2>2 DEF Newest
  <2>6. ASSUME NEW i \in 1..(Len(out) - 1)
        PROVE  SpeedOf(out'[i]) = tty' /\ Follows(Prev(i)', out'[i])
    <3>1. i + 1 \in 1..Len(out) /\ out'[i] = out[i + 1]
      BY <2>2
    <3>2. Prev(i)' = Prev(i + 1)
      BY <2>2 DEF Prev
    <3> QED
      BY <2>1, <3>1, <3>2 DEF Framed
  <2>7. Framed'
    BY <2>2, <2>6 DEF Framed
  <2>8. PlaceInv'
    BY <2>1, <2>5 DEF PlaceInv
  <2> QED
    BY <2>3, <2>4, <2>7, <2>8
<1>7. CASE Unplug
  <2>1. plugged' \in BOOLEAN /\ ~plugged' /\ out' = <<>> /\ out' \in Seq(Chars)
    BY <1>7, EmptySeq, Zenon DEF Unplug
  <2>2. TypeOK'
    BY <1>7, <2>1 DEF Unplug, TypeOK, loopVars
  <2>3. MishapInv'
    BY <1>7, <2>1 DEF Unplug, MishapInv
  <2>4. Framed'
    BY <2>1 DEF Framed
  <2>5. PlaceInv'
    BY <1>7, <2>1 DEF Unplug, PlaceInv
  <2> QED
    BY <2>2, <2>3, <2>4, <2>5
<1>8. CASE UNCHANGED vars
  <2>1. UNCHANGED <<pc, val, inc, killed, tty, out, wire, plugged, signals, full>>
    BY <1>8 DEF vars, loopVars, devVars
  <2>2. Framed' /\ Newest' = Newest
    BY <2>1, DriverKept
  <2>3. TypeOK' /\ MishapInv'
    BY <2>1 DEF TypeOK, MishapInv
  <2>4. PlaceInv'
    BY <2>1, <2>2 DEF PlaceInv
  <2> QED
    BY <2>2, <2>3, <2>4
<1> QED
  BY <1>1, <1>2, <1>3, <1>4, <1>5, <1>6, <1>7, <1>8 DEF Next, Program, Finished

\* All reachable states satisfy Ind.
THEOREM Inductive == Spec => []Ind
BY InitInd, StepInd, PTL DEF Spec

\* TypeOK: the fade of dmx512/main.c stays a byte, the flag a flag.
THEOREM TypeCorrect == Spec => []TypeOK
BY Inductive, PTL DEF Ind

\* WellFramed: TCSETSW2 keeps every character at its speed, and what
\* send_dmx512() wrote is a sequence of DMX512 frames.
THEOREM FrameSafe == Spec => []WellFramed
<1>1. Ind => WellFramed
  BY FramedLemma DEF Ind
<1> QED
  BY <1>1, Inductive, PTL

\* TakesTwoMishaps: with the device in place one signal or one refused write
\* does not keep main() from restoring the line.
THEOREM RestoreSafe == Spec => []TakesTwoMishaps
<1>1. Ind => TakesTwoMishaps
  <2> SUFFICES ASSUME Ind PROVE TakesTwoMishaps
    OBVIOUS
  <2>1. signals \in Nat /\ full \in Nat
    BY BoundsAssumption DEF Ind, TypeOK
  <2> QED
    BY <2>1 DEF Ind, MishapInv, TakesTwoMishaps
<1> QED
  BY <1>1, Inductive, PTL

=============================================================================
