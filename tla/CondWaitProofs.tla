--------------------------- MODULE CondWaitProofs ---------------------------
(***************************************************************************)
(* Proofs about CondWait, for inputs of any length and any number of       *)
(* spurious wake-ups.                                                      *)
(***************************************************************************)
EXTENDS CondWait, TLAPS

\* The mutex is held by the thread in the body of its loop and, for ever, once
\* it was cancelled; only main()'s last two calls cancel.
HoldInv ==
    /\ m = "thr" <=> tpc \in {"read", "usleep", "dead"}
    /\ canceled <=> mpc \in {"join", "done"}
    /\ tpc = "dead" => canceled
    /\ mpc = "lock" => ccc < MaxChars

\* Where the two waits can meet: before the thread's first turn, or not at all.
MeetInv ==
    /\ tpc = "lock" => log = <<>>
    /\ tpc = "usleep" => mpc # "condw"
    /\ HangsOnlyAtStart

\* The hand-over without spurious wake-ups: the thread is woken only for a
\* character main() is waiting on, the one after those printed.
OrderInv ==
    spurious = 0 =>
        /\ \A i \in DOMAIN log : log[i] = i
        /\ ccc = IF mpc = "condw" THEN Len(log) + 1 ELSE Len(log)
        /\ tpc \in {"relock", "read"} => mpc = "condw"

Ind == TypeOK /\ HoldInv /\ MeetInv /\ OrderInv

\* Every step of main() and thr() keeps the invariant.
THEOREM Inductive == Spec => []Ind
<1>1. Init => Ind
  <2> SUFFICES ASSUME Init PROVE Ind
    OBVIOUS
  <2>1. TypeOK
    <3>1. <<>> \in Seq(0..MaxChars)
      OBVIOUS
    <3>2. canceled \in BOOLEAN
      BY Zenon DEF Init
    <3> QED BY <3>1, <3>2, BoundsAssumption DEF Init, TypeOK
  <2>2. HoldInv /\ MeetInv
    BY DEF Init, HoldInv, MeetInv, HangsOnlyAtStart
  <2>3. OrderInv
    BY DEF Init, OrderInv
  <2> QED BY <2>1, <2>2, <2>3 DEF Ind
<1>2. Ind /\ [Next]_vars => Ind'
  <2> SUFFICES ASSUME Ind, [Next]_vars PROVE Ind'
    OBVIOUS
  <2> USE BoundsAssumption
      DEF Ind, TypeOK, HoldInv, MeetInv, OrderInv, HangsOnlyAtStart, BothWait
  <2>1. CASE GetChar
    BY <2>1 DEF GetChar
  <2>2. CASE Write
    BY <2>2 DEF Write, WakeThr
  <2>3. CASE Resume
    BY <2>3 DEF Resume
  <2>4. CASE Cancel
    BY <2>4 DEF Cancel
  <2>5. CASE Join
    BY <2>5 DEF Join
  <2>6. CASE ThrStart
    BY <2>6 DEF ThrStart
  <2>7. CASE ThrWake
    BY <2>7 DEF ThrWake
  <2>8. CASE ThrRead
    <3>1. log' \in Seq(0..MaxChars)
      BY <2>8 DEF ThrRead
    <3>2. Len(log') = Len(log) + 1 /\ log'[Len(log) + 1] = ccc
      BY <2>8 DEF ThrRead
    <3>3. \A i \in DOMAIN log' : i \in DOMAIN log \/ i = Len(log) + 1
      BY <2>8 DEF ThrRead
    <3>4. \A i \in DOMAIN log : log'[i] = log[i]
      BY <2>8 DEF ThrRead
    <3>5. HoldInv' /\ MeetInv'
      BY <2>8 DEF ThrRead, WakeMain
    <3>6. OrderInv'
      BY <2>8, <3>2, <3>3, <3>4 DEF ThrRead, WakeMain
    <3> QED BY <2>8, <3>1, <3>5, <3>6 DEF ThrRead, WakeMain
  <2>9. CASE ThrSleep
    BY <2>9 DEF ThrSleep
  <2>10. CASE ThrCanceled
    BY <2>10 DEF ThrCanceled
  <2>11. CASE ThrCanceledPrinting
    BY <2>11 DEF ThrCanceledPrinting
  <2>12. CASE SpuriousWake
    BY <2>12 DEF SpuriousWake
  <2>13. CASE UNCHANGED vars
    BY <2>13 DEF vars
  <2> QED
    BY <2>1, <2>2, <2>3, <2>4, <2>5, <2>6, <2>7, <2>8, <2>9, <2>10, <2>11,
       <2>12, <2>13
    DEF Next, MainStep, ThrStep
<1> QED BY <1>1, <1>2, PTL DEF Spec

\* The two waits of the handshake meet only before the thread's first turn.
THEOREM HangSafe == Spec => []HangsOnlyAtStart
<1>1. Ind => HangsOnlyAtStart
  BY DEF Ind, MeetInv
<1> QED BY <1>1, Inductive, PTL

\* Without spurious wake-ups every character is printed once, in order, before
\* main() reads the next one.
THEOREM HandOverSafe == Spec => []HandedOverOnce
<1>1. Ind => HandedOverOnce
  BY DEF Ind, OrderInv, HandedOverOnce
<1> QED BY <1>1, Inductive, PTL

=============================================================================
